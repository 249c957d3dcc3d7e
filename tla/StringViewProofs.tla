-------------------------- MODULE StringViewProofs --------------------------
(* For every text: a view is the part of its text between two places, and so *)
(* is a view of a view; what is asked of it by places in the text is what    *)
(* would be asked of that part.  What the splits return is computed by a     *)
(* recursion from place to place, and is shown from the end of the text on:  *)
(* the least counterexample, counted from there, would not be one.           *)
EXTENDS Utilities, FiniteSetTheorems, SequenceTheorems, WellFoundedInduction, TLAPS

\* A set of numbers that is not empty has a least one.
LEMMA Least ==
  ASSUME NEW T \in SUBSET Nat, T # {}
  PROVE  \E x \in T : \A y \in T : x <= y
<1> DEFINE R == OpToRel(<, Nat)
<1>1. IsWellFoundedOn(R, Nat)
  BY NatLessThanWellFounded
<1>2. \A x, y \in Nat : x < y => <<x, y>> \in R
  BY DEF OpToRel
<1> HIDE DEF R
<1>3. PICK x \in T : \A y \in T : ~ (<<y, x>> \in R)
  BY <1>1, WFMin
<1>4. ASSUME NEW y \in T PROVE x <= y
  <2>1. x \in Nat /\ y \in Nat /\ ~(y < x)
    BY <1>2, <1>3
  <2> QED BY <2>1
<1> QED BY <1>4

\* Induction for a set of numbers
LEMMA Induction ==
  ASSUME NEW S, 0 \in S, \A n \in Nat : n \in S => n + 1 \in S
  PROVE  \A n \in Nat : n \in S
<1> DEFINE T == {n \in Nat : n \notin S}
<1>1. SUFFICES ASSUME T # {} PROVE FALSE
  OBVIOUS
<1>2. PICK m \in T : \A y \in T : m <= y
  BY <1>1, Least
<1>3. m # 0
  OBVIOUS
<1>4. m - 1 \in Nat /\ m - 1 \notin T
  BY <1>2, <1>3
<1> QED BY <1>4

\* The same up to a bound
LEMMA InductionTo ==
  ASSUME NEW S, NEW m \in Nat, 0 \in S, \A n \in 0 .. m-1 : n \in S => n + 1 \in S
  PROVE  \A n \in 0..m : n \in S
<1> DEFINE T == {n \in Nat : n <= m => n \in S}
<1>1. 0 \in T
  OBVIOUS
<1>2. ASSUME NEW n \in Nat, n \in T PROVE n + 1 \in T
  BY <1>2
<1> HIDE DEF T
<1>3. \A n \in Nat : n \in T
  BY <1>1, <1>2, Induction
<1> QED BY <1>3 DEF T

\* A bounded set of numbers that is not empty has a greatest one.
LEMMA Greatest ==
  ASSUME NEW T \in SUBSET Nat, T # {}, NEW m \in Nat, \A x \in T : x <= m
  PROVE  \E x \in T : \A y \in T : x >= y
<1> DEFINE U == {m - x : x \in T}
<1>1. U \in SUBSET Nat /\ U # {}
  <2>1. \A x \in T : m - x \in Nat
    OBVIOUS
  <2> QED BY <2>1
<1>2. PICK u \in U : \A v \in U : u <= v
  BY <1>1, Least
<1>3. PICK x \in T : u = m - x
  BY <1>2
<1>4. ASSUME NEW y \in T PROVE x >= y
  <2>1. m - y \in U
    OBVIOUS
  <2> QED BY <1>2, <1>3, <2>1
<1> QED BY <1>4

\* The least of the set.
LEMMA MinIs ==
  ASSUME NEW T \in SUBSET Nat, T # {}
  PROVE  Str!Min(T) \in T /\ \A y \in T : Str!Min(T) <= y
  BY Least DEF Str!Min

\* The greatest of the set.
LEMMA MaxIs ==
  ASSUME NEW T \in SUBSET Nat, T # {}, NEW m \in Nat, \A x \in T : x <= m
  PROVE  Str!Max(T) \in T /\ \A y \in T : Str!Max(T) >= y
  BY Greatest DEF Str!Max

\* The part of k elements of s after the first p
Part(s, p, k) == SubSeq(s, p + 1, p + k)

\* A part of a sequence.
LEMMA PartIs ==
  ASSUME NEW S, NEW s \in Seq(S), NEW p \in Nat, NEW k \in Nat, p + k <= Len(s)
  PROVE  /\ Part(s, p, k) \in Seq(S) /\ Len(Part(s, p, k)) = k
         /\ \A i \in 1..k : Part(s, p, k)[i] = s[p + i]
<1> DEFINE m == p + 1
           n == p + k
<1>1. m \in 1..Len(s)+1 /\ n \in m-1..Len(s) /\ Part(s, p, k) = SubSeq(s, m, n) /\ n - m + 1 = k
  BY DEF Part
<1> HIDE DEF m, n
<1>2. SubSeq(s, m, n) \in Seq(S) /\ Len(SubSeq(s, m, n)) = n - m + 1 /\ \A i \in 1..n-m+1 : SubSeq(s, m, n)[i] = s[m+i-1]
  <2>1. m \in Nat \ {0} /\ n \in Nat /\ m <= n + 1 /\ n <= Len(s)
    BY <1>1
  <2>2. SubSeq(s, m, n) = [i \in 1..n-m+1 |-> s[m+i-1]] /\ n - m + 1 \in Nat
    BY <2>1, SMTT(20)
  <2>3. \A i \in 1..n-m+1 : m + i - 1 \in 1..Len(s)
    BY <2>1
  <2> QED BY <1>1, <2>1, <2>2, <2>3, SMTT(20)
<1> QED BY <1>1, <1>2 DEF m

\* Sequences that are equal in length and element by element are equal.
LEMMA Same ==
  ASSUME NEW S, NEW s \in Seq(S), NEW t \in Seq(S), Len(s) = Len(t), \A i \in 1..Len(s) : s[i] = t[i]
  PROVE  s = t
  BY SeqEqual

\* A part of a part is a part of the whole.
LEMMA PartOfPart ==
  ASSUME NEW S, NEW s \in Seq(S), NEW a \in Nat, NEW n \in Nat, a + n <= Len(s),
         NEW p \in Nat, NEW k \in Nat, p + k <= n
  PROVE  Part(Part(s, a, n), p, k) = Part(s, a + p, k)
<1> DEFINE r == Part(s, a, n)
           u == Part(r, p, k)
           v == Part(s, a + p, k)
<1>1. r \in Seq(S) /\ Len(r) = n /\ \A i \in 1..n : r[i] = s[a + i]
  BY PartIs
<1> HIDE DEF r
<1>2. u \in Seq(S) /\ Len(u) = k /\ \A i \in 1..k : u[i] = r[p + i]
  <2>1. p + k <= Len(r)
    BY <1>1
  <2> QED BY <1>1, <2>1, PartIs
<1>3. v \in Seq(S) /\ Len(v) = k /\ \A i \in 1..k : v[i] = s[(a + p) + i]
  <2>1. a + p \in Nat /\ (a + p) + k <= Len(s)
    OBVIOUS
  <2> QED BY <2>1, PartIs
<1> HIDE DEF u, v
<1>4. ASSUME NEW i \in 1..k PROVE u[i] = v[i]
  <2>1. p + i \in 1..n /\ a + (p + i) = (a + p) + i
    OBVIOUS
  <2> QED BY <1>1, <1>2, <1>3, <2>1
<1>5. u = v
  BY <1>2, <1>3, <1>4, Same
<1> QED BY <1>5 DEF u, v, r

\* All of a sequence is that sequence.
LEMMA Whole ==
  ASSUME NEW S, NEW s \in Seq(S)
  PROVE  Part(s, 0, Len(s)) = s
<1> DEFINE u == Part(s, 0, Len(s))
<1>1. Len(s) \in Nat /\ 0 + Len(s) <= Len(s)
  OBVIOUS
<1>2. u \in Seq(S) /\ Len(u) = Len(s) /\ \A i \in 1..Len(s) : u[i] = s[0 + i]
  BY <1>1, PartIs
<1> HIDE DEF u
<1>3. u = s
  BY <1>2, Same
<1> QED BY <1>3 DEF u

StrInv == /\ text \in Texts /\ m_start \in Nat /\ m_size \in Nat /\ m_start + m_size <= Len(text)
          /\ str = Part(text, m_start, m_size)

\* What the invariant says of the view.
LEMMA StrFacts ==
  ASSUME StrInv
  PROVE  /\ text \in Seq(Chars) /\ str \in Seq(Chars) /\ Len(str) = m_size
         /\ m_size \in Nat /\ m_size < npos /\ npos \in Nat /\ m_size \in Str!Sizes
         /\ \A i \in 0..m_size-1 : Str!At(i) = str[i+1]
<1>1. text \in Seq(Chars) /\ Len(text) < npos /\ npos \in Nat /\ Len(text) \in Nat
  BY TextAssumption DEF StrInv
<1>2. str \in Seq(Chars) /\ Len(str) = m_size /\ \A i \in 1..m_size : str[i] = text[m_start + i]
  BY <1>1, PartIs DEF StrInv
<1>3. ASSUME NEW i \in 0..m_size-1 PROVE Str!At(i) = str[i+1]
  <2>1. i + 1 \in 1..m_size /\ m_start + (i + 1) = m_start + i + 1
    BY DEF StrInv
  <2> QED BY <1>2, <2>1 DEF Str!At
<1>4. m_size \in Str!Sizes
  <2> DEFINE T == {Len(t) : t \in Texts}
  <2>1. T \in SUBSET Nat /\ Len(text) \in T /\ \A x \in T : x <= npos
    BY TextAssumption DEF StrInv
  <2>2. Str!Max(T) \in Nat /\ Len(text) <= Str!Max(T)
    BY <1>1, <2>1, MaxIs
  <2> HIDE DEF T
  <2>3. m_size \in 0..Str!Max(T)
    BY <1>1, <2>2 DEF StrInv
  <2> QED BY <2>3 DEF Str!Sizes, T
<1> QED BY <1>1, <1>2, <1>3, <1>4 DEF StrInv

\* A part of the view becomes the view, or nothing does.
LEMMA ViewStep ==
  ASSUME StrInv, NEW p \in Nat, NEW k \in Nat, p + k <= m_size, Str!View(m_start + p, k, Part(str, p, k))
  PROVE  StrInv'
<1>1. text \in Seq(Chars)
  BY StrFacts
<1>2. Part(str, p, k) = Part(text, m_start + p, k)
  BY <1>1, PartOfPart DEF StrInv
<1>3. text' = text /\ m_start' = m_start + p /\ m_size' = k /\ str' = Part(text, m_start + p, k)
  BY <1>2 DEF Str!View
<1>4. m_start + p \in Nat /\ (m_start + p) + k <= Len(text)
  BY <1>1 DEF StrInv
<1> QED BY <1>3, <1>4 DEF StrInv, Part

\* An empty view keeps the invariant.
LEMMA NothingStep ==
  ASSUME StrInv, Str!View(0, 0, <<>>)
  PROVE  StrInv'
<1>1. text \in Seq(Chars) /\ text' = text /\ m_start' = 0 /\ m_size' = 0 /\ str' = <<>>
  BY StrFacts DEF Str!View
<1>2. Part(text, 0, 0) = <<>>
  BY <1>1, PartIs
<1> QED BY <1>1, <1>2 DEF StrInv, Part

\* Earliest and latest of some numbers below npos, which says that there are none
LEMMA EarliestIs ==
  ASSUME NEW T \in SUBSET Nat, \A x \in T : x < npos
  PROVE  IF T = {} THEN Str!Earliest(T) = npos
         ELSE Str!Earliest(T) \in T /\ Str!Earliest(T) # npos /\ \A y \in T : Str!Earliest(T) <= y
<1>1. CASE T = {}
  BY <1>1 DEF Str!Earliest
<1>2. CASE T # {}
  <2>1. Str!Min(T) \in T /\ \A y \in T : Str!Min(T) <= y
    BY <1>2, MinIs
  <2>2. Str!Earliest(T) = Str!Min(T)
    BY <1>2 DEF Str!Earliest
  <2>3. Str!Min(T) < npos /\ npos \in Nat /\ Str!Min(T) \in Nat
    BY <2>1, TextAssumption
  <2> QED BY <1>2, <2>1, <2>2, <2>3
<1> QED BY <1>1, <1>2

\* The latest place, npos when there is none.
LEMMA LatestIs ==
  ASSUME NEW T \in SUBSET Nat, \A x \in T : x < npos
  PROVE  IF T = {} THEN Str!Latest(T) = npos
         ELSE Str!Latest(T) \in T /\ Str!Latest(T) # npos /\ \A y \in T : Str!Latest(T) >= y
<1>1. CASE T = {}
  BY <1>1 DEF Str!Latest
<1>2. CASE T # {}
  <2>0. npos \in Nat /\ \A x \in T : x <= npos
    BY TextAssumption
  <2>1. Str!Max(T) \in T /\ \A y \in T : Str!Max(T) >= y
    BY <1>2, <2>0, MaxIs
  <2>2. Str!Latest(T) = Str!Max(T)
    BY <1>2 DEF Str!Latest
  <2>3. Str!Max(T) < npos /\ Str!Max(T) \in Nat
    BY <2>1
  <2> QED BY <1>2, <2>0, <2>1, <2>2, <2>3
<1> QED BY <1>1, <1>2

\* The first place that is not in cs, from the left, and the last
LEMMA FirstNotOf ==
  ASSUME StrInv, NEW cs
  PROVE  LET i == Str!findFirstNotOf(cs, 0) IN
         IF \E k \in 1..m_size : str[k] \notin cs
         THEN i \in 0..m_size-1 /\ i # npos /\ str[i+1] \notin cs /\ \A k \in 1..i : str[k] \in cs
         ELSE i = npos
<1> DEFINE T == {i \in 0..m_size-1 : Str!At(i) \notin cs}
           i == Str!Earliest(T)
<1>1. m_size \in Nat /\ m_size < npos /\ npos \in Nat /\ \A k \in 0..m_size-1 : Str!At(k) = str[k+1]
  BY StrFacts
<1>2. Str!findFirstNotOf(cs, 0) = i
  BY DEF Str!findFirstNotOf
<1>3. T \in SUBSET Nat /\ \A x \in T : x < npos
  BY <1>1
<1>4. \A k \in 0..m_size-1 : k \in T <=> str[k+1] \notin cs
  BY <1>1
<1>5. T \subseteq 0..m_size-1
  OBVIOUS
<1> HIDE DEF T
<1>6. IF T = {} THEN i = npos ELSE i \in T /\ i # npos /\ \A y \in T : i <= y
  BY <1>3, EarliestIs
<1> HIDE DEF i
<1>7. CASE T = {}
  <2>1. ASSUME NEW k \in 1..m_size PROVE str[k] \in cs
    <3>1. k - 1 \in 0..m_size-1 /\ (k - 1) + 1 = k
      BY <1>1
    <3> QED BY <1>4, <1>7, <3>1
  <2> QED BY <1>2, <1>6, <1>7, <2>1
<1>8. CASE T # {}
  <2>1. i \in 0..m_size-1 /\ i # npos /\ str[i+1] \notin cs /\ i + 1 \in 1..m_size
    <3>1. i \in T /\ i \in 0..m_size-1 /\ i # npos
      BY <1>5, <1>6, <1>8
    <3>2. str[i+1] \notin cs
      BY <1>4, <3>1
    <3> QED BY <1>1, <3>1, <3>2
  <2>2. ASSUME NEW k \in 1..i PROVE str[k] \in cs
    <3>1. k - 1 \in 0..m_size-1 /\ (k - 1) + 1 = k /\ ~(i <= k - 1)
      BY <1>1, <2>1
    <3> QED BY <1>4, <1>6, <1>8, <3>1
  <2> QED BY <1>2, <2>1, <2>2
<1> QED BY <1>7, <1>8

\* find_last_not_of finds the last other character.
LEMMA LastNotOf ==
  ASSUME StrInv, NEW cs
  PROVE  LET j == Str!findLastNotOf(cs, npos) IN
         IF \E k \in 1..m_size : str[k] \notin cs
         THEN j \in 0..m_size-1 /\ j # npos /\ str[j+1] \notin cs /\ \A k \in j+2..m_size : str[k] \in cs
         ELSE j = npos
<1> DEFINE T == {i \in 0..m_size-1 : Str!At(i) \notin cs}
           j == Str!Latest(T)
<1>1. m_size \in Nat /\ m_size < npos /\ npos \in Nat /\ \A k \in 0..m_size-1 : Str!At(k) = str[k+1]
  BY StrFacts
<1>2. Str!findLastNotOf(cs, npos) = IF m_size = 0 THEN npos ELSE j
  <2>1. m_size # 0 => Str!Shorter(m_size - 1, npos) = m_size - 1
    BY <1>1 DEF Str!Shorter
  <2> QED BY <2>1 DEF Str!findLastNotOf
<1>3. T \in SUBSET Nat /\ \A x \in T : x < npos
  BY <1>1
<1>4. \A k \in 0..m_size-1 : k \in T <=> str[k+1] \notin cs
  BY <1>1
<1>5. T \subseteq 0..m_size-1
  OBVIOUS
<1> HIDE DEF T
<1>6. IF T = {} THEN j = npos ELSE j \in T /\ j # npos /\ \A y \in T : j >= y
  BY <1>3, LatestIs
<1> HIDE DEF j
<1>7. CASE T = {}
  <2>1. ASSUME NEW k \in 1..m_size PROVE str[k] \in cs
    <3>1. k - 1 \in 0..m_size-1 /\ (k - 1) + 1 = k
      BY <1>1
    <3> QED BY <1>4, <1>7, <3>1
  <2> QED BY <1>2, <1>6, <1>7, <2>1
<1>8. CASE T # {}
  <2>1. j \in 0..m_size-1 /\ j # npos /\ str[j+1] \notin cs /\ j + 1 \in 1..m_size /\ m_size # 0
    <3>1. j \in T /\ j \in 0..m_size-1 /\ j # npos
      BY <1>5, <1>6, <1>8
    <3>2. str[j+1] \notin cs
      BY <1>4, <3>1
    <3> QED BY <1>1, <3>1, <3>2
  <2>2. ASSUME NEW k \in j+2..m_size PROVE str[k] \in cs
    <3>1. k - 1 \in 0..m_size-1 /\ (k - 1) + 1 = k /\ ~(j >= k - 1)
      BY <1>1, <2>1
    <3> QED BY <1>4, <1>6, <1>8, <3>1
  <2> QED BY <1>2, <2>1, <2>2
<1> QED BY <1>7, <1>8

\* A string without the characters of cs at its left: those before its first other one
LEMMA LeftOff ==
  ASSUME NEW s \in Seq(Chars), NEW cs, NEW q \in 0..Len(s), \A k \in 1..q : s[k] \in cs,
         q = Len(s) \/ s[q+1] \notin cs
  PROVE  Str!WithoutLeft(s, cs) = Part(s, q, Len(s) - q)
<1> DEFINE T == {i \in 0..Len(s) : i = Len(s) \/ s[i+1] \notin cs}
<1>1. T \in SUBSET Nat /\ q \in T
  OBVIOUS
<1>2. ASSUME NEW i \in T PROVE q <= i
  <2>1. CASE i < q
    <3>1. i + 1 \in 1..q /\ i # Len(s)
      BY <2>1
    <3> QED BY <3>1
  <2> QED BY <1>1, <2>1
<1>3. Str!Min(T) = q
  <2>1. Str!Min(T) \in T /\ \A y \in T : Str!Min(T) <= y
    BY <1>1, MinIs
  <2> HIDE DEF T
  <2>2. Str!Min(T) <= q /\ q <= Str!Min(T) /\ Str!Min(T) \in Nat
    BY <1>1, <1>2, <2>1
  <2> QED BY <2>2
<1>4. Str!WithoutLeft(s, cs) = SubSeq(s, q + 1, Len(s))
  BY <1>3 DEF Str!WithoutLeft, Str!Drop
<1>5. q + (Len(s) - q) = Len(s)
  OBVIOUS
<1> QED BY <1>4, <1>5 DEF Part

\* What is left when characters are taken off on the right.
LEMMA RightOff ==
  ASSUME NEW s \in Seq(Chars), NEW cs, NEW r \in 0..Len(s), \A k \in r+1..Len(s) : s[k] \in cs,
         r = 0 \/ s[r] \notin cs
  PROVE  Str!WithoutRight(s, cs) = Part(s, 0, r)
<1> DEFINE T == {i \in 0..Len(s) : i = 0 \/ s[i] \notin cs}
<1>1. T \in SUBSET Nat /\ r \in T /\ Len(s) \in Nat /\ \A x \in T : x <= Len(s)
  OBVIOUS
<1>2. ASSUME NEW i \in T PROVE i <= r
  <2>1. CASE i > r
    <3>1. i \in r+1..Len(s) /\ i # 0
      BY <2>1
    <3> QED BY <3>1
  <2> QED BY <1>1, <2>1
<1>3. Str!Max(T) = r
  <2>1. Str!Max(T) \in T /\ \A y \in T : Str!Max(T) >= y
    BY <1>1, MaxIs
  <2> HIDE DEF T
  <2>2. Str!Max(T) >= r /\ r >= Str!Max(T) /\ Str!Max(T) \in Nat
    BY <1>1, <1>2, <2>1
  <2> QED BY <2>2
<1>4. Str!WithoutRight(s, cs) = SubSeq(s, 1, r)
  BY <1>3 DEF Str!WithoutRight
<1> QED BY <1>4 DEF Part

\* A view of which the left is left off, of which the right is, or both
LEMMA LeftTrimmedStep ==
  ASSUME StrInv, NEW cs, Str!LeftTrimmed(cs)
  PROVE  StrInv'
<1> DEFINE i == Str!findFirstNotOf(cs, 0)
<1>1. str \in Seq(Chars) /\ Len(str) = m_size /\ m_size \in Nat /\ m_start \in Nat
  BY StrFacts DEF StrInv
<1>2. IF \E k \in 1..m_size : str[k] \notin cs
      THEN i \in 0..m_size-1 /\ i # npos /\ str[i+1] \notin cs /\ \A k \in 1..i : str[k] \in cs
      ELSE i = npos
  BY FirstNotOf
<1>3. IF i # npos THEN Str!View(m_start + i, m_size - i, Str!WithoutLeft(str, cs))
                  ELSE Str!View(0, 0, Str!WithoutLeft(str, cs))
  BY DEF Str!LeftTrimmed, Str!Found
<1> HIDE DEF i
<1>4. CASE \E k \in 1..m_size : str[k] \notin cs
  <2>1. i \in 0..Len(str) /\ m_size - i \in Nat /\ i \in Nat /\ i + (m_size - i) <= m_size
    BY <1>1, <1>2, <1>4
  <2>2. Str!WithoutLeft(str, cs) = Part(str, i, m_size - i)
    BY <1>1, <1>2, <1>4, <2>1, LeftOff
  <2> QED BY <1>2, <1>3, <1>4, <2>1, <2>2, ViewStep
<1>5. CASE ~\E k \in 1..m_size : str[k] \notin cs
  <2>1. Str!WithoutLeft(str, cs) = Part(str, m_size, 0)
    <3>1. m_size \in 0..Len(str) /\ (\A k \in 1..m_size : str[k] \in cs) /\ Len(str) - m_size = 0
      BY <1>1, <1>5
    <3> QED BY <1>1, <3>1, LeftOff
  <2>2. Part(str, m_size, 0) = <<>>
    <3>1. m_size + 0 <= Len(str) /\ 0 \in Nat
      BY <1>1
    <3>2. Part(str, m_size, 0) \in Seq(Chars) /\ Len(Part(str, m_size, 0)) = 0
      BY <1>1, <3>1, PartIs
    <3> QED BY <3>2
  <2> QED BY <1>2, <1>3, <1>5, <2>1, <2>2, NothingStep
<1> QED BY <1>4, <1>5

\* A view trimmed on the right is that of the trimmed string.
LEMMA RightTrimmedStep ==
  ASSUME StrInv, NEW cs, Str!RightTrimmed(cs)
  PROVE  StrInv'
<1> DEFINE j == Str!findLastNotOf(cs, npos)
<1>1. str \in Seq(Chars) /\ Len(str) = m_size /\ m_size \in Nat /\ m_start \in Nat
  BY StrFacts DEF StrInv
<1>2. IF \E k \in 1..m_size : str[k] \notin cs
      THEN j \in 0..m_size-1 /\ j # npos /\ str[j+1] \notin cs /\ \A k \in j+2..m_size : str[k] \in cs
      ELSE j = npos
  BY LastNotOf
<1>3. IF j # npos THEN Str!View(m_start, j + 1, Str!WithoutRight(str, cs))
                  ELSE Str!View(0, 0, Str!WithoutRight(str, cs))
  BY DEF Str!RightTrimmed, Str!Found
<1> HIDE DEF j
<1>4. CASE \E k \in 1..m_size : str[k] \notin cs
  <2>1. j + 1 \in 0..Len(str) /\ 0 + (j + 1) <= m_size /\ j + 1 \in Nat /\ (j + 1) + 1 = j + 2 /\ m_start + 0 = m_start
    BY <1>1, <1>2, <1>4
  <2>2. Str!WithoutRight(str, cs) = Part(str, 0, j + 1)
    BY <1>1, <1>2, <1>4, <2>1, RightOff
  <2> QED BY <1>2, <1>3, <1>4, <2>1, <2>2, ViewStep
<1>5. CASE ~\E k \in 1..m_size : str[k] \notin cs
  <2>1. Str!WithoutRight(str, cs) = Part(str, 0, 0)
    <3>1. 0 \in 0..Len(str) /\ \A k \in 0+1..Len(str) : str[k] \in cs
      BY <1>1, <1>5
    <3> QED BY <1>1, <3>1, RightOff
  <2>2. Part(str, 0, 0) = <<>>
    BY DEF Part
  <2> QED BY <1>2, <1>3, <1>5, <2>1, <2>2, NothingStep
<1> QED BY <1>4, <1>5

\* A view trimmed on both sides is that of the trimmed string.
LEMMA TrimmedStep ==
  ASSUME StrInv, NEW cs, Str!Trimmed(cs)
  PROVE  StrInv'
<1> DEFINE i == Str!findFirstNotOf(cs, 0)
           j == Str!findLastNotOf(cs, npos)
           s == Str!WithoutRight(str, cs)
<1>1. str \in Seq(Chars) /\ Len(str) = m_size /\ m_size \in Nat /\ m_start \in Nat
  BY StrFacts DEF StrInv
<1>2. IF \E k \in 1..m_size : str[k] \notin cs
      THEN i \in 0..m_size-1 /\ i # npos /\ str[i+1] \notin cs /\ \A k \in 1..i : str[k] \in cs
      ELSE i = npos
  BY FirstNotOf
<1>3. IF \E k \in 1..m_size : str[k] \notin cs
      THEN j \in 0..m_size-1 /\ j # npos /\ str[j+1] \notin cs /\ \A k \in j+2..m_size : str[k] \in cs
      ELSE j = npos
  BY LastNotOf
<1>4. IF i # npos THEN Str!View(m_start + i, j + 1 - i, Str!WithoutLeft(s, cs))
                  ELSE Str!View(0, 0, Str!WithoutLeft(s, cs))
  BY DEF Str!Trimmed, Str!Found
<1> HIDE DEF i, j, s
<1>5. CASE \E k \in 1..m_size : str[k] \notin cs
  <2>1. /\ i \in 0..m_size-1 /\ i # npos /\ str[i+1] \notin cs /\ \A k \in 1..i : str[k] \in cs
        /\ j \in 0..m_size-1 /\ str[j+1] \notin cs /\ \A k \in j+2..m_size : str[k] \in cs
    BY <1>2, <1>3, <1>5
  <2>2. i <= j
    <3>1. CASE j < i
      <4>1. j + 1 \in 1..i
        BY <2>1, <3>1
      <4> QED BY <2>1, <4>1
    <3> QED BY <2>1, <3>1
  <2>3. j + 1 \in 0..Len(str) /\ 0 + (j + 1) <= Len(str) /\ (j + 1) + 1 = j + 2 /\ j + 1 \in Nat
    BY <1>1, <2>1
  <2>4. s = Part(str, 0, j + 1)
    BY <1>1, <2>1, <2>3, RightOff DEF s
  <2>5. s \in Seq(Chars) /\ Len(s) = j + 1 /\ \A k \in 1..j+1 : s[k] = str[k]
    <3>1. s \in Seq(Chars) /\ Len(s) = j + 1 /\ \A k \in 1..j+1 : s[k] = str[0 + k]
      <4>1. 0 \in Nat /\ j + 1 \in Nat /\ 0 + (j + 1) <= Len(str)
        BY <2>3
      <4> HIDE DEF s
      <4>2. s = Part(str, 0, j + 1) /\ str \in Seq(Chars)
        BY <1>1, <2>4
      <4> QED BY <4>1, <4>2, PartIs, SMTT(20)
    <3> QED BY <2>1, <3>1
  <2>6. i \in 0..Len(s) /\ i \in Nat /\ Len(s) - i = j + 1 - i /\ j + 1 - i \in Nat /\ i + (j + 1 - i) <= m_size
    BY <1>1, <2>1, <2>2, <2>5
  <2>7. (\A k \in 1..i : s[k] \in cs) /\ s[i+1] \notin cs
    <3>1. i + 1 \in 1..j+1 /\ \A k \in 1..i : k \in 1..j+1
      BY <2>1, <2>2
    <3> QED BY <2>1, <2>5, <3>1
  <2>8. Str!WithoutLeft(s, cs) = Part(s, i, j + 1 - i)
    BY <2>5, <2>6, <2>7, LeftOff
  <2>9. Part(s, i, j + 1 - i) = Part(str, i, j + 1 - i)
    <3>1. 0 \in Nat /\ 0 + i = i /\ i + (j + 1 - i) <= j + 1
      BY <2>1, <2>6
    <3>2. Part(Part(str, 0, j + 1), i, j + 1 - i) = Part(str, 0 + i, j + 1 - i)
      BY <1>1, <2>3, <2>6, <3>1, PartOfPart
    <3> QED BY <2>4, <3>1, <3>2
  <2> QED BY <1>4, <2>1, <2>6, <2>8, <2>9, ViewStep
<1>6. CASE ~\E k \in 1..m_size : str[k] \notin cs
  <2>1. s = Part(str, 0, 0)
    <3>1. 0 \in 0..Len(str) /\ \A k \in 0+1..Len(str) : str[k] \in cs
      BY <1>1, <1>6
    <3> QED BY <1>1, <3>1, RightOff DEF s
  <2>2. s = <<>>
    BY <2>1 DEF Part
  <2>3. Str!WithoutLeft(s, cs) = Part(s, 0, 0)
    <3>1. s \in Seq(Chars) /\ Len(s) = 0 /\ 0 \in 0..Len(s) /\ Len(s) - 0 = 0 /\ \A k \in 1..0 : s[k] \in cs
      BY <2>2
    <3> QED BY <3>1, LeftOff
  <2>4. Part(s, 0, 0) = <<>>
    BY DEF Part
  <2> QED BY <1>2, <1>4, <1>6, <2>3, <2>4, NothingStep
<1> QED BY <1>5, <1>6

\* The first view is of all of its text.
LEMMA StringInit == Str!Init => StrInv
<1> SUFFICES ASSUME Str!Init PROVE StrInv
  OBVIOUS
<1>1. text \in Texts /\ text \in Seq(Chars) /\ m_start = 0 /\ m_size = Len(text) /\ str = text
  BY TextAssumption DEF Str!Init
<1>2. Part(text, 0, Len(text)) = text
  BY <1>1, Whole
<1> QED BY <1>1, <1>2 DEF StrInv

\* Every operation keeps the view that of the string.
LEMMA StringStep == StrInv /\ Str!Next => StrInv'
<1> SUFFICES ASSUME StrInv, Str!Next PROVE StrInv'
  OBVIOUS
<1>1. str \in Seq(Chars) /\ Len(str) = m_size /\ m_size \in Nat /\ m_start \in Nat /\ npos \in Nat /\ Str!Sizes \subseteq Nat
  BY StrFacts DEF StrInv, Str!Sizes
<1>2. ASSUME NEW n \in Nat, Str!Left(n) PROVE StrInv'
  <2>1. 0 + n <= m_size /\ m_start + 0 = m_start /\ 0 + 1 = 1 /\ 0 + n = n /\ 0 \in Nat
    BY <1>1, <1>2 DEF Str!Left
  <2>2. Str!View(m_start + 0, n, Part(str, 0, n))
    BY <1>2, <2>1 DEF Str!Left, Part
  <2> QED BY <2>1, <2>2, ViewStep
<1>3. ASSUME NEW n \in Nat, Str!Right(n) PROVE StrInv'
  <2>1. m_size - n \in Nat /\ (m_size - n) + n <= m_size /\ (m_size - n) + n = m_size
    BY <1>1, <1>3 DEF Str!Right
  <2>2. Str!View(m_start + (m_size - n), n, Part(str, m_size - n, n))
    BY <1>1, <1>3, <2>1 DEF Str!Right, Str!Drop, Part
  <2> QED BY <2>1, <2>2, ViewStep
<1>4. ASSUME NEW n \in Nat, Str!LeftClipped(n) PROVE StrInv'
  <2>1. m_size - n \in Nat /\ n + (m_size - n) <= m_size /\ n + (m_size - n) = m_size
    BY <1>1, <1>4 DEF Str!LeftClipped
  <2>2. Str!View(m_start + n, m_size - n, Part(str, n, m_size - n))
    BY <1>1, <1>4, <2>1 DEF Str!LeftClipped, Str!Drop, Part
  <2> QED BY <2>1, <2>2, ViewStep
<1>5. ASSUME NEW n \in Nat, Str!RightClipped(n) PROVE StrInv'
  <2>1. m_size - n \in Nat /\ 0 + (m_size - n) <= m_size /\ m_start + 0 = m_start /\ 0 + 1 = 1
        /\ 0 + (m_size - n) = m_size - n /\ 0 \in Nat
    BY <1>1, <1>5 DEF Str!RightClipped
  <2>2. Str!View(m_start + 0, m_size - n, Part(str, 0, m_size - n))
    BY <1>1, <1>5, <2>1 DEF Str!RightClipped, Part
  <2> QED BY <2>1, <2>2, ViewStep
<1>6. ASSUME NEW n \in Nat, NEW m \in Nat, Str!Substr(n, m) PROVE StrInv'
  <2> DEFINE k == Str!Shorter(m, m_size - n)
  <2>1. k \in Nat /\ n + k <= m_size
    BY <1>1, <1>6 DEF Str!Substr, Str!Shorter
  <2>2. Str!View(m_start + n, k, Part(str, n, k))
    BY <1>1, <1>6 DEF Str!Substr, Part
  <2> HIDE DEF k
  <2> QED BY <2>1, <2>2, ViewStep
<1>7. ASSUME NEW n \in Nat, NEW m \in Nat, Str!Clipped(n, m) PROVE StrInv'
  <2>1. m_size - n - m \in Nat /\ n + (m_size - n - m) <= m_size /\ n + (m_size - n - m) = m_size - m
    BY <1>1, <1>7 DEF Str!Clipped
  <2>2. Str!View(m_start + n, m_size - n - m, Part(str, n, m_size - n - m))
    BY <1>1, <1>7, <2>1 DEF Str!Clipped, Part
  <2> QED BY <2>1, <2>2, ViewStep
<1> QED BY <1>1, <1>2, <1>3, <1>4, <1>5, <1>6, <1>7, LeftTrimmedStep, RightTrimmedStep, TrimmedStep DEF Str!Next

-----------------------------------------------------------------------------
(* What is found at places in the text is in the string. *)

\* A view shows its string.
LEMMA ViewsAgreed == StrInv => Str!ViewsAgree
  BY StrFacts DEF Str!ViewsAgree

\* To occur at a place is to fit and to match there.
LEMMA OccursIs ==
  ASSUME StrInv, NEW s \in Seq(Chars), NEW i \in Nat
  PROVE  Str!Occurs(s, i) <=> i + Len(s) <= m_size /\ Str!Matches(i, s)
<1>1. str \in Seq(Chars) /\ Len(str) = m_size /\ m_size \in Nat /\ Len(s) \in Nat /\ DOMAIN s = 1..Len(s)
  BY StrFacts
<1>2. CASE i + Len(s) <= m_size
  <2> DEFINE p == Part(str, i, Len(s))
  <2>1. p \in Seq(Chars) /\ Len(p) = Len(s) /\ \A k \in 1..Len(s) : p[k] = str[i + k]
    BY <1>1, <1>2, PartIs
  <2>2. Str!Occurs(s, i) <=> p = s
    BY <1>1, <1>2 DEF Str!Occurs, Part
  <2>3. ASSUME NEW k \in 1..Len(s) PROVE Str!At(i + k - 1) = str[i + k]
    <3>1. i + k - 1 \in 0..m_size-1 /\ (i + k - 1) + 1 = i + k
      BY <1>1, <1>2
    <3>2. Str!At(i + k - 1) = str[(i + k - 1) + 1]
      BY <3>1, StrFacts
    <3> QED BY <3>1, <3>2
  <2>4. Str!Matches(i, s) <=> \A k \in 1..Len(s) : str[i + k] = s[k]
    BY <1>1, <2>3 DEF Str!Matches
  <2> HIDE DEF p
  <2>5. p = s <=> \A k \in 1..Len(s) : p[k] = s[k]
    BY <2>1, Same
  <2>6. p = s <=> \A k \in 1..Len(s) : str[i + k] = s[k]
    BY <2>1, <2>5
  <2> QED BY <1>2, <2>2, <2>4, <2>6
<1>3. CASE ~(i + Len(s) <= m_size)
  BY <1>1, <1>3 DEF Str!Occurs
<1> QED BY <1>2, <1>3

\* The first of the places in Q from pos on, and the last up to it
FirstAt(r, pos, Q) == IF r # npos THEN r \in Q /\ r >= pos /\ \A i \in pos .. r-1 : i \notin Q
                                  ELSE \A i \in Nat : i >= pos => i \notin Q
LastAt(r, pos, Q) == IF r # npos THEN r \in Q /\ r <= pos /\ \A i \in Nat : i > r /\ i <= pos => i \notin Q
                                 ELSE \A i \in Nat : i <= pos => i \notin Q

\* The earliest of the places from pos on is the first of them.
LEMMA EarliestFrom ==
  ASSUME NEW Q \in SUBSET Nat, NEW pos \in Nat, NEW T \in SUBSET Nat, \A i \in T : i < npos,
         \A i \in Nat : i \in T <=> i \in Q /\ i >= pos
  PROVE  FirstAt(Str!Earliest(T), pos, Q)
<1> DEFINE r == Str!Earliest(T)
<1>1. IF T = {} THEN r = npos ELSE r \in T /\ r # npos /\ \A y \in T : r <= y
  BY EarliestIs
<1> HIDE DEF r
<1>2. ASSUME T = {} PROVE FirstAt(r, pos, Q)
  BY <1>1, <1>2 DEF FirstAt
<1>3. ASSUME T # {} PROVE FirstAt(r, pos, Q)
  <2>1. r \in T /\ r # npos /\ r \in Nat /\ \A y \in T : r <= y
    BY <1>1, <1>3
  <2>2. ASSUME NEW i \in pos .. r-1 PROVE i \notin Q
    <3>1. i \in Nat /\ i >= pos /\ i \notin T
      BY <2>1
    <3> QED BY <3>1
  <2> QED BY <2>1, <2>2 DEF FirstAt
<1> QED BY <1>2, <1>3 DEF r

\* The latest of the places up to pos is the last of them.
LEMMA LatestTo ==
  ASSUME NEW Q \in SUBSET Nat, NEW pos \in Nat, NEW T \in SUBSET Nat, \A i \in T : i < npos,
         \A i \in Nat : i \in T <=> i \in Q /\ i <= pos
  PROVE  LastAt(Str!Latest(T), pos, Q)
<1> DEFINE r == Str!Latest(T)
<1>1. IF T = {} THEN r = npos ELSE r \in T /\ r # npos /\ \A y \in T : r >= y
  BY LatestIs
<1> HIDE DEF r
<1>2. ASSUME T = {} PROVE LastAt(r, pos, Q)
  BY <1>1, <1>2 DEF LastAt
<1>3. ASSUME T # {} PROVE LastAt(r, pos, Q)
  <2>1. r \in T /\ r # npos /\ r \in Nat /\ \A y \in T : r >= y
    BY <1>1, <1>3
  <2>2. ASSUME NEW i \in Nat, i > r, i <= pos PROVE i \notin Q
    <3>1. i \notin T
      BY <2>1, <2>2
    <3> QED BY <2>2, <3>1
  <2> QED BY <2>1, <2>2 DEF LastAt
<1> QED BY <1>2, <1>3 DEF r

\* find() and rfind() of a string
LEMMA FindAgrees ==
  ASSUME StrInv, NEW s \in Seq(Chars), NEW pos \in Nat
  PROVE  Str!IsFirst(Str!find(s, pos), pos, LAMBDA i : Str!Occurs(s, i))
<1> DEFINE Q == {i \in Nat : i + Len(s) <= m_size /\ Str!Matches(i, s)}
           r == Str!find(s, pos)
<1>1. m_size \in Nat /\ m_size < npos /\ npos \in Nat /\ Len(s) \in Nat /\ Str!Sizes \subseteq Nat
  BY StrFacts DEF Str!Sizes
<1>2. \A i \in Nat : Str!Occurs(s, i) <=> i \in Q
  BY OccursIs
<1>3. FirstAt(r, pos, Q)
  <2>1. CASE s = <<>>
    <3>1. Q = 0..m_size
      <4>1. \A i : Str!Matches(i, s)
        BY <2>1 DEF Str!Matches
      <4> QED BY <1>1, <2>1, <4>1
    <3>2. r = IF pos <= m_size THEN pos ELSE npos
      BY <2>1 DEF Str!find
    <3> HIDE DEF r, Q
    <3> QED BY <1>1, <3>1, <3>2 DEF FirstAt
  <2>2. CASE s # <<>> /\ Len(s) <= m_size
    <3> DEFINE T == {i \in pos .. m_size - Len(s) : Str!Matches(i, s)}
    <3>1. r = Str!Earliest(T)
      BY <2>2 DEF Str!find
    <3>2. T \in SUBSET Nat /\ Q \in SUBSET Nat /\ \A i \in T : i < npos
      BY <1>1, <2>2
    <3>3. \A i \in Nat : i \in T <=> i \in Q /\ i >= pos
      BY <1>1, <2>2
    <3> HIDE DEF T, Q, r
    <3> QED BY <3>1, <3>2, <3>3, EarliestFrom
  <2>3. CASE s # <<>> /\ ~(Len(s) <= m_size)
    <3>1. r = npos
      BY <2>3 DEF Str!find
    <3>2. \A i \in Nat : i \notin Q
      BY <1>1, <2>3
    <3> HIDE DEF r, Q
    <3> QED BY <3>1, <3>2 DEF FirstAt
  <2> QED BY <2>1, <2>2, <2>3
<1> HIDE DEF r, Q
<1>4. IF r # npos THEN r >= pos /\ Str!Occurs(s, r) /\ \A i \in pos .. r-1 : ~Str!Occurs(s, i)
                  ELSE \A i \in Str!Sizes : i >= pos => ~Str!Occurs(s, i)
  <2>1. CASE r = npos
    BY <1>1, <1>2, <1>3, <2>1 DEF FirstAt
  <2>2. CASE r # npos
    <3>1. r \in Nat /\ r \in Q /\ r >= pos /\ \A i \in pos .. r-1 : i \notin Q /\ i \in Nat
      BY <1>3, <2>2 DEF FirstAt, Q
    <3> QED BY <1>2, <2>2, <3>1
  <2> QED BY <2>1, <2>2
<1> QED BY <1>4 DEF Str!IsFirst, Str!Found, r

\* rfind finds the last occurrence, that of nothing included.
LEMMA RfindAgrees ==
  ASSUME StrInv, NEW s \in Seq(Chars), NEW pos \in Nat
  PROVE  Str!IsLast(Str!rfind(s, pos), pos, LAMBDA i : Str!Occurs(s, i))
<1> DEFINE Q == {i \in Nat : i + Len(s) <= m_size /\ Str!Matches(i, s)}
           r == Str!rfind(s, pos)
<1>1. m_size \in Nat /\ m_size < npos /\ npos \in Nat /\ Len(s) \in Nat /\ Str!Sizes \subseteq Nat
  BY StrFacts DEF Str!Sizes
<1>2. \A i \in Nat : Str!Occurs(s, i) <=> i \in Q
  BY OccursIs
<1>3. LastAt(r, pos, Q)
  <2>1. CASE Len(s) <= m_size
    <3> DEFINE T == {i \in 0 .. Str!Shorter(pos, m_size - Len(s)) : Str!Matches(i, s)}
    <3>1. r = Str!Latest(T)
      BY <2>1 DEF Str!rfind
    <3>2. T \in SUBSET Nat /\ Q \in SUBSET Nat /\ \A i \in T : i < npos
      BY <1>1, <2>1 DEF Str!Shorter
    <3>3. \A i \in Nat : i \in T <=> i \in Q /\ i <= pos
      BY <1>1, <2>1 DEF Str!Shorter
    <3> HIDE DEF T, Q, r
    <3> QED BY <3>1, <3>2, <3>3, LatestTo
  <2>2. CASE ~(Len(s) <= m_size)
    <3>1. r = npos
      BY <2>2 DEF Str!rfind
    <3>2. \A i \in Nat : i \notin Q
      BY <1>1, <2>2
    <3> HIDE DEF r, Q
    <3> QED BY <3>1, <3>2 DEF LastAt
  <2> QED BY <2>1, <2>2
<1> HIDE DEF r, Q
<1>4. IF r # npos THEN r <= pos /\ Str!Occurs(s, r) /\ \A i \in Str!Sizes : i > r /\ i <= pos => ~Str!Occurs(s, i)
                  ELSE \A i \in Str!Sizes : i <= pos => ~Str!Occurs(s, i)
  <2>1. CASE r = npos
    BY <1>1, <1>2, <1>3, <2>1 DEF LastAt
  <2>2. CASE r # npos
    <3>1. r \in Nat /\ r \in Q /\ r <= pos /\ \A i \in Str!Sizes : i \in Nat /\ (i > r /\ i <= pos => i \notin Q)
      BY <1>1, <1>3, <2>2 DEF LastAt, Q
    <3> QED BY <1>2, <2>2, <3>1
  <2> QED BY <2>1, <2>2
<1> QED BY <1>4 DEF Str!IsLast, Str!Found, r

\* The searches for one of a set of places: D, those of the characters of the view
\* which are (or are not) among the ones searched for
LEMMA FirstInView ==
  ASSUME StrInv, NEW D \in SUBSET (0..m_size-1), NEW pos \in Nat,
         NEW r, r = Str!Earliest({i \in pos .. m_size - 1 : i \in D})
  PROVE  FirstAt(r, pos, D) /\ (r # npos => r \in Nat)
<1> DEFINE T == {i \in pos .. m_size - 1 : i \in D}
<1>1. m_size \in Nat /\ m_size < npos /\ npos \in Nat
  BY StrFacts
<1>2. T \in SUBSET Nat /\ D \in SUBSET Nat /\ \A i \in T : i < npos
  BY <1>1
<1>3. \A i \in Nat : i \in T <=> i \in D /\ i >= pos
  BY <1>1
<1> HIDE DEF T
<1>4. FirstAt(Str!Earliest(T), pos, D)
  BY <1>2, <1>3, EarliestFrom
<1>5. r = Str!Earliest(T)
  BY DEF T
<1> QED BY <1>2, <1>4, <1>5 DEF FirstAt

\* The searches from the end find the last place in the view.
LEMMA LastInView ==
  ASSUME StrInv, NEW D \in SUBSET (0..m_size-1), NEW pos \in Nat,
         NEW r, r = IF m_size = 0 THEN npos ELSE Str!Latest({i \in 0 .. Str!Shorter(m_size - 1, pos) : i \in D})
  PROVE  LastAt(r, pos, D) /\ (r # npos => r \in Nat)
<1> DEFINE T == {i \in 0 .. Str!Shorter(m_size - 1, pos) : i \in D}
<1>1. m_size \in Nat /\ m_size < npos /\ npos \in Nat
  BY StrFacts
<1>2. CASE m_size = 0
  <2>1. D = {} /\ r = npos
    BY <1>2
  <2> QED BY <2>1 DEF LastAt
<1>3. CASE m_size # 0
  <2>1. T \in SUBSET Nat /\ D \in SUBSET Nat /\ \A i \in T : i < npos
    BY <1>1, <1>3 DEF Str!Shorter
  <2>2. \A i \in Nat : i \in T <=> i \in D /\ i <= pos
    BY <1>1, <1>3 DEF Str!Shorter
  <2>3. r = Str!Latest(T)
    BY <1>3
  <2> HIDE DEF T
  <2>4. LastAt(Str!Latest(T), pos, D)
    BY <2>1, <2>2, LatestTo
  <2> QED BY <2>1, <2>3, <2>4 DEF LastAt
<1> QED BY <1>2, <1>3

\* The four searches for characters, in the string
Among(cs) == {i \in 0..m_size-1 : str[i+1] \in cs}
Others(cs) == {i \in 0..m_size-1 : str[i+1] \notin cs}

\* The searches for characters find the first and the last places.
LEMMA FindOfAgrees ==
  ASSUME StrInv, NEW cs, NEW pos \in Nat
  PROVE  LET a == Str!findFirstOf(cs, pos)
             b == Str!findFirstNotOf(cs, pos)
             c == Str!findLastOf(cs, pos)
             d == Str!findLastNotOf(cs, pos)
         IN /\ FirstAt(a, pos, Among(cs)) /\ (a # npos => a \in Nat)
            /\ FirstAt(b, pos, Others(cs)) /\ (b # npos => b \in Nat)
            /\ LastAt(c, pos, Among(cs)) /\ (c # npos => c \in Nat)
            /\ LastAt(d, pos, Others(cs)) /\ (d # npos => d \in Nat)
<1> DEFINE D == Among(cs)
           E == Others(cs)
           a == Str!findFirstOf(cs, pos)
           b == Str!findFirstNotOf(cs, pos)
           c == Str!findLastOf(cs, pos)
           d == Str!findLastNotOf(cs, pos)
<1>1. /\ m_size \in Nat
      /\ \A i \in 0..m_size-1 : Str!At(i) = str[i+1]
  BY StrFacts
<1>2. D \in SUBSET (0..m_size-1) /\ E \in SUBSET (0..m_size-1)
  BY DEF Among, Others
<1>3. \A i \in 0..m_size-1 : (i \in D <=> Str!At(i) \in cs) /\ (i \in E <=> Str!At(i) \notin cs)
  BY <1>1 DEF Among, Others
<1>5. /\ {i \in pos .. m_size - 1 : Str!At(i) \in cs} = {i \in pos .. m_size - 1 : i \in D}
      /\ {i \in pos .. m_size - 1 : Str!At(i) \notin cs} = {i \in pos .. m_size - 1 : i \in E}
  BY <1>1, <1>3
<1>6. m_size # 0 =>
      /\ {i \in 0 .. Str!Shorter(m_size - 1, pos) : Str!At(i) \in cs} = {i \in 0 .. Str!Shorter(m_size - 1, pos) : i \in D}
      /\ {i \in 0 .. Str!Shorter(m_size - 1, pos) : Str!At(i) \notin cs} = {i \in 0 .. Str!Shorter(m_size - 1, pos) : i \in E}
  BY <1>1, <1>3 DEF Str!Shorter
<1> HIDE DEF D, E
<1>7. FirstAt(a, pos, D) /\ (a # npos => a \in Nat)
  BY <1>2, <1>5, FirstInView DEF Str!findFirstOf
<1>8. FirstAt(b, pos, E) /\ (b # npos => b \in Nat)
  BY <1>2, <1>5, FirstInView DEF Str!findFirstNotOf
<1>9. LastAt(c, pos, D) /\ (c # npos => c \in Nat)
  BY <1>2, <1>6, LastInView DEF Str!findLastOf
<1>10. LastAt(d, pos, E) /\ (d # npos => d \in Nat)
  BY <1>2, <1>6, LastInView DEF Str!findLastNotOf
<1> QED BY <1>7, <1>8, <1>9, <1>10 DEF D, E

\* The search for a character from the end is one for characters.
LEMMA RfindCharIs ==
  ASSUME NEW c, NEW pos
  PROVE  Str!rfindChar(c, pos) = Str!findLastOf({c}, pos)
<1>1. {i \in 0 .. Str!Shorter(m_size - 1, pos) : Str!At(i) = c} = {i \in 0 .. Str!Shorter(m_size - 1, pos) : Str!At(i) \in {c}}
  OBVIOUS
<1> QED BY <1>1 DEF Str!rfindChar, Str!findLastOf

\* Every search answers what the string would.
LEMMA SearchesAgreed == StrInv => Str!SearchesAgree
<1> SUFFICES ASSUME StrInv, NEW pos \in Str!Sizes \cup {npos}
             PROVE  /\ \A s \in Needles : /\ Str!IsFirst(Str!find(s, pos), pos, LAMBDA i : Str!Occurs(s, i))
                                         /\ Str!IsLast(Str!rfind(s, pos), pos, LAMBDA i : Str!Occurs(s, i))
                    /\ \A cs \in SUBSET Chars :
                         /\ \A c \in cs : Str!rfindChar(c, pos) = Str!findLastOf({c}, pos)
                         /\ Str!IsFirst(Str!findFirstOf(cs, pos), pos, LAMBDA i : i < Len(str) /\ str[i+1] \in cs)
                         /\ Str!IsFirst(Str!findFirstNotOf(cs, pos), pos, LAMBDA i : i < Len(str) /\ str[i+1] \notin cs)
                         /\ Str!IsLast(Str!findLastOf(cs, pos), pos, LAMBDA i : i < Len(str) /\ str[i+1] \in cs)
                         /\ Str!IsLast(Str!findLastNotOf(cs, pos), pos, LAMBDA i : i < Len(str) /\ str[i+1] \notin cs)
  BY DEF Str!SearchesAgree
<1>1. pos \in Nat /\ Needles \subseteq Seq(Chars)
  BY TextAssumption DEF Str!Sizes
<1>2. ASSUME NEW s \in Needles
      PROVE  /\ Str!IsFirst(Str!find(s, pos), pos, LAMBDA i : Str!Occurs(s, i))
             /\ Str!IsLast(Str!rfind(s, pos), pos, LAMBDA i : Str!Occurs(s, i))
  BY <1>1, FindAgrees, RfindAgrees
<1>3. ASSUME NEW cs \in SUBSET Chars
      PROVE  /\ \A c \in cs : Str!rfindChar(c, pos) = Str!findLastOf({c}, pos)
             /\ Str!IsFirst(Str!findFirstOf(cs, pos), pos, LAMBDA i : i < Len(str) /\ str[i+1] \in cs)
             /\ Str!IsFirst(Str!findFirstNotOf(cs, pos), pos, LAMBDA i : i < Len(str) /\ str[i+1] \notin cs)
             /\ Str!IsLast(Str!findLastOf(cs, pos), pos, LAMBDA i : i < Len(str) /\ str[i+1] \in cs)
             /\ Str!IsLast(Str!findLastNotOf(cs, pos), pos, LAMBDA i : i < Len(str) /\ str[i+1] \notin cs)
  <2> DEFINE a == Str!findFirstOf(cs, pos)
             b == Str!findFirstNotOf(cs, pos)
             c == Str!findLastOf(cs, pos)
             d == Str!findLastNotOf(cs, pos)
  <2>1. \A x \in cs : Str!rfindChar(x, pos) = Str!findLastOf({x}, pos)
    BY RfindCharIs
  <2>2. /\ FirstAt(a, pos, Among(cs)) /\ (a # npos => a \in Nat)
        /\ FirstAt(b, pos, Others(cs)) /\ (b # npos => b \in Nat)
        /\ LastAt(c, pos, Among(cs)) /\ (c # npos => c \in Nat)
        /\ LastAt(d, pos, Others(cs)) /\ (d # npos => d \in Nat)
    BY <1>1, FindOfAgrees
  <2>3. /\ m_size \in Nat /\ Len(str) = m_size /\ Str!Sizes \subseteq Nat
        /\ \A i \in Nat : (i < Len(str) /\ str[i+1] \in cs) <=> i \in Among(cs)
        /\ \A i \in Nat : (i < Len(str) /\ str[i+1] \notin cs) <=> i \in Others(cs)
    <3>1. m_size \in Nat /\ Len(str) = m_size
      BY StrFacts
    <3> QED BY <3>1 DEF Str!Sizes, Among, Others
  <2> HIDE DEF a, b, c, d
  <2>4. Str!IsFirst(a, pos, LAMBDA i : i < Len(str) /\ str[i+1] \in cs)
    <3>1. IF a # npos THEN a >= pos /\ (a < Len(str) /\ str[a+1] \in cs) /\ \A i \in pos .. a-1 : ~(i < Len(str) /\ str[i+1] \in cs)
                      ELSE \A i \in Str!Sizes : i >= pos => ~(i < Len(str) /\ str[i+1] \in cs)
      BY <1>1, <2>2, <2>3 DEF FirstAt
    <3> QED BY <3>1 DEF Str!IsFirst, Str!Found
  <2>5. Str!IsFirst(b, pos, LAMBDA i : i < Len(str) /\ str[i+1] \notin cs)
    <3>1. IF b # npos THEN b >= pos /\ (b < Len(str) /\ str[b+1] \notin cs) /\ \A i \in pos .. b-1 : ~(i < Len(str) /\ str[i+1] \notin cs)
                      ELSE \A i \in Str!Sizes : i >= pos => ~(i < Len(str) /\ str[i+1] \notin cs)
      BY <1>1, <2>2, <2>3 DEF FirstAt
    <3> QED BY <3>1 DEF Str!IsFirst, Str!Found
  <2>6. Str!IsLast(c, pos, LAMBDA i : i < Len(str) /\ str[i+1] \in cs)
    <3>1. IF c # npos THEN c <= pos /\ (c < Len(str) /\ str[c+1] \in cs)
                             /\ \A i \in Str!Sizes : i > c /\ i <= pos => ~(i < Len(str) /\ str[i+1] \in cs)
                      ELSE \A i \in Str!Sizes : i <= pos => ~(i < Len(str) /\ str[i+1] \in cs)
      BY <1>1, <2>2, <2>3 DEF LastAt
    <3> QED BY <3>1 DEF Str!IsLast, Str!Found
  <2>7. Str!IsLast(d, pos, LAMBDA i : i < Len(str) /\ str[i+1] \notin cs)
    <3>1. IF d # npos THEN d <= pos /\ (d < Len(str) /\ str[d+1] \notin cs)
                             /\ \A i \in Str!Sizes : i > d /\ i <= pos => ~(i < Len(str) /\ str[i+1] \notin cs)
                      ELSE \A i \in Str!Sizes : i <= pos => ~(i < Len(str) /\ str[i+1] \notin cs)
      BY <1>1, <2>2, <2>3 DEF LastAt
    <3> QED BY <3>1 DEF Str!IsLast, Str!Found
  <2> QED BY <2>1, <2>4, <2>5, <2>6, <2>7 DEF a, b, c, d
<1> QED BY <1>2, <1>3
\* Prefixes are equal when their elements are.
LEMMA PrefixIs ==
  ASSUME NEW S, NEW s \in Seq(S), NEW t \in Seq(S), NEW n \in Nat, n <= Len(s), n <= Len(t)
  PROVE  SubSeq(s, 1, n) = SubSeq(t, 1, n) <=> \A k \in 1..n : s[k] = t[k]
<1> DEFINE u == SubSeq(s, 1, n)
           v == SubSeq(t, 1, n)
<1>1. u \in Seq(S) /\ Len(u) = n /\ \A k \in 1..n : u[k] = s[k]
  BY SMT
<1>2. v \in Seq(S) /\ Len(v) = n /\ \A k \in 1..n : v[k] = t[k]
  BY SMT
<1> HIDE DEF u, v
<1>3. u = v <=> \A k \in 1..n : u[k] = v[k]
  BY <1>1, <1>2, Same
<1> QED BY <1>1, <1>2, <1>3 DEF u, v

\* compare() finds out which of the strings is less.
LEMMA CompareIs ==
  ASSUME StrInv, NEW s \in Seq(Chars)
  PROVE  Str!compare(s) = IF Str!Less(str, s) THEN -1 ELSE IF str = s THEN 0 ELSE 1
<1> DEFINE common == Str!Shorter(m_size, Len(s))
           differ == {k \in 1..common : text[m_start + k] # s[k]}
           d == Str!Min(differ)
<1>1. /\ text \in Seq(Chars) /\ str \in Seq(Chars) /\ Len(str) = m_size /\ m_size \in Nat /\ Len(s) \in Nat
      /\ \A k \in 1..m_size : text[m_start + k] = str[k]
  <2>1. text \in Seq(Chars) /\ str \in Seq(Chars) /\ Len(str) = m_size /\ m_size \in Nat /\ m_start \in Nat
    BY StrFacts DEF StrInv
  <2>2. \A k \in 1..m_size : str[k] = text[m_start + k]
    BY <2>1, PartIs DEF StrInv
  <2> QED BY <2>1, <2>2
<1>2. Chars \subseteq Nat /\ (\A k \in 1..m_size : str[k] \in Nat) /\ (\A k \in 1..Len(s) : s[k] \in Nat)
  <2>1. \A k \in 1..m_size : str[k] \in Chars
    BY <1>1, ElementOfSeq
  <2>2. \A k \in 1..Len(s) : s[k] \in Chars
    BY ElementOfSeq
  <2> QED BY <2>1, <2>2, TextAssumption
<1>3. common \in Nat /\ common <= m_size /\ common <= Len(s) /\ (common = m_size \/ common = Len(s))
  BY <1>1 DEF Str!Shorter
<1>4. Str!Less(str, s) <=> \E n \in 0..Len(s) - 1 : /\ n <= m_size /\ \A k \in 1..n : str[k] = s[k]
                                                    /\ m_size = n \/ str[n+1] < s[n+1]
  <2>1. ASSUME NEW n \in 0..Len(s) - 1, n <= m_size
        PROVE  SubSeq(str, 1, n) = SubSeq(s, 1, n) <=> \A k \in 1..n : str[k] = s[k]
    <3>1. n \in Nat /\ n <= Len(str) /\ n <= Len(s)
      BY <1>1, <2>1
    <3> QED BY <1>1, <3>1, PrefixIs
  <2> QED BY <1>1, <2>1 DEF Str!Less
<1>5. Str!compare(s) = IF differ # {} THEN IF text[m_start + d] < s[d] THEN -1 ELSE 1
                       ELSE IF m_size = Len(s) THEN 0 ELSE IF m_size < Len(s) THEN -1 ELSE 1
  BY DEF Str!compare, Str!Compare
<1>6. differ \in SUBSET Nat /\ \A k \in 1..common : k \in differ <=> str[k] # s[k]
  BY <1>1, <1>3
<1>7. differ \subseteq 1..common
  OBVIOUS
<1> HIDE DEF common
<1>8. CASE differ # {}
  <2>1. d \in differ /\ \A k \in differ : d <= k
    BY <1>6, <1>8, MinIs
  <2> HIDE DEF differ, d
  <2>2. d \in 1..common /\ str[d] # s[d] /\ d \in 1..m_size /\ d \in 1..Len(s) /\ text[m_start + d] = str[d]
    BY <1>1, <1>3, <1>6, <1>7, <2>1
  <2>3. \A k \in 1..d-1 : str[k] = s[k]
    <3>1. ASSUME NEW k \in 1..d-1 PROVE str[k] = s[k]
      <4>1. k \in 1..common /\ ~(d <= k)
        BY <1>3, <2>2
      <4> QED BY <1>6, <2>1, <4>1
    <3> QED BY <3>1
  <2>4. CASE str[d] < s[d]
    <3>1. d-1 \in 0..Len(s) - 1 /\ d-1 <= m_size /\ (d-1)+1 = d
      BY <1>1, <2>2
    <3>2. Str!Less(str, s)
      BY <1>4, <2>3, <2>4, <3>1
    <3> QED BY <1>5, <1>8, <2>2, <2>4, <3>2
  <2>5. CASE ~(str[d] < s[d])
    <3>1. ASSUME NEW n \in 0..Len(s) - 1, n <= m_size, \A k \in 1..n : str[k] = s[k],
                 m_size = n \/ str[n+1] < s[n+1]
          PROVE  FALSE
      <4>1. n < d
        <5>1. CASE n >= d
          <6>1. d \in 1..n
            BY <2>2, <5>1
          <6> QED BY <2>2, <3>1, <6>1
        <5> QED BY <2>2, <5>1
      <4>2. m_size # n /\ n+1 \in 1..m_size /\ n+1 \in 1..Len(s) /\ str[n+1] < s[n+1]
        BY <1>1, <2>2, <3>1, <4>1
      <4>3. n+1 # d
        BY <2>5, <4>2
      <4>4. n+1 \in 1..d-1
        BY <2>2, <4>1, <4>3
      <4>5. str[n+1] = s[n+1] /\ s[n+1] \in Nat
        BY <1>2, <2>3, <4>2, <4>4
      <4> QED BY <4>2, <4>5
    <3>2. ~Str!Less(str, s)
      BY <1>4, <3>1
    <3> QED BY <1>5, <1>8, <2>2, <2>5, <3>2
  <2> QED BY <2>4, <2>5
<1>9. CASE differ = {}
  <2>1. \A k \in 1..common : str[k] = s[k]
    BY <1>6, <1>9
  <2> HIDE DEF differ, d
  <2>2. CASE m_size < Len(s)
    <3>1. m_size \in 0..Len(s) - 1 /\ common = m_size
      BY <1>1, <1>3, <2>2
    <3>2. Str!Less(str, s)
      BY <1>4, <2>1, <3>1
    <3> QED BY <1>1, <1>5, <1>9, <2>2, <3>2
  <2>3. CASE ~(m_size < Len(s))
    <3>1. common = Len(s)
      BY <1>1, <1>3, <2>3
    <3>2. ASSUME NEW n \in 0..Len(s) - 1, m_size = n \/ str[n+1] < s[n+1]
          PROVE  FALSE
      <4>1. n+1 \in 1..common /\ n+1 \in 1..Len(s) /\ m_size # n
        BY <1>1, <2>3, <3>1
      <4>2. str[n+1] = s[n+1] /\ s[n+1] \in Nat
        BY <1>2, <2>1, <4>1
      <4> QED BY <3>2, <4>1, <4>2
    <3>3. ~Str!Less(str, s)
      BY <1>4, <3>2
    <3>4. str = s <=> m_size = Len(s)
      BY <1>1, <2>1, <3>1, Same
    <3> QED BY <1>5, <1>9, <2>3, <3>3, <3>4
  <2> QED BY <2>2, <2>3
<1> QED BY <1>8, <1>9

\* A part that is as long as a string compares equal to it if it is the string.
LEMMA ComparePartIs ==
  ASSUME StrInv, NEW s \in Seq(Chars), NEW i \in Nat, i + Len(s) <= m_size
  PROVE  Str!comparePart(i, Len(s), s) = 0 <=> Str!Occurs(s, i)
<1> DEFINE differ == {k \in 1..Len(s) : text[(m_start + i) + k] # s[k]}
<1>1. m_size \in Nat /\ Len(s) \in Nat /\ m_start \in Nat /\ DOMAIN s = 1..Len(s)
  BY StrFacts DEF StrInv
<1>2. Str!Shorter(Len(s), m_size - i) = Len(s) /\ Str!Shorter(Len(s), Len(s)) = Len(s)
  BY <1>1 DEF Str!Shorter
<1>3. Str!comparePart(i, Len(s), s)
       = IF differ # {} THEN IF text[(m_start + i) + Str!Min(differ)] < s[Str!Min(differ)] THEN -1 ELSE 1 ELSE 0
  BY <1>2 DEF Str!comparePart, Str!Compare
<1>4. Str!comparePart(i, Len(s), s) = 0 <=> differ = {}
  BY <1>3
<1>5. differ = {} <=> Str!Matches(i, s)
  <2>1. \A k \in 1..Len(s) : m_start + (i + k - 1) + 1 = (m_start + i) + k
    BY <1>1
  <2> QED BY <1>1, <2>1 DEF Str!Matches, Str!At
<1> QED BY <1>4, <1>5, OccursIs

\* Every comparison answers what the strings would.
LEMMA ComparesAgreed == StrInv => Str!ComparesAgree
<1> SUFFICES ASSUME StrInv, NEW s \in Needles
             PROVE  /\ Str!compare(s) = IF Str!Less(str, s) THEN -1 ELSE IF str = s THEN 0 ELSE 1
                    /\ Str!startsWith(s) <=> Str!Occurs(s, 0)
                    /\ Str!endsWith(s) <=> Len(s) <= Len(str) /\ Str!Occurs(s, Len(str) - Len(s))
  BY DEF Str!ComparesAgree
<1>1. s \in Seq(Chars) /\ Len(s) \in Nat /\ Len(str) = m_size /\ m_size \in Nat
  BY StrFacts, TextAssumption
<1>2. Str!startsWith(s) <=> Str!Occurs(s, 0)
  <2>1. CASE Len(s) <= m_size
    BY <1>1, <2>1, ComparePartIs DEF Str!startsWith
  <2>2. CASE ~(Len(s) <= m_size)
    BY <1>1, <2>2 DEF Str!startsWith, Str!Occurs
  <2> QED BY <2>1, <2>2
<1>3. Str!endsWith(s) <=> Len(s) <= Len(str) /\ Str!Occurs(s, Len(str) - Len(s))
  <2>1. CASE Len(s) <= m_size
    <3>1. m_size - Len(s) \in Nat /\ (m_size - Len(s)) + Len(s) <= m_size
      BY <1>1, <2>1
    <3>2. Str!comparePart(m_size - Len(s), Len(s), s) = 0 <=> Str!Occurs(s, m_size - Len(s))
      BY <1>1, <3>1, ComparePartIs
    <3> QED BY <1>1, <2>1, <3>2 DEF Str!endsWith
  <2>2. CASE ~(Len(s) <= m_size)
    BY <1>1, <2>2 DEF Str!endsWith
  <2> QED BY <2>1, <2>2
<1>4. Str!compare(s) = IF Str!Less(str, s) THEN -1 ELSE IF str = s THEN 0 ELSE 1
  BY <1>1, CompareIs
<1> QED BY <1>2, <1>3, <1>4
\* rangeEqual(), counting down, stops at the end of both only if they are equal.
LEMMA CountingIs ==
  ASSUME NEW S, NEW s \in Seq(S), NEW t \in Seq(S)
  PROVE  Str!EqualCounting(s, t) <=> s = t
<1>1. Len(s) \in Nat /\ Len(t) \in Nat
  OBVIOUS
<1>2. CASE t = <<>>
  <2>1. Len(s) = 0 <=> s = t
    BY <1>2
  <2> QED BY <1>2, <2>1 DEF Str!EqualCounting
<1>3. CASE t # <<>>
  <2>1. Len(t) > 0
    BY <1>3
  <2>2. Str!EqualCounting(s, t)
          <=> \E k \in 1..Len(s) : /\ k = Len(t) /\ Len(s) - k = 0 /\ s[k] = t[k]
                                   /\ \A j \in 1..k-1 : j # Len(t) /\ Len(s) - j > 0 /\ s[j] = t[j]
    BY <1>3 DEF Str!EqualCounting
  <2>3. ASSUME NEW k \in 1..Len(s), k = Len(t), Len(s) - k = 0, s[k] = t[k],
               \A j \in 1..k-1 : s[j] = t[j]
        PROVE  s = t
    <3>1. Len(s) = Len(t) /\ \A j \in 1..Len(s) : j = k \/ j \in 1..k-1
      BY <1>1, <2>3
    <3>2. \A j \in 1..Len(s) : s[j] = t[j]
      BY <2>3, <3>1
    <3> QED BY <3>1, <3>2, Same
  <2>4. ASSUME s = t
        PROVE  \E k \in 1..Len(s) : /\ k = Len(t) /\ Len(s) - k = 0 /\ s[k] = t[k]
                                    /\ \A j \in 1..k-1 : j # Len(t) /\ Len(s) - j > 0 /\ s[j] = t[j]
    <3>1. Len(s) \in 1..Len(s) /\ Len(s) = Len(t) /\ Len(s) - Len(s) = 0
      BY <1>1, <2>1, <2>4
    <3>2. \A j \in 1..Len(s)-1 : j # Len(t) /\ Len(s) - j > 0
      BY <1>1, <3>1
    <3> QED BY <2>4, <3>1, <3>2
  <2> QED BY <2>2, <2>3, <2>4
<1> QED BY <1>2, <1>3

\* A string without a NUL is a C string.
LEMMA CStringIs ==
  ASSUME NEW S, NEW s \in Seq(S), Str!NUL \notin Str!Range(s)
  PROVE  Str!CString(s) = s
<1> DEFINE T == {i \in 0..Len(s) : i = Len(s) \/ s[i+1] = Str!NUL}
<1>1. Len(s) \in Nat /\ DOMAIN s = 1..Len(s)
  OBVIOUS
<1>2. \A i \in 1..Len(s) : s[i] # Str!NUL
  BY <1>1 DEF Str!Range
<1>3. T \in SUBSET Nat /\ Len(s) \in T
  BY <1>1
<1>4. ASSUME NEW i \in T PROVE i = Len(s)
  <2>1. CASE i # Len(s)
    <3>1. i \in 0..Len(s) /\ s[i+1] = Str!NUL
      BY <2>1
    <3>2. i + 1 \in 1..Len(s)
      <4>1. Len(s) \in Nat
        OBVIOUS
      <4> HIDE DEF T
      <4> QED BY <2>1, <3>1, <4>1
    <3> QED BY <1>2, <3>1, <3>2
  <2> QED BY <2>1
<1>5. Str!CString(s) = SubSeq(s, 1, Str!Min(T))
  BY DEF Str!CString
<1> HIDE DEF T
<1>6. Str!Min(T) = Len(s)
  BY <1>3, <1>4, MinIs
<1>7. SubSeq(s, 1, Len(s)) = s
  <2>1. SubSeq(s, 0 + 1, 0 + Len(s)) = s
    BY Whole DEF Part
  <2>2. 0 + 1 = 1 /\ 0 + Len(s) = Len(s)
    BY <1>1
  <2> QED BY <2>1, <2>2
<1> QED BY <1>5, <1>6, <1>7

\* Equal views have equal hashes, and are found in a table.
LEMMA HashesAgreed == StrInv => Str!HashesAgree
<1> SUFFICES ASSUME StrInv, NEW s \in Needles
             PROVE  /\ Str!EqualSized(str, s) <=> str = s
                    /\ Str!EqualUnsized(str, s) <=> str = s
                    /\ Str!EqualCounting(str, s) <=> str = s
                    /\ Str!EqualCounting(s, str) <=> str = s
                    /\ Str!EqualMeasured(str, s) <=> str = s
                    /\ Str!NUL \notin Str!Range(s) \cup Str!Range(str) =>
                         (Str!EqualCString(str, s) <=> str = Str!CString(s))
  BY DEF Str!HashesAgree, Str!HashOf, Str!HashOfCString
<1>1. /\ s \in Seq(Chars) /\ str \in Seq(Chars) /\ Len(s) \in Nat /\ Len(str) \in Nat
      /\ DOMAIN s = 1..Len(s) /\ DOMAIN str = 1..Len(str)
  BY StrFacts, TextAssumption
<1>2. str = s <=> Len(str) = Len(s) /\ \A k \in 1..Len(s) : str[k] = s[k]
  BY <1>1, Same
<1>3. Str!EqualSized(str, s) <=> str = s
  BY <1>1, <1>2 DEF Str!EqualSized
<1>4. Str!EqualUnsized(str, s) <=> str = s
  <2>1. Str!EqualUnsized(str, s) <=> (\A k \in 1..Len(str) : k <= Len(s) /\ str[k] = s[k]) /\ Len(str) = Len(s)
    BY <1>1 DEF Str!EqualUnsized
  <2>2. \A k \in 1..Len(str) : k <= Len(str)
    BY <1>1
  <2> QED BY <1>2, <2>1, <2>2
<1>5. (Str!EqualCounting(str, s) <=> str = s) /\ (Str!EqualCounting(s, str) <=> str = s)
  BY <1>1, CountingIs
<1>6. Str!EqualMeasured(str, s) <=> str = s
  <2>1. Str!EqualMeasured(str, s)
          <=> Len(str) = Len(s) /\ (Len(str) = 0 \/ \A k \in 1..Len(str) : str[k] = s[k])
    BY <1>1 DEF Str!EqualMeasured
  <2>2. Len(str) = 0 => 1..Len(str) = {}
    OBVIOUS
  <2> QED BY <1>2, <2>1, <2>2
<1>7. ASSUME Str!NUL \notin Str!Range(s) \cup Str!Range(str)
      PROVE  Str!EqualCString(str, s) <=> str = Str!CString(s)
  BY <1>1, <1>7, CStringIs DEF Str!EqualCString
<1> QED BY <1>3, <1>4, <1>5, <1>6, <1>7

\* Prefixes and suffixes are those of the string.
LEMMA PredicatesAgreed == StrInv => Str!PredicatesAgree
<1> SUFFICES ASSUME StrInv PROVE Str!PredicatesAgree
  OBVIOUS
<1>1. ASSUME NEW t \in Needles
      PROVE  (Str!EqualSized(t, str) <=> t = str) /\ (Str!EqualMeasured(t, str) <=> t = str)
  <2>1. /\ t \in Seq(Chars) /\ str \in Seq(Chars) /\ Len(t) \in Nat /\ Len(str) \in Nat
        /\ DOMAIN t = 1..Len(t) /\ DOMAIN str = 1..Len(str)
    BY StrFacts, TextAssumption
  <2>2. t = str <=> Len(t) = Len(str) /\ \A k \in 1..Len(t) : t[k] = str[k]
    BY <2>1, Same
  <2>3. Str!EqualSized(t, str) <=> t = str
    BY <2>1, <2>2 DEF Str!EqualSized
  <2>4. Str!EqualMeasured(t, str)
          <=> Len(t) = Len(str) /\ (Len(t) = 0 \/ \A k \in 1..Len(t) : t[k] = str[k])
    BY <2>1 DEF Str!EqualMeasured
  <2>5. Len(t) = 0 => 1..Len(t) = {}
    OBVIOUS
  <2> QED BY <2>2, <2>3, <2>4, <2>5
<1>2. {t \in {t \in Needles : Str!EqualSized(t, str)} : t = str} = Needles \cap {str}
  BY <1>1
<1>3. {t \in {t \in Needles : Str!EqualMeasured(t, str)} : t = str} = Needles \cap {str}
  BY <1>1
<1>4. {t \in {t \in Needles : t = Str!CString(str)} : t = Str!CString(str)} = Needles \cap {Str!CString(str)}
  OBVIOUS
<1> QED
  BY <1>2, <1>3, <1>4
     DEF Str!PredicatesAgree, Str!PredicateFor, Str!StringRefPredicate, Str!CStringRefPredicate,
         Str!RangeRefPredicate, Str!HashOf, Str!HashOfCString
\* The beginning of s, as much of it as there is room for
Fitting(s, room) == SubSeq(s, 1, Str!Shorter(Len(s), room))

\* What there is room for of a sequence.
LEMMA FittingIs ==
  ASSUME NEW S, NEW s \in Seq(S), NEW room \in Nat
  PROVE  LET n == Str!Shorter(Len(s), room)
         IN /\ n \in Nat /\ n <= Len(s) /\ n <= room /\ (n = Len(s) \/ n = room)
            /\ Fitting(s, room) \in Seq(S) /\ Len(Fitting(s, room)) = n
            /\ \A i \in 1..n : Fitting(s, room)[i] = s[i]
<1> DEFINE n == Str!Shorter(Len(s), room)
<1>1. n \in Nat /\ n <= Len(s) /\ n <= room /\ (n = Len(s) \/ n = room)
  BY DEF Str!Shorter
<1> HIDE DEF n
<1>2. SubSeq(s, 1, n) \in Seq(S) /\ Len(SubSeq(s, 1, n)) = n /\ \A i \in 1..n : SubSeq(s, 1, n)[i] = s[i]
  BY <1>1
<1> QED BY <1>1, <1>2 DEF Fitting, n

\* What fits of two strings one after the other: what fits of the first, and of the
\* second what fits then
LEMMA FittingBoth ==
  ASSUME NEW S, NEW s \in Seq(S), NEW t \in Seq(S), NEW room \in Nat
  PROVE  /\ Fitting(s \o t, room) = Fitting(s, room) \o Fitting(t, room - Len(Fitting(s, room)))
         /\ Len(s) > room => Fitting(s \o t, room) = Fitting(s, room)
         /\ Len(s) <= room => Len(Fitting(s, room)) = Len(s)
         /\ room - Len(Fitting(s, room)) \in Nat
<1> DEFINE f == Fitting(s, room)
           rest == room - Len(f)
           g == Fitting(t, rest)
           both == s \o t
           h == Fitting(both, room)
           n == Str!Shorter(Len(s), room)
           m == Str!Shorter(Len(t), rest)
           k == Str!Shorter(Len(both), room)
<1>1. Len(s) \in Nat /\ Len(t) \in Nat
  OBVIOUS
<1>2. /\ n \in Nat /\ n <= Len(s) /\ n <= room /\ (n = Len(s) \/ n = room)
      /\ f \in Seq(S) /\ Len(f) = n /\ \A i \in 1..n : f[i] = s[i]
  BY FittingIs
<1>3. rest \in Nat /\ rest = room - n
  BY <1>2
<1>4. /\ both \in Seq(S) /\ Len(both) = Len(s) + Len(t)
      /\ \A i \in 1..Len(s) : both[i] = s[i]
      /\ \A i \in 1..Len(t) : both[Len(s) + i] = t[i]
  BY SMT
<1> HIDE DEF f, rest, both, n
<1>5. /\ m \in Nat /\ m <= Len(t) /\ m <= rest /\ (m = Len(t) \/ m = rest)
      /\ g \in Seq(S) /\ Len(g) = m /\ \A i \in 1..m : g[i] = t[i]
  BY <1>3, FittingIs
<1>6. /\ k \in Nat /\ k <= Len(both) /\ k <= room /\ (k = Len(both) \/ k = room)
      /\ h \in Seq(S) /\ Len(h) = k /\ \A i \in 1..k : h[i] = both[i]
  BY <1>4, FittingIs
<1> HIDE DEF g, h, m, k
<1>7. n + m = k /\ (n < Len(s) => m = 0)
  BY <1>1, <1>2, <1>3, <1>4, <1>5, <1>6
<1>8. /\ f \o g \in Seq(S) /\ Len(f \o g) = n + m
      /\ \A i \in 1..n : (f \o g)[i] = f[i]
      /\ \A i \in 1..m : (f \o g)[n + i] = g[i]
  <2>1. f \in Seq(S) /\ g \in Seq(S) /\ Len(f) = n /\ Len(g) = m /\ n \in Nat /\ m \in Nat
    BY <1>2, <1>5
  <2>2. /\ f \o g \in Seq(S) /\ Len(f \o g) = Len(f) + Len(g)
        /\ \A i \in 1..Len(f) + Len(g) : (f \o g)[i] = IF i <= Len(f) THEN f[i] ELSE g[i - Len(f)]
    BY <2>1, ConcatProperties
  <2>3. \A i \in 1..n : (f \o g)[i] = f[i]
    BY <2>1, <2>2
  <2>4. ASSUME NEW i \in 1..m PROVE (f \o g)[n + i] = g[i]
    <3>1. n + i \in 1..n + m /\ ~(n + i <= n) /\ (n + i) - n = i
      BY <2>1
    <3> QED BY <2>1, <2>2, <3>1
  <2> QED BY <2>1, <2>2, <2>3, <2>4
<1>9. ASSUME NEW i \in 1..k PROVE h[i] = (f \o g)[i]
  <2>1. CASE i <= n
    <3>1. i \in 1..n /\ i \in 1..Len(s)
      BY <1>1, <1>2, <2>1
    <3> QED BY <1>2, <1>4, <1>6, <1>8, <3>1
  <2>2. CASE i > n
    <3>1. n = Len(s) /\ i - n \in 1..m /\ i - n \in 1..Len(t) /\ n + (i - n) = i
      BY <1>1, <1>2, <1>5, <1>6, <1>7, <2>2
    <3>2. (f \o g)[i] = t[i - n]
      BY <1>5, <1>8, <3>1
    <3>3. both[i] = t[i - n]
      BY <1>4, <3>1
    <3> QED BY <1>6, <3>2, <3>3
  <2>3. i <= n \/ i > n
    BY <1>2
  <2> QED BY <2>1, <2>2, <2>3
<1>10. h = f \o g
  BY <1>6, <1>7, <1>8, <1>9, Same
<1>11. ASSUME Len(s) > room PROVE h = f
  <2>1. n = k /\ n = room
    BY <1>1, <1>2, <1>7, <1>11
  <2> QED BY <1>2, <1>6, <1>8, <1>9, <2>1, Same
<1>12. Len(s) <= room => Len(f) = Len(s)
  BY <1>1, <1>2
<1> QED BY <1>3, <1>10, <1>11, <1>12 DEF f, rest, g, both, h

\* Two outputs one after the other, the second of which is left out if the first
\* does not succeed
LEMMA WrittenBoth ==
  ASSUME NEW S, NEW s \in Seq(S), NEW t \in Seq(S), NEW room \in Nat
  PROVE  LET rest == room - Len(Fitting(s, room))
         IN IF Len(s) <= room
            THEN /\ Fitting(s, room) \o Fitting(t, rest) = Fitting(s \o t, room)
                 /\ Len(t) <= rest <=> room >= Len(s \o t)
            ELSE Fitting(s, room) = Fitting(s \o t, room) /\ ~(room >= Len(s \o t))
<1>1. Len(s) \in Nat /\ Len(t) \in Nat /\ Len(s \o t) = Len(s) + Len(t)
  OBVIOUS
<1>2. /\ Fitting(s \o t, room) = Fitting(s, room) \o Fitting(t, room - Len(Fitting(s, room)))
      /\ Len(s) > room => Fitting(s \o t, room) = Fitting(s, room)
      /\ Len(s) <= room => Len(Fitting(s, room)) = Len(s)
      /\ room - Len(Fitting(s, room)) \in Nat
  BY FittingBoth, Zenon
<1> QED BY <1>1, <1>2

\* copy() copies what a substring is.
LEMMA CopiedIs ==
  ASSUME StrInv, NEW pos \in 0..m_size, NEW n \in Nat
  PROVE  Str!Copied(n, pos) = SubSeq(str, pos + 1, Str!Shorter(pos + n, Len(str)))
<1> DEFINE k == Str!Shorter(n, m_size - pos)
           u == Str!Copied(n, pos)
           v == Part(str, pos, k)
<1>1. str \in Seq(Chars) /\ Len(str) = m_size /\ m_size \in Nat /\ pos \in Nat
  BY StrFacts
<1>2. k \in Nat /\ pos + k <= m_size /\ Str!Shorter(pos + n, Len(str)) = pos + k
  BY <1>1 DEF Str!Shorter
<1>3. v = SubSeq(str, pos + 1, Str!Shorter(pos + n, Len(str))) /\ u = [i \in 1..k |-> Str!At(pos + i - 1)]
  BY <1>2 DEF Part, Str!Copied
<1> HIDE DEF k, u
<1>4. ASSUME NEW i \in 1..k PROVE Str!At(pos + i - 1) = str[pos + i] /\ str[pos + i] \in Chars
  <2>1. pos + i - 1 \in 0..m_size-1 /\ (pos + i - 1) + 1 = pos + i /\ pos + i \in 1..Len(str)
    BY <1>1, <1>2
  <2>2. Str!At(pos + i - 1) = str[(pos + i - 1) + 1]
    BY <2>1, StrFacts
  <2> QED BY <1>1, <2>1, <2>2, ElementOfSeq
<1>5. v \in Seq(Chars) /\ Len(v) = k /\ \A i \in 1..k : v[i] = str[pos + i]
  BY <1>1, <1>2, PartIs
<1> HIDE DEF v
<1>6. \A i \in 1..k : u[i] = str[pos + i] /\ u[i] \in Chars
  BY <1>3, <1>4
<1>7. u \in Seq(Chars) /\ Len(u) = k
  <2>1. u \in [1..k -> Chars]
    BY <1>3, <1>6
  <2> QED BY <1>2, <2>1
<1>8. u = v
  BY <1>5, <1>6, <1>7, Same
<1> QED BY <1>3, <1>8 DEF u

\* What fills up to a width
LEMMA PaddingIs ==
  ASSUME NEW n \in Int, NEW S, Str!FillChar \in S
  PROVE  LET padding == [i \in 1..n |-> Str!FillChar]
         IN padding \in Seq(S) /\ Len(padding) = (IF n < 0 THEN 0 ELSE n)
<1> DEFINE m == IF n < 0 THEN 0 ELSE n
<1>1. m \in Nat /\ 1..n = 1..m
  OBVIOUS
<1> HIDE DEF m
<1>2. [i \in 1..m |-> Str!FillChar] \in Seq(S) /\ Len([i \in 1..m |-> Str!FillChar]) = m
  BY <1>1
<1> QED BY <1>1, <1>2 DEF m

\* doFill() writes what there is room for, and fails when it is not all.
LEMMA FilledIs ==
  ASSUME NEW n \in Nat, NEW room \in Nat
  PROVE  /\ Str!doFill(n, room).out = Fitting([i \in 1..n |-> Str!FillChar], room)
         /\ Str!doFill(n, room).state = "good" <=> n <= room
<1> DEFINE padding == [i \in 1..n |-> Str!FillChar]
           k == Str!Shorter(n, room)
           u == [i \in 1..k |-> Str!FillChar]
<1>1. padding \in Seq({Str!FillChar}) /\ Len(padding) = n /\ \A i \in 1..n : padding[i] = Str!FillChar
  OBVIOUS
<1>2. k \in Nat /\ k <= n
  BY DEF Str!Shorter
<1>3. Str!doFill(n, room).out = u /\ (Str!doFill(n, room).state = "good" <=> n <= room)
  BY DEF Str!doFill
<1> HIDE DEF padding
<1>4. /\ Fitting(padding, room) \in Seq({Str!FillChar}) /\ Len(Fitting(padding, room)) = k
      /\ \A i \in 1..k : Fitting(padding, room)[i] = padding[i]
  BY <1>1, FittingIs
<1> HIDE DEF k
<1>5. u \in Seq({Str!FillChar}) /\ Len(u) = k /\ \A i \in 1..k : u[i] = Str!FillChar
  BY <1>2
<1>6. \A i \in 1..k : Fitting(padding, room)[i] = u[i]
  BY <1>1, <1>2, <1>4, <1>5
<1>7. u = Fitting(padding, room)
  BY <1>4, <1>5, <1>6, Same
<1> QED BY <1>3, <1>7 DEF padding

\* A stream gets what it would of the string.
LEMMA OutputAgreed == StrInv => Str!OutputAgrees
<1> SUFFICES ASSUME StrInv
             PROVE  Str!OutputAgrees
  OBVIOUS
<1>1. /\ str \in Seq(Chars) /\ Len(str) = m_size /\ m_size \in Nat /\ npos \in Nat
      /\ Str!Sizes \cup {npos} \subseteq Nat
  BY StrFacts DEF Str!Sizes
<1>2. ASSUME NEW w \in Str!Sizes \cup {npos}, NEW toLeft \in BOOLEAN, NEW room \in 0 .. npos+1
      PROVE  LET padding == [i \in 1 .. w - Len(str) |-> Str!FillChar]
                 padded  == IF toLeft THEN str \o padding ELSE padding \o str
                 written == Str!Output(w, toLeft, room)
             IN /\ written.out = SubSeq(padded, 1, Str!Shorter(room, Len(padded)))
                /\ written.state = "good" <=> room >= Len(padded)
  <2> DEFINE padding == [i \in 1 .. w - Len(str) |-> Str!FillChar]
             padded  == IF toLeft THEN str \o padding ELSE padding \o str
             written == Str!Output(w, toLeft, room)
             S == Chars \cup {Str!FillChar}
             D(r) == Str!doOut(str, r)
             P(r) == Str!doFill(w - m_size, r)
  <2>1. w \in Nat /\ room \in Nat
    BY <1>1
  <2>2. str \in Seq(S)
    BY <1>1, SeqMonotonic
  <2>3. padding \in Seq(S) /\ Len(padding) = IF w - Len(str) < 0 THEN 0 ELSE w - Len(str)
    <3>1. w - Len(str) \in Int /\ Str!FillChar \in S
      BY <1>1, <2>1
    <3> QED BY <3>1, PaddingIs
  <2>4. Str!Copied(m_size, 0) = str
    <3>1. 0 \in 0..m_size /\ Str!Shorter(0 + m_size, Len(str)) = m_size /\ 0 + 1 = 1
      BY <1>1 DEF Str!Shorter
    <3>2. Str!Copied(m_size, 0) = SubSeq(str, 1, m_size)
      BY <1>1, <3>1, CopiedIs
    <3>3. SubSeq(str, 0 + 1, 0 + m_size) = str /\ 0 + 1 = 1 /\ 0 + m_size = m_size
      BY <1>1, Whole DEF Part
    <3> QED BY <3>2, <3>3
  <2>5. \A r \in Nat : D(r).out = Fitting(str, r) /\ (D(r).state = "good" <=> Len(str) <= r)
    BY DEF Str!doOut, Fitting
  <2>6. w - m_size \in Nat => \A r \in Nat : P(r).out = Fitting(padding, r) /\ (P(r).state = "good" <=> Len(padding) <= r)
    <3>1. w - m_size \in Nat => Len(padding) = w - m_size
      BY <1>1, <2>1, <2>3
    <3> QED BY <1>1, <3>1, FilledIs
  <2>7. written = IF m_size >= w THEN D(room)
                  ELSE LET F == IF toLeft THEN D(room) ELSE P(room)
                           G == IF toLeft THEN P(room - Len(F.out)) ELSE D(room - Len(F.out))
                       IN IF F.state # "good" THEN F ELSE [out |-> F.out \o G.out, state |-> G.state]
    <3>1. ~(w < 0)
      BY <2>1
    <3> QED BY <2>4, <3>1 DEF Str!Output
  <2>8. Fitting(padded, room) = SubSeq(padded, 1, Str!Shorter(room, Len(padded)))
    <3>1. padded \in Seq(S)
      BY <2>2, <2>3
    <3> HIDE DEF padded
    <3>2. Len(padded) \in Nat
      BY <3>1
    <3>3. Str!Shorter(room, Len(padded)) = Str!Shorter(Len(padded), room)
      BY <2>1, <3>2 DEF Str!Shorter
    <3> QED BY <3>3 DEF Fitting
  <2>9. written.out = Fitting(padded, room) /\ (written.state = "good" <=> room >= Len(padded))
    <3> HIDE DEF D, P, padding, written, S
    <3>1. CASE m_size >= w
      <4>1. Len(padding) = 0
        BY <1>1, <2>1, <2>3, <3>1
      <4>2. padding = <<>>
        BY <2>3, <4>1
      <4>3. padded = str
        BY <2>2, <4>2
      <4>4. D(room).out = Fitting(str, room) /\ (D(room).state = "good" <=> Len(str) <= room)
        BY <2>1, <2>5
      <4> HIDE DEF padded
      <4>5. D(room).state = "good" <=> room >= Len(str)
        BY <1>1, <2>1, <4>4
      <4> QED BY <2>7, <3>1, <4>3, <4>4, <4>5
    <3>2. CASE ~(m_size >= w) /\ toLeft
      <4>1. w - m_size \in Nat /\ padded = str \o padding
        BY <1>1, <2>1, <3>2
      <4>2. room - Len(Fitting(str, room)) \in Nat
        BY <2>1, <2>2, <2>3, FittingBoth
      <4> DEFINE F == D(room)
                 G == P(room - Len(Fitting(str, room)))
      <4>3. F.out = Fitting(str, room) /\ (F.state = "good" <=> Len(str) <= room)
        BY <2>1, <2>5
      <4>4. /\ G.out = Fitting(padding, room - Len(Fitting(str, room)))
            /\ G.state = "good" <=> Len(padding) <= room - Len(Fitting(str, room))
        BY <2>6, <4>1, <4>2
      <4>5. written = IF F.state # "good" THEN F ELSE [out |-> F.out \o G.out, state |-> G.state]
        BY <2>7, <3>2, <4>3
      <4> HIDE DEF F, G, padded
      <4>6. room \in Nat /\ padding \in Seq(S)
        BY <2>1, <2>3
      <4>7. written.out = Fitting(str \o padding, room) /\ (written.state = "good" <=> room >= Len(str \o padding))
        <5>1. LET rest == room - Len(Fitting(str, room))
              IN IF Len(str) <= room
                 THEN /\ Fitting(str, room) \o Fitting(padding, rest) = Fitting(str \o padding, room)
                      /\ Len(padding) <= rest <=> room >= Len(str \o padding)
                 ELSE Fitting(str, room) = Fitting(str \o padding, room) /\ ~(room >= Len(str \o padding))
          BY <2>2, <4>6, WrittenBoth
        <5>2. CASE Len(str) <= room
          <6>1. written = [out |-> F.out \o G.out, state |-> G.state]
            BY <4>3, <4>5, <5>2
          <6>2. written.out = F.out \o G.out /\ written.state = G.state
            BY <6>1
          <6> QED BY <4>3, <4>4, <5>1, <5>2, <6>2
        <5>3. CASE ~(Len(str) <= room)
          <6>1. written = F
            BY <4>3, <4>5, <5>3
          <6> QED BY <4>3, <5>1, <5>3, <6>1
        <5> QED BY <5>2, <5>3
      <4> QED BY <4>1, <4>7
    <3>3. CASE ~(m_size >= w) /\ ~toLeft
      <4>1. w - m_size \in Nat /\ padded = padding \o str
        BY <1>1, <2>1, <3>3
      <4>2. room - Len(Fitting(padding, room)) \in Nat
        BY <2>1, <2>2, <2>3, FittingBoth
      <4> DEFINE F == P(room)
                 G == D(room - Len(Fitting(padding, room)))
      <4>3. F.out = Fitting(padding, room) /\ (F.state = "good" <=> Len(padding) <= room)
        BY <2>1, <2>6, <4>1
      <4>4. /\ G.out = Fitting(str, room - Len(Fitting(padding, room)))
            /\ G.state = "good" <=> Len(str) <= room - Len(Fitting(padding, room))
        BY <2>5, <4>2
      <4>5. written = IF F.state # "good" THEN F ELSE [out |-> F.out \o G.out, state |-> G.state]
        BY <2>7, <3>3, <4>3
      <4> HIDE DEF F, G, padded
      <4>6. room \in Nat /\ padding \in Seq(S)
        BY <2>1, <2>3
      <4>7. written.out = Fitting(padding \o str, room) /\ (written.state = "good" <=> room >= Len(padding \o str))
        <5>1. LET rest == room - Len(Fitting(padding, room))
              IN IF Len(padding) <= room
                 THEN /\ Fitting(padding, room) \o Fitting(str, rest) = Fitting(padding \o str, room)
                      /\ Len(str) <= rest <=> room >= Len(padding \o str)
                 ELSE Fitting(padding, room) = Fitting(padding \o str, room) /\ ~(room >= Len(padding \o str))
          BY <2>2, <4>6, WrittenBoth
        <5>2. CASE Len(padding) <= room
          <6>1. written = [out |-> F.out \o G.out, state |-> G.state]
            BY <4>3, <4>5, <5>2
          <6>2. written.out = F.out \o G.out /\ written.state = G.state
            BY <6>1
          <6> QED BY <4>3, <4>4, <5>1, <5>2, <6>2
        <5>3. CASE ~(Len(padding) <= room)
          <6>1. written = F
            BY <4>3, <4>5, <5>3
          <6> QED BY <4>3, <5>1, <5>3, <6>1
        <5> QED BY <5>2, <5>3
      <4> QED BY <4>1, <4>7
    <3> QED BY <3>1, <3>2, <3>3
  <2> QED BY <2>8, <2>9
<1>3. ASSUME NEW pos \in 0..m_size, NEW n \in Str!Sizes \cup {npos}
      PROVE  Str!Copied(n, pos) = SubSeq(str, pos+1, Str!Shorter(pos+n, Len(str)))
  BY <1>1, CopiedIs
<1> QED BY <1>2, <1>3 DEF Str!OutputAgrees

-----------------------------------------------------------------------------
(* Sequences put together *)

\* The sequences in s put together, one after the other
Grows(h, D, s) == /\ h[0] = <<>>
                  /\ \A k \in 0..Len(s) : h[k] \in Seq(D)
                  /\ \A k \in 1..Len(s) : h[k] = h[k-1] \o s[k]

\* Sequences are put together step by step.
LEMMA Growing ==
  ASSUME NEW D, NEW s \in Seq(Seq(D))
  PROVE  \E h : Grows(h, D, s)
<1> DEFINE n == Len(s)
           Good(m, h) == /\ h[0] = <<>> /\ \A k \in 0..m : h[k] \in Seq(D)
                         /\ \A k \in 1..m : h[k] = h[k-1] \o s[k]
           T == {m \in Nat : \E h : Good(m, h)}
<1>1. n \in Nat /\ \A k \in 1..n : s[k] \in Seq(D)
  OBVIOUS
<1> HIDE DEF n
<1>2. 0 \in T
  <2> DEFINE h0 == [k \in 0..0 |-> <<>>]
  <2>1. h0[0] = <<>> /\ \A k \in 0..0 : h0[k] \in Seq(D)
    OBVIOUS
  <2>2. \A k \in 1..0 : FALSE
    OBVIOUS
  <2> HIDE DEF h0
  <2>3. Good(0, h0)
    BY <2>1, <2>2
  <2> QED BY <2>3
<1>3. ASSUME NEW m \in 0 .. n-1, m \in T PROVE m + 1 \in T
  <2>1. PICK h : Good(m, h)
    BY <1>3
  <2> DEFINE v == h[m] \o s[m+1]
             g == [k \in 0 .. m+1 |-> IF k = m + 1 THEN v ELSE h[k]]
  <2>2. m \in Nat /\ m + 1 \in 1..n /\ m \in 0..m
    BY <1>1
  <2>3. v \in Seq(D)
    <3>1. h[m] \in Seq(D) /\ s[m+1] \in Seq(D)
      BY <1>1, <2>1, <2>2
    <3> QED BY <3>1, ConcatProperties
  <2> HIDE DEF v
  <2>4. g[m+1] = v /\ \A k \in 0..m : g[k] = h[k]
    <3>1. m + 1 \in 0 .. m+1 /\ \A k \in 0..m : k \in 0 .. m+1 /\ k # m + 1
      BY <2>2
    <3> QED BY <3>1
  <2> HIDE DEF g
  <2>5. ASSUME NEW k \in 0 .. m+1 PROVE g[k] \in Seq(D)
    <3>1. k = m + 1 \/ k \in 0..m
      BY <2>2
    <3> QED BY <2>1, <2>3, <2>4, <3>1
  <2>6. ASSUME NEW k \in 1 .. m+1 PROVE g[k] = g[k-1] \o s[k]
    <3>1. CASE k = m + 1
      <4>1. k - 1 = m
        BY <2>2, <3>1
      <4> QED BY <2>2, <2>4, <3>1, <4>1 DEF v
    <3>2. CASE k # m + 1
      <4>1. k \in 1..m /\ k \in 0..m /\ k - 1 \in 0..m
        BY <2>2, <3>2
      <4> QED BY <2>1, <2>4, <4>1
    <3> QED BY <3>1, <3>2
  <2>7. g[0] = <<>>
    BY <2>1, <2>2, <2>4
  <2>8. Good(m + 1, g)
    BY <2>5, <2>6, <2>7
  <2>9. m + 1 \in Nat
    BY <2>2
  <2> QED BY <2>8, <2>9
<1> HIDE DEF T
<1>4. \A m \in 0..n : m \in T
  BY <1>1, <1>2, <1>3, InductionTo
<1>5. n \in T
  BY <1>1, <1>4
<1>6. PICK h : Good(n, h)
  BY <1>5 DEF T
<1> QED BY <1>6 DEF Grows, n

\* FlattenSeq gives the last of these steps.
LEMMA FlattenIs ==
  ASSUME NEW D, NEW s \in Seq(Seq(D)), NEW h, Grows(h, D, s)
  PROVE  Str!FlattenSeq(s) = h[Len(s)]
<1> DEFINE n == Len(s)
           Def(g) == g = [i \in 1..n |-> IF i = 1 THEN s[i] ELSE g[i-1] \o s[i]]
           g0 == [i \in 1..n |-> h[i]]
<1>0. h[0] = <<>> /\ \A k \in 1..n : h[k] \in Seq(D) /\ h[k] = h[k-1] \o s[k]
  <2>1. \A k \in 1..n : k \in 0..n
    OBVIOUS
  <2> QED BY <2>1 DEF Grows
<1>1. CASE n = 0
  <2>1. s = <<>>
    BY <1>1
  <2> QED BY <1>0, <1>1, <2>1 DEF Str!FlattenSeq
<1>2. CASE n # 0
  <2>1. n \in Nat /\ 1 \in 1..n /\ n \in 1..n
    BY <1>2
  <2>2. h[1] = s[1]
    <3>1. s[1] \in Seq(D) /\ 1 - 1 = 0
      BY <2>1
    <3>2. h[1] = <<>> \o s[1]
      BY <1>0, <2>1, <3>1
    <3> QED BY <3>1, <3>2
  <2>3. Def(g0)
    <3>1. ASSUME NEW i \in 1..n PROVE g0[i] = IF i = 1 THEN s[i] ELSE g0[i-1] \o s[i]
      <4>1. CASE i = 1
        BY <2>2, <4>1
      <4>2. CASE i # 1
        <5>1. i - 1 \in 1..n
          BY <4>2
        <5> QED BY <1>0, <4>2, <5>1
      <4> QED BY <4>1, <4>2
    <3> QED BY <3>1
  <2> HIDE DEF g0
  <2> DEFINE f == CHOOSE g : Def(g)
  <2>4. Def(f)
    BY <2>3
  <2>5. Str!FlattenSeq(s) = f[n]
    BY <1>2 DEF Str!FlattenSeq
  <2>6. \A i \in 1..n : f[i] = IF i = 1 THEN s[i] ELSE f[i-1] \o s[i]
    BY <2>4
  <2> HIDE DEF f
  <2> DEFINE A == {i \in Nat : i = 0 \/ f[i] = h[i]}
  <2>7. 0 \in A
    OBVIOUS
  <2>8. ASSUME NEW i \in 0 .. n-1, i \in A PROVE i + 1 \in A
    <3>1. i + 1 \in 1..n /\ (i + 1) - 1 = i
      BY <2>1
    <3>2. f[i+1] = h[i+1]
      <4>1. CASE i = 0
        BY <2>2, <2>6, <3>1, <4>1
      <4>2. CASE i # 0
        <5>1. f[i+1] = f[i] \o s[i+1]
          <6>1. i + 1 # 1
            BY <2>1, <4>2
          <6> QED BY <2>6, <3>1, <6>1
        <5>2. h[i+1] = h[i] \o s[i+1]
          BY <1>0, <3>1
        <5>3. f[i] = h[i]
          BY <2>8, <4>2
        <5> QED BY <5>1, <5>2, <5>3
      <4> QED BY <4>1, <4>2
    <3>3. i + 1 \in Nat
      BY <2>1
    <3> QED BY <3>2, <3>3
  <2> HIDE DEF A
  <2>9. \A i \in 0..n : i \in A
    BY <2>1, <2>7, <2>8, InductionTo
  <2>10. n \in A
    BY <2>1, <2>9
  <2> QED BY <1>2, <2>5, <2>10 DEF A
<1> QED BY <1>1, <1>2

\* A sequence with one more element in front.
LEMMA ConsIs ==
  ASSUME NEW S, NEW a \in S, NEW s \in Seq(S)
  PROVE  /\ <<a>> \o s \in Seq(S) /\ Len(<<a>> \o s) = Len(s) + 1 /\ (<<a>> \o s)[1] = a
         /\ \A i \in 1..Len(s) : (<<a>> \o s)[i+1] = s[i]
<1> DEFINE b == <<a>>
           n == Len(s)
<1>1. b \in Seq(S) /\ Len(b) = 1 /\ b[1] = a /\ n \in Nat
  OBVIOUS
<1> HIDE DEF b, n
<1>2. /\ b \o s \in Seq(S) /\ Len(b \o s) = Len(b) + n
      /\ \A i \in 1 .. Len(b) + n : (b \o s)[i] = IF i <= Len(b) THEN b[i] ELSE s[i - Len(b)]
  BY <1>1, ConcatProperties DEF n
<1>3. ASSUME NEW i \in 1..n PROVE (b \o s)[i+1] = s[i]
  <2>1. i + 1 \in 1 .. 1 + n /\ ~(i + 1 <= 1) /\ (i + 1) - 1 = i
    BY <1>1
  <2> QED BY <1>1, <1>2, <2>1
<1>4. (b \o s)[1] = a
  BY <1>1, <1>2
<1>5. 1 + n = n + 1
  BY <1>1
<1> QED BY <1>1, <1>2, <1>3, <1>4, <1>5 DEF b, n

\* One more sequence in front of those put together.
LEMMA FlattenCons ==
  ASSUME NEW D, NEW a \in Seq(D), NEW s \in Seq(Seq(D))
  PROVE  /\ Str!FlattenSeq(s) \in Seq(D)
         /\ Str!FlattenSeq(<<a>> \o s) = a \o Str!FlattenSeq(s)
<1>1. PICK h : Grows(h, D, s)
  BY Growing
<1> DEFINE n == Len(s)
           r == <<a>> \o s
           g == [k \in 0 .. n+1 |-> IF k = 0 THEN <<>> ELSE a \o h[k-1]]
<1>2. n \in Nat /\ h[0] = <<>> /\ (\A k \in 0..n : h[k] \in Seq(D)) /\ \A k \in 1..n : h[k] = h[k-1] \o s[k]
  <2>1. n \in Nat
    OBVIOUS
  <2> QED BY <1>1, <2>1 DEF Grows
<1>3. r \in Seq(Seq(D)) /\ Len(r) = n + 1 /\ r[1] = a /\ \A k \in 1..n : r[k+1] = s[k]
  <2> DEFINE S == Seq(D)
  <2>1. a \in S /\ s \in Seq(S)
    OBVIOUS
  <2> HIDE DEF S
  <2>2. /\ r \in Seq(S) /\ Len(r) = Len(s) + 1 /\ r[1] = a /\ \A k \in 1..Len(s) : r[k+1] = s[k]
    BY <2>1, ConsIs
  <2> QED BY <2>2 DEF S
<1>4. g[0] = <<>> /\ \A k \in 1 .. n+1 : g[k] = a \o h[k-1]
  <2>1. n \in Nat
    BY <1>2
  <2> HIDE DEF n
  <2>2. 0 \in 0 .. n+1 /\ \A k \in 1 .. n+1 : k \in 0 .. n+1 /\ k # 0
    BY <2>1
  <2> QED BY <2>2
<1> HIDE DEF g, r, n
<1>5. \A k \in 0 .. n+1 : g[k] \in Seq(D)
  <2>1. ASSUME NEW k \in 1 .. n+1 PROVE g[k] \in Seq(D)
    <3>1. k - 1 \in 0..n
      BY <1>2
    <3>2. h[k-1] \in Seq(D) /\ g[k] = a \o h[k-1]
      BY <1>2, <1>4, <3>1
    <3>3. a \o h[k-1] \in Seq(D)
      BY <3>2, ConcatProperties
    <3> QED BY <3>2, <3>3
  <2>2. ASSUME NEW k \in 0 .. n+1, k \notin 1 .. n+1 PROVE k = 0
    BY <1>2, <2>2
  <2>3. g[0] \in Seq(D)
    BY <1>4
  <2> QED BY <2>1, <2>2, <2>3
<1>6. ASSUME NEW k \in 1 .. n+1 PROVE g[k] = g[k-1] \o r[k]
  <2>1. CASE k = 1
    <3>1. g[1] = a \o <<>> /\ g[1-1] = <<>> /\ r[1] = a
      <4>1. 1 \in 1 .. n+1 /\ 1 - 1 = 0
        BY <1>2
      <4> QED BY <1>2, <1>3, <1>4, <4>1
    <3>2. a \o <<>> = a /\ <<>> \o a = a
      BY ConcatEmptySeq
    <3> QED BY <2>1, <3>1, <3>2
  <2>2. CASE k # 1
    <3> DEFINE j == k - 1
    <3>1. j \in 1..n /\ j \in 1 .. n+1 /\ j - 1 \in 0..n /\ k = j + 1 /\ j + 1 \in 1 .. n+1 /\ (j + 1) - 1 = j
      BY <1>2, <2>2
    <3> HIDE DEF j
    <3>2. g[j+1] = a \o h[j] /\ g[j] = a \o h[j-1]
      BY <1>4, <3>1
    <3>3. h[j] = h[j-1] \o s[j] /\ r[j+1] = s[j] /\ h[j-1] \in Seq(D) /\ s[j] \in Seq(D)
      <4>1. s[j] \in Seq(D)
        BY <3>1 DEF n
      <4>2. j - 1 \in 0..n /\ j \in 1..n
        BY <3>1
      <4> QED BY <1>2, <1>3, <4>1, <4>2
    <3>4. a \o (h[j-1] \o s[j]) = (a \o h[j-1]) \o s[j]
      <4> DEFINE x == h[j-1]
                 z == s[j]
      <4>1. a \in Seq(D) /\ x \in Seq(D) /\ z \in Seq(D)
        BY <3>3
      <4> HIDE DEF x, z
      <4>2. (a \o x) \o z = a \o (x \o z)
        BY <4>1, ConcatAssociative
      <4> QED BY <4>2 DEF x, z
    <3>5. g[j+1] = g[j] \o r[j+1]
      BY <3>2, <3>3, <3>4
    <3>6. k - 1 = j
      BY <3>1
    <3> QED BY <3>1, <3>5, <3>6
  <2> QED BY <2>1, <2>2
<1>7. Grows(g, D, r)
  BY <1>3, <1>4, <1>5, <1>6 DEF Grows
<1>8. Str!FlattenSeq(r) = g[n+1]
  BY <1>3, <1>7, FlattenIs
<1>9. Str!FlattenSeq(s) = h[n]
  BY <1>1, FlattenIs DEF n
<1>10. g[n+1] = a \o h[n] /\ h[n] \in Seq(D)
  <2>1. n + 1 \in 1 .. n+1 /\ (n + 1) - 1 = n /\ n \in 0..n
    BY <1>2
  <2> QED BY <1>2, <1>4, <2>1
<1> QED BY <1>8, <1>9, <1>10 DEF r

-----------------------------------------------------------------------------
(* Splitting *)

\* A function on 0..m whose value at i is B[i], followed by its value at a later J[i]
\* unless that is 0
Jumps(f, m, B, J) == \A i \in 0..m : f[i] = IF J[i] = 0 THEN B[i] ELSE B[i] \o f[J[i]]

\* A function defined by what it is further on: there is one.
LEMMA JumpRecursion ==
  ASSUME NEW S, NEW m \in Nat, NEW B \in [0..m -> Seq(S)], NEW J \in [0..m -> Nat],
         \A i \in 0..m : J[i] = 0 \/ J[i] \in i+1 .. m
  PROVE  \E f \in [0..m -> Seq(S)] : Jumps(f, m, B, J)
<1> DEFINE E(f, i) == IF J[i] = 0 THEN B[i] ELSE B[i] \o f[J[i]]
           Good(k, f) == \A i \in 0..m : i + k >= m => f[i] = E(f, i)
           T == {k \in Nat : \E f \in [0..m -> Seq(S)] : Good(k, f)}
<1>1. 0 \in T
  <2>1. ASSUME NEW i \in 0..m, i + 0 >= m PROVE B[i] = E(B, i)
    <3>1. i = m /\ J[i] = 0
      BY <2>1
    <3> QED BY <3>1
  <2> QED BY <2>1
<1>2. ASSUME NEW n \in 0 .. m-1, n \in T PROVE n + 1 \in T
  <2>1. PICK f \in [0..m -> Seq(S)] : Good(n, f)
    BY <1>2
  <2> DEFINE p == m - (n + 1)
             e == E(f, p)
             g == [f EXCEPT ![p] = e]
  <2>2. p \in 0..m /\ m \in Nat /\ n \in Nat
    OBVIOUS
  <2>3. e \in Seq(S)
    <3>1. CASE J[p] = 0
      BY <2>2, <3>1
    <3>2. CASE J[p] # 0
      <4>1. J[p] \in 0..m
        BY <2>2, <3>2
      <4>2. f[J[p]] \in Seq(S) /\ B[p] \in Seq(S)
        BY <2>1, <2>2, <4>1
      <4> QED BY <3>2, <4>2
    <3> QED BY <3>1, <3>2
  <2>4. g \in [0..m -> Seq(S)] /\ g[p] = e /\ \A i \in 0..m : i # p => g[i] = f[i]
    BY <2>2, <2>3
  <2>5. ASSUME NEW i \in 0..m, i + (n + 1) >= m PROVE g[i] = E(g, i)
    <3>1. i >= p
      BY <2>5
    <3>2. E(g, i) = E(f, i)
      <4>1. CASE J[i] = 0
        BY <4>1
      <4>2. CASE J[i] # 0
        <5>1. J[i] \in i+1 .. m
          BY <4>2
        <5>2. J[i] \in 0..m /\ J[i] # p
          BY <2>2, <3>1, <5>1
        <5>3. g[J[i]] = f[J[i]]
          BY <2>4, <5>2
        <5> HIDE DEF g
        <5> QED BY <4>2, <5>3
      <4> QED BY <4>1, <4>2
    <3>3. CASE i = p
      BY <2>4, <3>2, <3>3
    <3>4. CASE i # p
      <4>1. i + n >= m
        BY <2>2, <3>1, <3>4
      <4>2. f[i] = E(f, i)
        BY <2>1, <4>1
      <4> HIDE DEF g, e, p
      <4> QED BY <2>4, <3>2, <3>4, <4>2
    <3> QED BY <3>3, <3>4
  <2> HIDE DEF g, e, p
  <2>6. Good(n + 1, g)
    BY <2>5
  <2>7. \E o \in [0..m -> Seq(S)] : Good(n + 1, o)
    BY <2>4, <2>6
  <2>8. n + 1 \in Nat
    BY <2>2
  <2> QED BY <2>7, <2>8
<1> HIDE DEF T
<1>3. \A n \in 0..m : n \in T
  BY <1>1, <1>2, InductionTo
<1>4. m \in T
  BY <1>3
<1>5. PICK f \in [0..m -> Seq(S)] : Good(m, f)
  BY <1>4 DEF T
<1>6. \A i \in 0..m : i + m >= m
  OBVIOUS
<1>7. Jumps(f, m, B, J)
  BY <1>5, <1>6 DEF Jumps
<1> QED BY <1>7

Then(d, a) == <<d>> \o a
Marked(d, s) == [i \in 1..Len(s) |-> <<d>> \o s[i]]
Mark(d, s) == [i \in DOMAIN s |-> IF i = 1 THEN s[i] ELSE <<d>> \o s[i]]

\* Sequences with a delimiter in front of each.
LEMMA MarkedIs ==
  ASSUME NEW d \in Chars, NEW s \in Seq(Seq(Chars))
  PROVE  Marked(d, s) \in Seq(Seq(Chars))
<1>1. Len(s) \in Nat /\ \A i \in 1..Len(s) : s[i] \in Seq(Chars)
  OBVIOUS
<1>2. <<d>> \in Seq(Chars)
  OBVIOUS
<1>3. \A i \in 1..Len(s) : <<d>> \o s[i] \in Seq(Chars)
  BY <1>1, <1>2, ConcatProperties
<1> QED BY <1>1, <1>3 DEF Marked

\* Marks go to all but the first.
LEMMA MarkCons ==
  ASSUME NEW d \in Chars, NEW a \in Seq(Chars), NEW s \in Seq(Seq(Chars))
  PROVE  /\ Mark(d, <<a>> \o s) = <<a>> \o Marked(d, s)
         /\ Marked(d, <<a>> \o s) = <<Then(d, a)>> \o Marked(d, s)
<1> DEFINE S == Seq(Chars)
           n == Len(s)
           r == <<a>> \o s
           m == Marked(d, s)
           da == Then(d, a)
<1>1. n \in Nat /\ da \in S /\ a \in S /\ s \in Seq(S)
  BY DEF Then
<1>2. m \in Seq(S) /\ Len(m) = n /\ \A i \in 1..n : m[i] = <<d>> \o s[i]
  <2>1. m \in Seq(S)
    BY MarkedIs
  <2> QED BY <1>1, <2>1 DEF Marked
<1> HIDE DEF S, m, da
<1>3. r \in Seq(S) /\ Len(r) = n + 1 /\ r[1] = a /\ \A i \in 1..n : r[i+1] = s[i]
  BY <1>1, ConsIs
<1>4. /\ <<a>> \o m \in Seq(S) /\ Len(<<a>> \o m) = n + 1 /\ (<<a>> \o m)[1] = a
      /\ \A i \in 1..n : (<<a>> \o m)[i+1] = m[i]
  BY <1>1, <1>2, ConsIs
<1>5. /\ <<da>> \o m \in Seq(S) /\ Len(<<da>> \o m) = n + 1 /\ (<<da>> \o m)[1] = da
      /\ \A i \in 1..n : (<<da>> \o m)[i+1] = m[i]
  <2>1. da \in S /\ m \in Seq(S) /\ Len(m) = n
    BY <1>1, <1>2
  <2> QED BY <2>1, ConsIs
<1> HIDE DEF n, r
<1>6. DOMAIN r = 1 .. n+1 /\ 1 \in 1 .. n+1
  BY <1>1, <1>3
<1>7. ASSUME NEW i \in 1 .. n+1, i # 1
      PROVE  (<<a>> \o m)[i] = <<d>> \o r[i] /\ (<<da>> \o m)[i] = <<d>> \o r[i]
  <2> DEFINE j == i - 1
  <2>1. j \in 1..n /\ i = j + 1
    BY <1>1, <1>7
  <2> HIDE DEF j
  <2>2. (<<a>> \o m)[j+1] = m[j] /\ (<<da>> \o m)[j+1] = m[j] /\ m[j] = <<d>> \o s[j] /\ r[j+1] = s[j]
    BY <1>2, <1>3, <1>4, <1>5, <2>1
  <2> QED BY <2>1, <2>2
<1>8. ASSUME NEW i \in 1 .. n+1 PROVE Mark(d, r)[i] = (<<a>> \o m)[i] /\ Marked(d, r)[i] = (<<da>> \o m)[i]
  <2>1. Mark(d, r)[i] = (IF i = 1 THEN r[i] ELSE <<d>> \o r[i]) /\ Marked(d, r)[i] = <<d>> \o r[i]
    BY <1>3, <1>6 DEF Mark, Marked
  <2>2. CASE i = 1
    BY <1>3, <1>4, <1>5, <2>1, <2>2 DEF da, Then
  <2>3. CASE i # 1
    BY <1>7, <2>1, <2>3
  <2> QED BY <2>2, <2>3
<1>9. Mark(d, r) = <<a>> \o m
  <2> DEFINE u == Mark(d, r)
             v == <<a>> \o m
  <2>1. DOMAIN u = 1 .. n+1 /\ u = [i \in 1 .. n+1 |-> u[i]]
    BY <1>6 DEF Mark
  <2>2. DOMAIN v = 1 .. n+1 /\ v = [i \in 1 .. n+1 |-> v[i]]
    BY <1>4
  <2>3. \A i \in 1 .. n+1 : u[i] = v[i]
    BY <1>8
  <2> HIDE DEF u, v
  <2>4. u = v
    BY <2>1, <2>2, <2>3
  <2> QED BY <2>4 DEF u, v
<1>10. Marked(d, r) = <<da>> \o m
  <2> DEFINE u == Marked(d, r)
             v == <<da>> \o m
  <2>1. DOMAIN u = 1 .. n+1 /\ u = [i \in 1 .. n+1 |-> u[i]]
    BY <1>3 DEF Marked
  <2>2. DOMAIN v = 1 .. n+1 /\ v = [i \in 1 .. n+1 |-> v[i]]
    BY <1>5
  <2>3. \A i \in 1 .. n+1 : u[i] = v[i]
    BY <1>8
  <2> HIDE DEF u, v
  <2>4. u = v
    BY <2>1, <2>2, <2>3
  <2> QED BY <2>4 DEF u, v
<1> QED BY <1>9, <1>10 DEF r, m, da

\* One more piece in front of those joined by delimiters.
LEMMA DelimitedCons ==
  ASSUME NEW d \in Chars, NEW a \in Seq(Chars), NEW s \in Seq(Seq(Chars)), Len(s) > 0
  PROVE  /\ Str!Delimited(d, s) \in Seq(Chars)
         /\ Str!Delimited(d, <<a>> \o s) = a \o (<<d>> \o Str!Delimited(d, s))
<1> DEFINE S == Seq(Chars)
           x == s[1]
           t == Tail(s)
           m == Marked(d, t)
           f == Str!FlattenSeq(m)
<1>1. x \in S /\ t \in Seq(S) /\ s = <<x>> \o t /\ <<d>> \in Seq(Chars)
  <2>1. s \in Seq(S) /\ s # <<>>
    OBVIOUS
  <2>2. Len(s) \in Nat /\ 1 \in 1..Len(s)
    OBVIOUS
  <2>3. x \in S
    BY <2>1, <2>2
  <2> HIDE DEF S
  <2>4. t \in Seq(S) /\ Len(t) = Len(s) - 1 /\ \A i \in 1..Len(t) : t[i] = s[i+1]
    BY <2>1, HeadTailProperties
  <2> HIDE DEF x, t
  <2>5. /\ <<x>> \o t \in Seq(S) /\ Len(<<x>> \o t) = Len(t) + 1 /\ (<<x>> \o t)[1] = x
        /\ \A i \in 1..Len(t) : (<<x>> \o t)[i+1] = t[i]
    BY <2>3, <2>4, ConsIs
  <2> DEFINE b == <<x>> \o t
             n == Len(s)
  <2> HIDE DEF b
  <2>6. ASSUME NEW i \in 1..n PROVE b[i] = s[i]
    <3>1. CASE i = 1
      BY <2>5, <3>1 DEF b, x
    <3>2. CASE i # 1
      <4> DEFINE j == i - 1
      <4>1. j \in 1..Len(t) /\ j + 1 = i
        BY <2>2, <2>4, <3>2
      <4> HIDE DEF j
      <4>2. b[j+1] = t[j] /\ t[j] = s[j+1]
        BY <2>4, <2>5, <4>1 DEF b
      <4> QED BY <4>1, <4>2
    <3> QED BY <3>1, <3>2
  <2>7. b \in Seq(S) /\ Len(b) = Len(s)
    BY <2>2, <2>4, <2>5 DEF b
  <2>8. b = s
    BY <2>1, <2>6, <2>7, SeqEqual
  <2>9. <<d>> \in Seq(Chars)
    OBVIOUS
  <2> QED BY <2>3, <2>4, <2>8, <2>9 DEF b
<1>2. m \in Seq(S)
  BY <1>1, MarkedIs
<1> HIDE DEF x, t
<1>3. Mark(d, s) = <<x>> \o m /\ Marked(d, s) = <<Then(d, x)>> \o m
  <2>1. x \in Seq(Chars) /\ t \in Seq(Seq(Chars)) /\ s = <<x>> \o t
    BY <1>1
  <2>2. Mark(d, <<x>> \o t) = <<x>> \o m /\ Marked(d, <<x>> \o t) = <<Then(d, x)>> \o m
    BY <2>1, MarkCons
  <2> QED BY <2>1, <2>2
<1>4. Mark(d, <<a>> \o s) = <<a>> \o Marked(d, s) /\ Marked(d, s) \in Seq(S)
  <2>1. Mark(d, <<a>> \o s) = <<a>> \o Marked(d, s)
    BY MarkCons
  <2>2. Marked(d, s) \in Seq(S)
    BY MarkedIs DEF S
  <2> QED BY <2>1, <2>2
<1> DEFINE dx == Then(d, x)
           ms == Marked(d, s)
<1>5. dx \in Seq(Chars)
  BY <1>1, ConcatProperties DEF Then
<1> HIDE DEF m, dx, ms
<1>6. f \in Seq(Chars) /\ Str!FlattenSeq(<<x>> \o m) = x \o f /\ Str!FlattenSeq(<<dx>> \o m) = dx \o f
  BY <1>1, <1>2, <1>5, FlattenCons
<1>7. Str!FlattenSeq(<<a>> \o ms) = a \o Str!FlattenSeq(ms)
  BY <1>4, FlattenCons DEF ms
<1>8. Str!Delimited(d, s) = x \o f
  BY <1>3, <1>6 DEF Str!Delimited, Mark
<1>9. Str!Delimited(d, <<a>> \o s) = a \o (dx \o f)
  BY <1>3, <1>4, <1>6, <1>7 DEF Str!Delimited, Mark, dx, ms
<1> HIDE DEF f
<1>10. dx \o f = <<d>> \o (x \o f)
  BY <1>1, <1>6, ConcatAssociative DEF dx, Then
<1>11. x \o f \in Seq(Chars)
  BY <1>1, <1>6, ConcatProperties
<1> QED BY <1>8, <1>9, <1>10, <1>11

\* Nothing put together is nothing.
LEMMA FlattenEmpty == Str!FlattenSeq(<<>>) = <<>>
  BY DEF Str!FlattenSeq

\* One piece needs no delimiter.
LEMMA DelimitedOne ==
  ASSUME NEW d, NEW a \in Seq(Chars)
  PROVE  Str!Delimited(d, <<a>>) = a
<1> DEFINE s == <<a>>
<1>1. Len(s) = 1 /\ s[1] = a /\ DOMAIN s = 1..1
  OBVIOUS
<1>2. [i \in DOMAIN s |-> IF i = 1 THEN s[i] ELSE <<d>> \o s[i]] = s
  OBVIOUS
<1>3. <<>> \in Seq(Seq(Chars)) /\ <<a>> \o <<>> = <<a>>
  OBVIOUS
<1>4. Str!FlattenSeq(<<a>> \o <<>>) = a \o Str!FlattenSeq(<<>>)
  BY <1>3, FlattenCons
<1>5. a \o <<>> = a
  BY ConcatEmptySeq
<1> QED BY <1>2, <1>3, <1>4, <1>5, FlattenEmpty DEF Str!Delimited

\* The pieces that are not empty
Kept(a) == IF a = <<>> THEN <<>> ELSE <<a>>

\* One more piece in front of those that are not empty.
LEMMA NonEmptyCons ==
  ASSUME NEW a \in Seq(Chars), NEW s \in Seq(Seq(Chars))
  PROVE  Str!NonEmpty(<<a>> \o s) = Kept(a) \o Str!NonEmpty(s)
<1> DEFINE S == Seq(Chars)
           r == <<a>> \o s
           m == [i \in DOMAIN s |-> Kept(s[i])]
           n == Len(s)
           k == Kept(a)
<1>1. n \in Nat /\ a \in S /\ s \in Seq(S) /\ DOMAIN s = 1..n /\ \A i \in 1..n : s[i] \in S
  OBVIOUS
<1>2. \A y \in S : Kept(y) \in Seq(S)
  BY DEF Kept
<1> HIDE DEF S
<1>3. m \in Seq(Seq(S)) /\ Len(m) = n /\ \A i \in 1..n : m[i] = Kept(s[i])
  BY <1>1, <1>2
<1>4. k \in Seq(S)
  BY <1>1, <1>2
<1> HIDE DEF m, k, n
<1>5. r \in Seq(S) /\ Len(r) = n + 1 /\ r[1] = a /\ \A i \in 1..n : r[i+1] = s[i]
  BY <1>1, ConsIs DEF n
<1>6. /\ <<k>> \o m \in Seq(Seq(S)) /\ Len(<<k>> \o m) = n + 1 /\ (<<k>> \o m)[1] = k
      /\ \A i \in 1..n : (<<k>> \o m)[i+1] = m[i]
  <2> DEFINE Q == Seq(S)
  <2>1. k \in Q /\ m \in Seq(Q) /\ Len(m) = n
    BY <1>3, <1>4
  <2> HIDE DEF Q
  <2>2. /\ <<k>> \o m \in Seq(Q) /\ Len(<<k>> \o m) = n + 1 /\ (<<k>> \o m)[1] = k
        /\ \A i \in 1..n : (<<k>> \o m)[i+1] = m[i]
    BY <2>1, ConsIs
  <2> QED BY <2>2 DEF Q
<1> HIDE DEF r
<1>7. ASSUME NEW i \in 1 .. n+1 PROVE (<<k>> \o m)[i] = Kept(r[i])
  <2>1. CASE i = 1
    BY <1>5, <1>6, <2>1 DEF k
  <2>2. CASE i # 1
    <3> DEFINE j == i - 1
    <3>1. j \in 1..n /\ i = j + 1
      BY <1>1, <2>2
    <3> HIDE DEF j
    <3>2. (<<k>> \o m)[j+1] = m[j] /\ m[j] = Kept(s[j]) /\ r[j+1] = s[j]
      BY <1>3, <1>5, <1>6, <3>1
    <3> QED BY <3>1, <3>2
  <2> QED BY <2>1, <2>2
<1>8. [i \in DOMAIN r |-> Kept(r[i])] = <<k>> \o m
  <2> DEFINE v == <<k>> \o m
  <2>1. DOMAIN r = 1 .. n+1
    BY <1>1, <1>5
  <2>2. v = [i \in 1 .. n+1 |-> v[i]]
    BY <1>6
  <2>3. \A i \in 1 .. n+1 : v[i] = Kept(r[i])
    BY <1>7
  <2> HIDE DEF v
  <2>4. [i \in 1 .. n+1 |-> Kept(r[i])] = v
    BY <2>2, <2>3
  <2> QED BY <2>1, <2>4 DEF v
<1>9. Str!FlattenSeq(<<k>> \o m) = k \o Str!FlattenSeq(m)
  BY <1>3, <1>4, FlattenCons
<1>10. Str!NonEmpty(r) = Str!FlattenSeq([i \in DOMAIN r |-> Kept(r[i])])
  BY DEF Str!NonEmpty, Kept
<1>11. Str!NonEmpty(s) = Str!FlattenSeq(m)
  BY DEF Str!NonEmpty, Kept, m
<1> QED BY <1>8, <1>9, <1>10, <1>11 DEF r, k

\* One piece, when it is not empty.
LEMMA NonEmptyOne ==
  ASSUME NEW a \in Seq(Chars)
  PROVE  Str!NonEmpty(<<a>>) = Kept(a)
<1>1. <<>> \in Seq(Seq(Chars)) /\ <<a>> \o <<>> = <<a>>
  OBVIOUS
<1>2. Str!NonEmpty(<<a>> \o <<>>) = Kept(a) \o Str!NonEmpty(<<>>)
  BY <1>1, NonEmptyCons
<1>3. Str!NonEmpty(<<>>) = <<>>
  <2>1. [i \in DOMAIN (<<>>) |-> IF (<<>>)[i] = <<>> THEN <<>> ELSE <<(<<>>)[i]>>] = <<>>
    OBVIOUS
  <2> QED BY <2>1, FlattenEmpty DEF Str!NonEmpty
<1>4. Kept(a) \o <<>> = Kept(a)
  BY DEF Kept
<1> QED BY <1>1, <1>2, <1>3, <1>4

\* Pieces that are not empty are pieces.
LEMMA NonEmptyType ==
  ASSUME NEW s \in Seq(Seq(Chars))
  PROVE  Str!NonEmpty(s) \in Seq(Seq(Chars))
<1> DEFINE S == Seq(Chars)
           m == [i \in DOMAIN s |-> Kept(s[i])]
           n == Len(s)
<1>1. n \in Nat /\ DOMAIN s = 1..n /\ \A i \in 1..n : s[i] \in S
  OBVIOUS
<1>2. \A y \in S : Kept(y) \in Seq(S)
  BY DEF Kept
<1> HIDE DEF S
<1>3. m \in Seq(Seq(S))
  BY <1>1, <1>2
<1> HIDE DEF m
<1>4. Str!FlattenSeq(m) \in Seq(S)
  <2>1. PICK h : Grows(h, S, m)
    BY <1>3, Growing
  <2>2. Str!FlattenSeq(m) = h[Len(m)] /\ Len(m) \in 0..Len(m)
    BY <1>3, <2>1, FlattenIs
  <2> QED BY <2>1, <2>2 DEF Grows
<1> QED BY <1>4 DEF Str!NonEmpty, Kept, m, S

\* Where the next delimiter is, and the next character that is none
LEMMA NextDelimiter ==
  ASSUME StrInv, NEW d \in Chars, NEW i \in 0..m_size
  PROVE  LET it == Str!findFirstOf({d}, i) IN
         IF it # npos THEN it \in i..m_size-1 /\ str[it+1] = d /\ \A k \in i+1..it : str[k] # d
         ELSE \A k \in i+1..m_size : str[k] # d
<1> DEFINE it == Str!findFirstOf({d}, i)
           D == Among({d})
<1>1. m_size \in Nat /\ i \in Nat
  BY StrFacts
<1>2. FirstAt(it, i, D) /\ (it # npos => it \in Nat)
  BY <1>1, FindOfAgrees
<1>3. \A k \in Nat : k \in D <=> k \in 0..m_size-1 /\ str[k+1] = d
  BY <1>1 DEF Among
<1> HIDE DEF it, D
<1>4. CASE it # npos
  <2>1. it \in D /\ it >= i /\ it \in Nat /\ \A k \in i .. it-1 : k \notin D
    BY <1>2, <1>4 DEF FirstAt
  <2>2. it \in i..m_size-1 /\ str[it+1] = d
    BY <1>1, <1>3, <2>1
  <2>3. ASSUME NEW k \in i+1..it PROVE str[k] # d
    <3> DEFINE j == k - 1
    <3>1. j \in i .. it-1 /\ j \in Nat /\ j \in 0..m_size-1 /\ j + 1 = k
      BY <1>1, <2>1, <2>2
    <3> HIDE DEF j
    <3> QED BY <1>3, <2>1, <3>1
  <2> QED BY <1>4, <2>2, <2>3 DEF it
<1>5. CASE it = npos
  <2>1. \A k \in Nat : k >= i => k \notin D
    BY <1>2, <1>5 DEF FirstAt
  <2>2. ASSUME NEW k \in i+1..m_size PROVE str[k] # d
    <3> DEFINE j == k - 1
    <3>1. j >= i /\ j \in Nat /\ j \in 0..m_size-1 /\ j + 1 = k
      BY <1>1
    <3> HIDE DEF j
    <3> QED BY <1>3, <2>1, <3>1
  <2> QED BY <1>5, <2>2 DEF it
<1> QED BY <1>4, <1>5

\* The next character that is not a delimiter.
LEMMA NextOther ==
  ASSUME StrInv, NEW d \in Chars, NEW i \in 0..m_size
  PROVE  LET first == Str!findFirstNotOf({d}, i) IN
         /\ first # npos => first \in i..m_size-1 /\ str[first+1] # d
         /\ i = m_size => first = npos
         /\ i < m_size /\ str[i+1] # d => first = i
         /\ i < m_size /\ str[i+1] = d => first = Str!findFirstNotOf({d}, i+1)
<1> DEFINE first == Str!findFirstNotOf({d}, i)
           D == Others({d})
<1>1. m_size \in Nat /\ i \in Nat /\ m_size < npos /\ npos \in Nat
  BY StrFacts
<1>2. FirstAt(first, i, D) /\ (first # npos => first \in Nat)
  BY <1>1, FindOfAgrees
<1>3. \A k \in Nat : k \in D <=> k \in 0..m_size-1 /\ str[k+1] # d
  BY <1>1 DEF Others
<1>4. ASSUME i < m_size, str[i+1] = d PROVE first = Str!findFirstNotOf({d}, i+1)
  <2>1. Str!At(i) = d
    BY <1>1, <1>4, StrFacts
  <2>2. {k \in i .. m_size - 1 : Str!At(k) \notin {d}} = {k \in i+1 .. m_size - 1 : Str!At(k) \notin {d}}
    <3>1. \A k \in i .. m_size - 1 : k = i \/ k \in i+1 .. m_size - 1
      BY <1>1
    <3>2. \A k \in i+1 .. m_size - 1 : k \in i .. m_size - 1
      BY <1>1
    <3> QED BY <2>1, <3>1, <3>2
  <2> QED BY <2>2 DEF Str!findFirstNotOf
<1> HIDE DEF first, D
<1>5. first # npos => first \in i..m_size-1 /\ str[first+1] # d
  <2>1. first # npos => first \in D /\ first >= i /\ first \in Nat
    BY <1>2 DEF FirstAt
  <2> QED BY <1>1, <1>3, <2>1
<1>6. i = m_size => first = npos
  BY <1>1, <1>5
<1>7. i < m_size /\ str[i+1] # d => first = i
  <2> SUFFICES ASSUME i < m_size, str[i+1] # d PROVE first = i
    OBVIOUS
  <2>1. i \in D
    BY <1>1, <1>3
  <2>2. first # npos /\ first >= i /\ first \in Nat /\ \A k \in i .. first-1 : k \notin D
    BY <1>1, <1>2, <2>1 DEF FirstAt
  <2>3. i \notin i .. first-1
    BY <2>1, <2>2
  <2> QED BY <1>1, <2>2, <2>3
<1> QED BY <1>4, <1>5, <1>6, <1>7 DEF first

\* A piece is the part of the string between two places.
LEMMA PieceIs ==
  ASSUME StrInv, NEW a \in 0..m_size, NEW b \in a..m_size
  PROVE  Str!Piece(a, b) = Part(str, a, b - a) /\ Part(str, a, b - a) \in Seq(Chars)
<1>1. m_size \in Nat /\ m_start \in Nat /\ m_start + m_size <= Len(text) /\ text \in Seq(Chars) /\ str \in Seq(Chars) /\ Len(str) = m_size
  BY StrFacts DEF StrInv
<1> DEFINE k == b - a
<1>2. a \in Nat /\ b \in Nat /\ k \in Nat /\ a + k = b /\ a + k <= m_size
  BY <1>1
<1> HIDE DEF k
<1>3. Part(str, a, k) = Part(text, m_start + a, k)
  BY <1>1, <1>2, PartOfPart DEF StrInv
<1>4. (m_start + a) + k = m_start + b
  BY <1>1, <1>2
<1>5. Part(text, m_start + a, k) = Str!Piece(a, b)
  BY <1>4 DEF Part, Str!Piece
<1>6. Part(str, a, k) \in Seq(Chars)
  BY <1>1, <1>2, PartIs
<1> QED BY <1>3, <1>5, <1>6 DEF k

\* What the recursive definitions of the two splits say
SplitFrom(p, d) == \A i \in 0..m_size :
    LET it == Str!findFirstOf({d}, i)
    IN p[i] = IF i >= m_size THEN << <<>> >>
              ELSE IF it # npos THEN <<Str!Piece(i, it)>> \o p[it + 1]
              ELSE <<Str!Piece(i, m_size)>>
RestFrom(q, d) == \A i \in 0..m_size :
    LET first == Str!findFirstNotOf({d}, i)
        it    == Str!findFirstOf({d}, first)
    IN q[i] = IF first = npos THEN <<>>
              ELSE IF it # npos THEN <<Str!Piece(first, it)>> \o q[it + 1]
              ELSE <<Str!Piece(first, m_size)>>

\* What split computes, from each place of the string on.
LEMMA SplitIs ==
  ASSUME StrInv, NEW d \in Chars
  PROVE  \E p : p[0] = Str!split(d) /\ SplitFrom(p, d)
<1> DEFINE S == Seq(Chars)
           B == [i \in 0..npos |-> LET it == Str!findFirstOf({d}, i) IN
                     IF i >= m_size THEN << <<>> >>
                     ELSE IF it # npos THEN <<Str!Piece(i, it)>> ELSE <<Str!Piece(i, m_size)>>]
           J == [i \in 0..npos |-> LET it == Str!findFirstOf({d}, i) IN
                     IF i < m_size /\ it # npos THEN it + 1 ELSE 0]
           Def(g) == g = [i \in 0..npos |-> LET it == Str!findFirstOf({d}, i) IN
                     IF i >= m_size THEN << <<>> >>
                     ELSE IF Str!Found(it) THEN <<Str!Piece(i, it)>> \o g[it + 1]
                     ELSE <<Str!Piece(i, m_size)>>]
<1>1. m_size \in Nat /\ m_size < npos /\ npos \in Nat
  BY StrFacts
<1>2. ASSUME NEW i \in 0..npos
      PROVE  B[i] \in Seq(S) /\ J[i] \in Nat /\ (J[i] = 0 \/ J[i] \in i+1 .. npos)
  <2> DEFINE it == Str!findFirstOf({d}, i)
  <2>0. /\ B[i] = IF i >= m_size THEN << <<>> >>
                  ELSE IF it # npos THEN <<Str!Piece(i, it)>> ELSE <<Str!Piece(i, m_size)>>
        /\ J[i] = IF i < m_size /\ it # npos THEN it + 1 ELSE 0
    OBVIOUS
  <2> HIDE DEF B, J, it
  <2>1. CASE i >= m_size
    <3>1. <<>> \in S
      OBVIOUS
    <3> HIDE DEF S
    <3>2. << <<>> >> \in Seq(S)
      BY <3>1
    <3> QED BY <1>1, <2>0, <2>1, <3>2
  <2>2. CASE i < m_size /\ it # npos
    <3>1. it \in i..m_size-1 /\ i \in 0..m_size /\ it \in i..m_size
      BY <1>1, <2>2, NextDelimiter DEF it
    <3>2. Str!Piece(i, it) \in S
      BY <3>1, PieceIs
    <3> HIDE DEF S
    <3>3. B[i] \in Seq(S)
      <4>1. B[i] = <<Str!Piece(i, it)>>
        BY <1>1, <2>0, <2>2
      <4> QED BY <3>2, <4>1
    <3>4. J[i] \in i+1 .. npos /\ J[i] \in Nat
      BY <1>1, <2>0, <2>2, <3>1
    <3> QED BY <3>3, <3>4
  <2>3. CASE i < m_size /\ it = npos
    <3>1. i \in 0..m_size /\ m_size \in i..m_size
      BY <1>1, <2>3
    <3>2. Str!Piece(i, m_size) \in S
      BY <3>1, PieceIs
    <3> HIDE DEF S
    <3>3. B[i] = <<Str!Piece(i, m_size)>> /\ J[i] = 0
      BY <1>1, <2>0, <2>3
    <3> QED BY <3>2, <3>3
  <2> QED BY <1>1, <2>1, <2>2, <2>3
<1>3. /\ \A i \in 0..npos : LET it == Str!findFirstOf({d}, i) IN
           /\ B[i] = IF i >= m_size THEN << <<>> >>
                     ELSE IF it # npos THEN <<Str!Piece(i, it)>> ELSE <<Str!Piece(i, m_size)>>
           /\ J[i] = IF i < m_size /\ it # npos THEN it + 1 ELSE 0
      /\ DOMAIN B = 0..npos /\ DOMAIN J = 0..npos /\ B = [i \in 0..npos |-> B[i]] /\ J = [i \in 0..npos |-> J[i]]
  OBVIOUS
<1> HIDE DEF B, J, S
<1>4. B \in [0..npos -> Seq(S)] /\ J \in [0..npos -> Nat]
  BY <1>2, <1>3
<1>5. PICK f \in [0..npos -> Seq(S)] : Jumps(f, npos, B, J)
  BY <1>1, <1>2, <1>4, JumpRecursion
<1>6. ASSUME NEW i \in 0..npos
      PROVE  LET it == Str!findFirstOf({d}, i) IN
             f[i] = IF i >= m_size THEN << <<>> >>
                    ELSE IF Str!Found(it) THEN <<Str!Piece(i, it)>> \o f[it + 1]
                    ELSE <<Str!Piece(i, m_size)>>
  <2> DEFINE it == Str!findFirstOf({d}, i)
  <2>1. f[i] = IF J[i] = 0 THEN B[i] ELSE B[i] \o f[J[i]]
    BY <1>5 DEF Jumps
  <2>2. /\ B[i] = IF i >= m_size THEN << <<>> >>
                  ELSE IF it # npos THEN <<Str!Piece(i, it)>> ELSE <<Str!Piece(i, m_size)>>
        /\ J[i] = IF i < m_size /\ it # npos THEN it + 1 ELSE 0
    BY <1>3
  <2>3. Str!Found(it) <=> it # npos
    BY DEF Str!Found
  <2>4. i < m_size /\ it # npos => it + 1 # 0
    <3>1. i < m_size => i \in 0..m_size
      BY <1>1
    <3>2. i < m_size /\ it # npos => it \in i..m_size-1
      BY <3>1, NextDelimiter
    <3> QED BY <1>1, <3>2
  <2>5. i < m_size <=> ~(i >= m_size)
    BY <1>1
  <2> HIDE DEF it
  <2>6. f[i] = IF i >= m_size THEN << <<>> >>
               ELSE IF Str!Found(it) THEN <<Str!Piece(i, it)>> \o f[it + 1]
               ELSE <<Str!Piece(i, m_size)>>
    BY <2>1, <2>2, <2>3, <2>4, <2>5
  <2> QED BY <2>6 DEF it
<1>7. Def(f)
  BY <1>5, <1>6
<1> DEFINE s == CHOOSE g : Def(g)
<1>8. Def(s)
  BY <1>7
<1>9. Str!split(d) = s[0]
  BY DEF Str!split
<1>10. \A i \in 0..m_size : i \in 0..npos
  BY <1>1
<1>11. SplitFrom(s, d)
  BY <1>8, <1>10 DEF SplitFrom, Str!Found
<1> QED BY <1>9, <1>11

\* What splitNoAllowEmpty computes, from each place of the string on.
LEMMA RestIs ==
  ASSUME StrInv, NEW d \in Chars
  PROVE  \E q : q[0] = Str!splitNoAllowEmpty(d) /\ RestFrom(q, d)
<1> DEFINE S == Seq(Chars)
           Fst(i) == Str!findFirstNotOf({d}, i)
           It(i) == Str!findFirstOf({d}, Fst(i))
           B == [i \in 0..npos |-> IF Fst(i) = npos THEN <<>>
                     ELSE IF It(i) # npos THEN <<Str!Piece(Fst(i), It(i))>> ELSE <<Str!Piece(Fst(i), m_size)>>]
           J == [i \in 0..npos |-> IF Fst(i) # npos /\ It(i) # npos THEN It(i) + 1 ELSE 0]
           Def(g) == g = [i \in 0..npos |->
                     LET first == Str!findFirstNotOf({d}, i)
                         it    == Str!findFirstOf({d}, first)
                     IN IF ~Str!Found(first) THEN <<>>
                        ELSE IF Str!Found(it) THEN <<Str!Piece(first, it)>> \o g[it + 1]
                        ELSE <<Str!Piece(first, m_size)>>]
<1>1. m_size \in Nat /\ m_size < npos /\ npos \in Nat
  BY StrFacts
<1>2. ASSUME NEW i \in 0..npos, Fst(i) # npos
      PROVE  Fst(i) \in i..m_size-1 /\ (It(i) # npos => It(i) \in Fst(i)..m_size-1)
  <2> DEFINE first == Fst(i)
             D == Others({d})
  <2>1. i \in Nat
    BY <1>1
  <2>2. first \in Nat /\ first \in D /\ first >= i
    BY <1>2, <2>1, FindOfAgrees DEF FirstAt
  <2>3. first \in i..m_size-1
    BY <1>1, <2>1, <2>2 DEF Others
  <2>4. first \in 0..m_size
    BY <1>1, <2>3
  <2> HIDE DEF first
  <2>5. Str!findFirstOf({d}, first) # npos => Str!findFirstOf({d}, first) \in first..m_size-1
    BY <2>4, NextDelimiter
  <2> QED BY <2>3, <2>5 DEF first
<1>3. ASSUME NEW i \in 0..npos
      PROVE  B[i] \in Seq(S) /\ J[i] \in Nat /\ (J[i] = 0 \/ J[i] \in i+1 .. npos)
  <2> DEFINE first == Fst(i)
             it == It(i)
  <2>0. /\ B[i] = IF first = npos THEN <<>>
                  ELSE IF it # npos THEN <<Str!Piece(first, it)>> ELSE <<Str!Piece(first, m_size)>>
        /\ J[i] = IF first # npos /\ it # npos THEN it + 1 ELSE 0
        /\ first # npos => first \in i..m_size-1 /\ (it # npos => it \in first..m_size-1)
    BY <1>2
  <2> HIDE DEF B, J, it, first
  <2>1. CASE first = npos
    BY <2>0, <2>1
  <2>2. CASE first # npos /\ it # npos
    <3>1. it \in first..m_size /\ first \in 0..m_size
      BY <1>1, <2>0, <2>2
    <3>2. Str!Piece(first, it) \in S
      BY <3>1, PieceIs
    <3> HIDE DEF S
    <3>3. B[i] \in Seq(S)
      <4>1. B[i] = <<Str!Piece(first, it)>>
        BY <2>0, <2>2
      <4> QED BY <3>2, <4>1
    <3>4. J[i] \in i+1 .. npos /\ J[i] \in Nat
      BY <1>1, <2>0, <2>2
    <3> QED BY <3>3, <3>4
  <2>3. CASE first # npos /\ it = npos
    <3>1. first \in 0..m_size /\ m_size \in first..m_size
      BY <1>1, <2>0, <2>3
    <3>2. Str!Piece(first, m_size) \in S
      BY <3>1, PieceIs
    <3> HIDE DEF S
    <3>3. B[i] = <<Str!Piece(first, m_size)>> /\ J[i] = 0
      BY <2>0, <2>3
    <3> QED BY <3>2, <3>3
  <2> QED BY <2>1, <2>2, <2>3
<1>4. /\ \A i \in 0..npos :
           /\ B[i] = IF Fst(i) = npos THEN <<>>
                     ELSE IF It(i) # npos THEN <<Str!Piece(Fst(i), It(i))>> ELSE <<Str!Piece(Fst(i), m_size)>>
           /\ J[i] = IF Fst(i) # npos /\ It(i) # npos THEN It(i) + 1 ELSE 0
      /\ B = [i \in 0..npos |-> B[i]] /\ J = [i \in 0..npos |-> J[i]]
  OBVIOUS
<1> HIDE DEF B, J, S
<1>5. B \in [0..npos -> Seq(S)] /\ J \in [0..npos -> Nat]
  BY <1>3, <1>4
<1>6. PICK f \in [0..npos -> Seq(S)] : Jumps(f, npos, B, J)
  BY <1>1, <1>3, <1>5, JumpRecursion
<1>7. ASSUME NEW i \in 0..npos
      PROVE  f[i] = IF ~Str!Found(Fst(i)) THEN <<>>
                    ELSE IF Str!Found(It(i)) THEN <<Str!Piece(Fst(i), It(i))>> \o f[It(i) + 1]
                    ELSE <<Str!Piece(Fst(i), m_size)>>
  <2> DEFINE first == Fst(i)
             it == It(i)
  <2>1. f[i] = IF J[i] = 0 THEN B[i] ELSE B[i] \o f[J[i]]
    BY <1>6 DEF Jumps
  <2>2. /\ B[i] = IF first = npos THEN <<>>
                  ELSE IF it # npos THEN <<Str!Piece(first, it)>> ELSE <<Str!Piece(first, m_size)>>
        /\ J[i] = IF first # npos /\ it # npos THEN it + 1 ELSE 0
        /\ first # npos => first \in i..m_size-1 /\ (it # npos => it \in first..m_size-1)
    BY <1>2, <1>4
  <2>3. (Str!Found(it) <=> it # npos) /\ (Str!Found(first) <=> first # npos)
    BY DEF Str!Found
  <2> HIDE DEF it, first
  <2>4. first # npos /\ it # npos => it + 1 # 0
    BY <1>1, <2>2
  <2>6. f[i] = IF ~Str!Found(first) THEN <<>>
               ELSE IF Str!Found(it) THEN <<Str!Piece(first, it)>> \o f[it + 1]
               ELSE <<Str!Piece(first, m_size)>>
    BY <2>1, <2>2, <2>3, <2>4
  <2> QED BY <2>6 DEF it, first
<1>8. Def(f)
  BY <1>6, <1>7
<1> DEFINE s == CHOOSE g : Def(g)
<1>9. Def(s)
  BY <1>8
<1>10. Str!splitNoAllowEmpty(d) = s[0]
  BY DEF Str!splitNoAllowEmpty
<1>11. \A i \in 0..m_size : i \in 0..npos
  BY <1>1
<1>12. RestFrom(s, d)
  BY <1>9, <1>11 DEF RestFrom, Str!Found
<1> QED BY <1>10, <1>12

\* A place between two others divides a part of the string, and the character there
\* belongs to neither half.
LEMMA PartsAround ==
  ASSUME NEW S, NEW s \in Seq(S), NEW i \in Nat, NEW j \in Nat, i <= j, j < Len(s)
  PROVE  Part(s, i, Len(s) - i) = Part(s, i, j - i) \o (<<s[j+1]>> \o Part(s, j + 1, Len(s) - (j + 1)))
<1> DEFINE n == Len(s)
           a == Part(s, i, j - i)
           c == <<s[j+1]>>
           b == Part(s, j + 1, n - (j + 1))
           w == Part(s, i, n - i)
           e == j + 1
           k == j - i
           l == n - e
           m == n - i
<1>1. n \in Nat /\ e \in Nat /\ k \in Nat /\ l \in Nat /\ m \in Nat /\ i + k <= n /\ e + l <= n /\ i + m <= n
      /\ m = k + (1 + l) /\ i + k + 1 = e
  OBVIOUS
<1>2. e \in 1..n /\ s[e] \in S
  BY <1>1
<1> HIDE DEF e, k, l, m
<1>0. i + k <= Len(s) /\ e + l <= Len(s) /\ i + m <= Len(s)
  BY <1>1
<1> HIDE DEF n
<1>3. a \in Seq(S) /\ Len(a) = k /\ \A x \in 1..k : a[x] = s[i + x]
  <2>1. Part(s, i, k) \in Seq(S) /\ Len(Part(s, i, k)) = k /\ \A x \in 1..k : Part(s, i, k)[x] = s[i + x]
    BY <1>0, <1>1, PartIs
  <2> QED BY <2>1 DEF k
<1>4. b \in Seq(S) /\ Len(b) = l /\ \A x \in 1..l : b[x] = s[e + x]
  <2>1. Part(s, e, l) \in Seq(S) /\ Len(Part(s, e, l)) = l /\ \A x \in 1..l : Part(s, e, l)[x] = s[e + x]
    BY <1>0, <1>1, PartIs
  <2>2. b = Part(s, e, l)
    BY DEF e, l, n
  <2> HIDE DEF b
  <2> QED BY <2>1, <2>2
<1>5. w \in Seq(S) /\ Len(w) = m /\ \A x \in 1..m : w[x] = s[i + x]
  <2>1. Part(s, i, m) \in Seq(S) /\ Len(Part(s, i, m)) = m /\ \A x \in 1..m : Part(s, i, m)[x] = s[i + x]
    BY <1>0, <1>1, PartIs
  <2>2. w = Part(s, i, m)
    BY DEF m, n
  <2> HIDE DEF w
  <2> QED BY <2>1, <2>2
<1>6. c = <<s[e]>>
  BY DEF e
<1> HIDE DEF a, b, c, w
<1> DEFINE t == c \o b
           r == a \o t
<1>7. t \in Seq(S) /\ Len(t) = l + 1 /\ t[1] = s[e] /\ \A x \in 1..l : t[x+1] = b[x]
  BY <1>2, <1>4, <1>6, ConsIs
<1> HIDE DEF t
<1>8. /\ r \in Seq(S) /\ Len(r) = k + Len(t)
      /\ \A x \in 1 .. k + Len(t) : r[x] = IF x <= k THEN a[x] ELSE t[x - k]
  BY <1>3, <1>7, ConcatProperties
<1> HIDE DEF r
<1>9. ASSUME NEW x \in 1..m PROVE w[x] = r[x]
  <2>1. x \in 1 .. k + Len(t) /\ w[x] = s[i + x]
    BY <1>1, <1>5, <1>7
  <2>2. CASE x <= k
    <3>1. x \in 1..k
      BY <2>2
    <3> QED BY <1>3, <1>8, <2>1, <2>2, <3>1
  <2>3. CASE x = k + 1
    <3>1. ~(x <= k) /\ x - k = 1 /\ i + x = e
      BY <1>1, <2>3
    <3> QED BY <1>7, <1>8, <2>1, <3>1
  <2>4. CASE x > k + 1
    <3> DEFINE y == x - k - 1
    <3>1. y \in 1..l /\ ~(x <= k) /\ x - k = y + 1 /\ i + x = e + y
      BY <1>1, <2>4
    <3> HIDE DEF y
    <3>2. r[x] = t[y+1] /\ t[y+1] = b[y] /\ b[y] = s[e + y]
      BY <1>4, <1>7, <1>8, <2>1, <3>1
    <3> QED BY <2>1, <3>1, <3>2
  <2>5. x \in Int /\ k \in Int
    BY <1>1
  <2>6. x <= k \/ x = k + 1 \/ x > k + 1
    BY <2>5
  <2> QED BY <2>2, <2>3, <2>4, <2>6
<1>10. Len(r) = m
  BY <1>1, <1>7, <1>8
<1>11. w = r
  BY <1>5, <1>8, <1>9, <1>10, SeqEqual
<1> QED BY <1>11 DEF w, r, t, a, b, c, n

Delimiters(d, i) == {k \in i+1..m_size : str[k] = d}

\* The delimiters from a place on are one less behind the next one.
LEMMA DelimitersFrom ==
  ASSUME StrInv, NEW d \in Chars, NEW i \in 0..m_size
  PROVE  /\ IsFiniteSet(Delimiters(d, i)) /\ Cardinality(Delimiters(d, i)) \in Nat
         /\ (\A k \in i+1..m_size : str[k] # d) => Cardinality(Delimiters(d, i)) = 0
         /\ \A it \in i..m_size-1 : str[it+1] = d /\ (\A k \in i+1..it : str[k] # d)
              => Cardinality(Delimiters(d, i)) = Cardinality(Delimiters(d, it+1)) + 1
<1>1. m_size \in Nat /\ i \in Nat
  BY StrFacts
<1>2. ASSUME NEW j \in Nat PROVE IsFiniteSet(Delimiters(d, j))
  <2>1. IsFiniteSet(j+1..m_size)
    BY <1>1, FS_Interval
  <2>2. Delimiters(d, j) \subseteq j+1..m_size
    BY DEF Delimiters
  <2> QED BY <2>1, <2>2, FS_Subset
<1>3. ASSUME \A k \in i+1..m_size : str[k] # d PROVE Cardinality(Delimiters(d, i)) = 0
  <2>1. Delimiters(d, i) = {}
    BY <1>3 DEF Delimiters
  <2> QED BY <2>1, FS_EmptySet
<1>4. ASSUME NEW it \in i..m_size-1, str[it+1] = d, \A k \in i+1..it : str[k] # d
      PROVE  Cardinality(Delimiters(d, i)) = Cardinality(Delimiters(d, it+1)) + 1
  <2>1. it + 1 \in Nat /\ it + 1 \in i+1..m_size
    BY <1>1
  <2>2. it + 1 \notin Delimiters(d, it+1)
    BY <1>1, <2>1 DEF Delimiters
  <2>3. ASSUME NEW k PROVE k \in Delimiters(d, i) <=> k \in Delimiters(d, it+1) \cup {it + 1}
    <3>1. CASE k \in i+1..m_size
      <4>1. k \in i+1..it \/ k = it + 1 \/ k \in it+1+1..m_size
        BY <1>1, <3>1
      <4>2. k \in i+1..it => k \notin it+1+1..m_size /\ k # it + 1
        BY <1>1
      <4> QED BY <1>4, <3>1, <4>1, <4>2 DEF Delimiters
    <3>2. CASE k \notin i+1..m_size
      <4>1. k \notin it+1+1..m_size /\ k # it + 1
        BY <1>1, <2>1, <3>2
      <4> QED BY <3>2, <4>1 DEF Delimiters
    <3> QED BY <3>1, <3>2
  <2>4. Delimiters(d, i) = Delimiters(d, it+1) \cup {it + 1}
    BY <2>3
  <2>5. IsFiniteSet(Delimiters(d, it+1))
    BY <1>2, <2>1
  <2> QED BY <2>2, <2>4, <2>5, FS_AddElement
<1>5. Cardinality(Delimiters(d, i)) \in Nat /\ IsFiniteSet(Delimiters(d, i))
  BY <1>1, <1>2, FS_CardinalityType
<1> QED BY <1>3, <1>4, <1>5

\* What is left of the string from i on is what its pieces are made of.
SplitSound(p, q, d, i) ==
    /\ p \in Seq(Seq(Chars)) /\ Len(p) = 1 + Cardinality(Delimiters(d, i))
    /\ Str!Delimited(d, p) = Part(str, i, m_size - i)
    /\ q = Str!NonEmpty(p)

\* Both splits are sound from each place on: induction from the end of the string.
LEMMA SplitFromEnd ==
  ASSUME StrInv, NEW d \in Chars, NEW p, SplitFrom(p, d), NEW q, RestFrom(q, d)
  PROVE  \A i \in 0..m_size : SplitSound(p[i], q[i], d, i)
<1> DEFINE Bad == {i \in 0..m_size : ~SplitSound(p[i], q[i], d, i)}
<1>1. /\ m_size \in Nat /\ m_size < npos /\ npos \in Nat
      /\ str \in Seq(Chars) /\ Len(str) = m_size
  BY StrFacts
<1>2. SUFFICES ASSUME Bad # {} PROVE FALSE
  OBVIOUS
<1>3. PICK i \in Bad : \A j \in Bad : i >= j
  <2>1. Bad \in SUBSET Nat /\ \A x \in Bad : x <= m_size
    BY <1>1
  <2> HIDE DEF Bad
  <2> QED BY <1>1, <1>2, <2>1, Greatest
<1>4. i \in 0..m_size /\ i \in Nat /\ ~SplitSound(p[i], q[i], d, i)
      /\ \A j \in i+1..m_size : SplitSound(p[j], q[j], d, j)
  <2>1. \A j \in i+1..m_size : j \in 0..m_size /\ ~(i >= j)
    BY <1>1
  <2> QED BY <1>1, <1>3, <2>1
<1> HIDE DEF Bad
<1> DEFINE it == Str!findFirstOf({d}, i)
           first == Str!findFirstNotOf({d}, i)
           a == Part(str, i, it - i)
           w == Part(str, i, m_size - i)
<1>5. /\ IF it # npos THEN it \in i..m_size-1 /\ str[it+1] = d /\ \A k \in i+1..it : str[k] # d
         ELSE \A k \in i+1..m_size : str[k] # d
      /\ i = m_size => first = npos
      /\ i < m_size /\ str[i+1] # d => first = i
      /\ i < m_size /\ str[i+1] = d => first = Str!findFirstNotOf({d}, i+1)
  BY <1>4, NextDelimiter, NextOther
<1>6. /\ p[i] = IF i >= m_size THEN << <<>> >>
                ELSE IF it # npos THEN <<Str!Piece(i, it)>> \o p[it + 1] ELSE <<Str!Piece(i, m_size)>>
      /\ q[i] = LET next == Str!findFirstOf({d}, first) IN
                IF first = npos THEN <<>>
                ELSE IF next # npos THEN <<Str!Piece(first, next)>> \o q[next + 1] ELSE <<Str!Piece(first, m_size)>>
  BY <1>4 DEF SplitFrom, RestFrom
<1>7. w \in Seq(Chars) /\ Str!Piece(i, m_size) = w /\ Len(w) = m_size - i
  <2>1. m_size \in i..m_size /\ m_size - i \in Nat /\ i + (m_size - i) <= Len(str)
    BY <1>1, <1>4
  <2>2. Str!Piece(i, m_size) = w /\ w \in Seq(Chars)
    BY <1>4, <2>1, PieceIs
  <2>3. Len(w) = m_size - i
    BY <1>1, <1>4, <2>1, PartIs
  <2> QED BY <2>2, <2>3
<1> HIDE DEF it, first, w
\* At the end there is an empty piece left.
<1>8. CASE i = m_size
  <2>1. p[i] = << <<>> >> /\ q[i] = <<>>
    BY <1>1, <1>5, <1>6, <1>8
  <2>2. <<>> \in Seq(Chars) /\ << <<>> >> \in Seq(Seq(Chars)) /\ Len(<< <<>> >>) = 1
    OBVIOUS
  <2>3. Str!Delimited(d, << <<>> >>) = <<>> /\ Str!NonEmpty(<< <<>> >>) = <<>>
    BY <2>2, DelimitedOne, NonEmptyOne DEF Kept
  <2>4. w = <<>>
    BY <1>1, <1>7, <1>8
  <2>5. Cardinality(Delimiters(d, i)) = 0
    <3>1. \A k \in i+1..m_size : str[k] # d
      BY <1>1, <1>8
    <3> QED BY <1>4, <3>1, DelimitersFrom
  <2> QED BY <1>4, <2>1, <2>2, <2>3, <2>4, <2>5 DEF SplitSound, w
\* If there is no delimiter, all that is left is one piece.
<1>9. CASE i < m_size /\ it = npos
  <2>1. \A k \in i+1..m_size : str[k] # d
    BY <1>5, <1>9
  <2>2. first = i
    <3>1. i + 1 \in i+1..m_size
      BY <1>1, <1>4, <1>9
    <3> QED BY <1>5, <1>9, <2>1, <3>1
  <2>3. p[i] = <<w>> /\ q[i] = <<w>>
    <3>1. Str!findFirstOf({d}, first) = npos /\ first # npos /\ ~(i >= m_size)
      BY <1>1, <1>4, <1>9, <2>2 DEF it
    <3> QED BY <1>6, <1>7, <1>9, <2>2, <3>1
  <2>4. w # <<>>
    BY <1>1, <1>4, <1>7, <1>9
  <2>5. Str!Delimited(d, <<w>>) = w /\ Str!NonEmpty(<<w>>) = <<w>>
    BY <1>7, <2>4, DelimitedOne, NonEmptyOne DEF Kept
  <2>6. Cardinality(Delimiters(d, i)) = 0
    BY <1>4, <2>1, DelimitersFrom
  <2>7. <<w>> \in Seq(Seq(Chars)) /\ Len(<<w>>) = 1
    BY <1>7
  <2> QED BY <1>4, <2>3, <2>5, <2>6, <2>7 DEF SplitSound, w
\* Otherwise a piece ends at the delimiter, and the others are what is left behind it.
<1>10. CASE i < m_size /\ it # npos
  <2> DEFINE j == it + 1
             r == p[j]
  <2>1. it \in i..m_size-1 /\ str[it+1] = d /\ \A k \in i+1..it : str[k] # d
    BY <1>5, <1>10
  <2>2. j \in i+1..m_size /\ it \in i..m_size /\ it \in Nat /\ j \in Nat
    BY <1>1, <1>4, <2>1
  <2>3. SplitSound(r, q[j], d, j)
    BY <1>4, <2>2
  <2>4. Str!Piece(i, it) = a /\ a \in Seq(Chars) /\ Len(a) = it - i
    <3>1. Str!Piece(i, it) = a /\ a \in Seq(Chars)
      BY <1>4, <2>2, PieceIs
    <3>2. it - i \in Nat /\ i + (it - i) <= Len(str)
      BY <1>1, <1>4, <2>1
    <3>3. Len(a) = it - i
      BY <1>1, <1>4, <3>2, PartIs
    <3> QED BY <3>1, <3>3
  <2>5. p[i] = <<a>> \o r
    <3>1. ~(i >= m_size)
      BY <1>1, <1>4, <1>10
    <3> QED BY <1>6, <1>10, <2>4, <3>1
  <2>6. w = a \o (<<d>> \o Part(str, j, m_size - j))
    <3>1. i <= it /\ it < Len(str) /\ it \in Nat
      BY <1>1, <1>4, <2>1
    <3>2. Part(str, i, Len(str) - i) = a \o (<<str[it+1]>> \o Part(str, j, Len(str) - j))
      BY <1>1, <1>4, <3>1, PartsAround
    <3> QED BY <1>1, <2>1, <3>2 DEF w
  <2> HIDE DEF a, r
  <2>7. r \in Seq(Seq(Chars)) /\ Cardinality(Delimiters(d, j)) \in Nat /\ Len(r) = 1 + Cardinality(Delimiters(d, j))
        /\ Str!Delimited(d, r) = Part(str, j, m_size - j) /\ q[j] = Str!NonEmpty(r)
    <3>1. j \in 0..m_size
      BY <1>1, <1>4, <2>2
    <3>2. Cardinality(Delimiters(d, j)) \in Nat
      BY <3>1, DelimitersFrom
    <3> QED BY <2>3, <3>2 DEF SplitSound
  <2>8. Str!Delimited(d, p[i]) = w
    <3>1. Len(r) > 0
      BY <2>7
    <3>2. Str!Delimited(d, <<a>> \o r) = a \o (<<d>> \o Str!Delimited(d, r))
      BY <2>4, <2>7, <3>1, DelimitedCons
    <3> QED BY <2>5, <2>6, <2>7, <3>2
  <2>9. Str!NonEmpty(p[i]) = Kept(a) \o q[j]
    BY <2>4, <2>5, <2>7, NonEmptyCons
  <2>10. p[i] \in Seq(Seq(Chars)) /\ Len(p[i]) = 1 + Cardinality(Delimiters(d, i))
    <3>1. Cardinality(Delimiters(d, i)) = Cardinality(Delimiters(d, j)) + 1
      BY <1>4, <2>1, DelimitersFrom
    <3> DEFINE S == Seq(Chars)
    <3>2. a \in S /\ r \in Seq(S)
      BY <2>4, <2>7
    <3> HIDE DEF S
    <3>3. <<a>> \o r \in Seq(S) /\ Len(<<a>> \o r) = Len(r) + 1
      BY <3>2, ConsIs
    <3>4. p[i] \in Seq(S) /\ Len(p[i]) = Len(r) + 1
      BY <2>5, <3>3
    <3> QED BY <2>7, <3>1, <3>4 DEF S
  <2>11. q[i] = Kept(a) \o q[j]
    <3>1. CASE str[i+1] = d
      <4>1. it = i
        <5>1. i + 1 \notin i+1..it
          BY <2>1, <3>1
        <5> QED BY <1>4, <2>1, <5>1
      <4>2. a = <<>>
        BY <1>4, <2>4, <4>1
      <4>3. i + 1 \in 0..m_size /\ j = i + 1
        BY <1>1, <1>4, <1>10, <4>1
      <4>4. q[i] = q[i + 1]
        <5>1. first = Str!findFirstNotOf({d}, i + 1)
          BY <1>5, <1>10, <3>1
        <5>2. q[i+1] = LET f == Str!findFirstNotOf({d}, i + 1)
                           next == Str!findFirstOf({d}, f) IN
                IF f = npos THEN <<>>
                ELSE IF next # npos THEN <<Str!Piece(f, next)>> \o q[next + 1] ELSE <<Str!Piece(f, m_size)>>
          BY <4>3 DEF RestFrom
        <5> QED BY <1>6, <5>1, <5>2
      <4>5. q[j] = q[i] /\ q[j] \in Seq(Seq(Chars))
        <5>1. Str!NonEmpty(r) \in Seq(Seq(Chars))
          BY <2>7, NonEmptyType
        <5> QED BY <2>7, <4>3, <4>4, <5>1
      <4>6. <<>> \o q[j] = q[j]
        BY <4>5, ConcatEmptySeq
      <4> QED BY <4>2, <4>5, <4>6 DEF Kept
    <3>2. CASE str[i+1] # d
      <4>1. first = i /\ first # npos
        BY <1>1, <1>4, <1>5, <1>10, <3>2
      <4>2. it # i
        BY <2>1, <3>2
      <4>3. a # <<>>
        BY <1>4, <2>1, <2>4, <4>2
      <4>4. Str!findFirstOf({d}, first) = it
        BY <4>1 DEF it
      <4>5. q[i] = <<a>> \o q[j]
        BY <1>6, <1>10, <2>4, <4>1, <4>4
      <4> QED BY <4>3, <4>5 DEF Kept
    <3> QED BY <3>1, <3>2
  <2> QED BY <1>4, <2>8, <2>9, <2>10, <2>11 DEF SplitSound, w
<1> QED BY <1>1, <1>4, <1>8, <1>9, <1>10

\* The instance counts as the library does.
LEMMA StrCardinality ==
  ASSUME NEW S
  PROVE  Str!Cardinality(S) = Cardinality(S)
  BY DEF Str!Cardinality, Cardinality

\* Both splits give the pieces of the string.
LEMMA SplitsAgreed == StrInv => Str!SplitsAgree
<1> SUFFICES ASSUME StrInv, NEW d \in Chars
             PROVE  /\ Str!Delimited(d, Str!split(d)) = str
                    /\ Len(Str!split(d)) = 1 + Str!Cardinality({i \in DOMAIN str : str[i] = d})
                    /\ Str!splitNoAllowEmpty(d) = Str!NonEmpty(Str!split(d))
  BY DEF Str!SplitsAgree
<1>1. PICK p : p[0] = Str!split(d) /\ SplitFrom(p, d)
  BY SplitIs
<1>2. PICK q : q[0] = Str!splitNoAllowEmpty(d) /\ RestFrom(q, d)
  BY RestIs
<1>3. m_size \in Nat /\ str \in Seq(Chars) /\ Len(str) = m_size
  BY StrFacts
<1>4. 0 \in 0..m_size
  BY <1>3
<1>5. SplitSound(Str!split(d), Str!splitNoAllowEmpty(d), d, 0)
  BY <1>1, <1>2, <1>4, SplitFromEnd
<1>6. {i \in DOMAIN str : str[i] = d} = Delimiters(d, 0)
  <2>1. DOMAIN str = 0+1..m_size
    BY <1>3
  <2> QED BY <2>1 DEF Delimiters
<1>7. Part(str, 0, m_size - 0) = str
  <2>1. m_size - 0 = Len(str)
    BY <1>3
  <2> QED BY <1>3, <2>1, Whole
<1> QED BY <1>5, <1>6, <1>7, StrCardinality DEF SplitSound

\* From the invariant follows everything the run checks of views.
LEMMA StringAgreed == StrInv => Str!ViewAgrees
  BY ViewsAgreed, SearchesAgreed, ComparesAgreed, HashesAgreed, OutputAgreed, PredicatesAgreed, SplitsAgreed DEF Str!ViewAgrees

-----------------------------------------------------------------------------
(* The part of Utilities *)

TextInv == part = "string" => StrInv

\* A view is that of its string in every state.
LEMMA TextInvariance == UtilitiesSpec => []TextInv
<1>1. UtilitiesInit => TextInv
  BY StringInit DEF UtilitiesInit, TextInv
<1>2. ASSUME TextInv, [UtilitiesNext]_utilitiesVars PROVE TextInv'
  <2>0. part' = part
    BY <1>2 DEF UtilitiesNext, utilitiesVars
  <2>1. ASSUME part = "string" PROVE StrInv'
    <3>1. StrInv /\ (Str!Next \/ UNCHANGED stringVars)
      BY <1>2, <2>1 DEF TextInv, UtilitiesNext, utilitiesVars
    <3>2. CASE UNCHANGED stringVars
      BY <3>1, <3>2 DEF stringVars, StrInv, Part
    <3> QED BY <3>1, <3>2, StringStep
  <2> QED BY <2>0, <2>1 DEF TextInv
<1> QED BY <1>1, <1>2, PTL DEF UtilitiesSpec

\* Whatever views are taken of views, at the ends of the text too: they show the string
\* that the operations on strings give, and every search, comparison, output, hash and
\* lookup in a table answers about a view what it would about the string.
THEOREM TextAgreesHolds == UtilitiesSpec => []TextAgrees
<1>1. TextInv => TextAgrees
  BY StringAgreed DEF TextInv, TextAgrees
<1> QED BY <1>1, TextInvariance, PTL
=============================================================================
