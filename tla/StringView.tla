----------------------------- MODULE StringView -----------------------------
(* StringView.h: views of a text, taken from one another, and what they are  *)
(* asked; Split.h, and the hashes and comparisons with which strings of all  *)
(* kinds are keys of one table.  A character is a number, NUL is 0.  Indices *)
(* begin at 0, as in the code; "str" is what the view should be a view of.   *)
EXTENDS Integers, Sequences, SequencesExt, FiniteSetsExt

CONSTANTS Texts, Chars,
          Needles,   \* the strings that are searched for and compared with
          npos       \* SizeType(-1)

VARIABLES text, m_start, m_size,
          str        \* history: the string

vars == <<text, m_start, m_size, str>>

NUL == 0
Shorter(n, m) == IF n < m THEN n ELSE m   \* std::min
At(i) == text[m_start + i + 1]
Earliest(S) == IF S = {} THEN npos ELSE Min(S)
Latest(S) == IF S = {} THEN npos ELSE Max(S)
Drop(s, n) == SubSeq(s, n + 1, Len(s))

Init == /\ text \in Texts
        /\ m_start = 0 /\ m_size = Len(text) /\ str = text

View(start, size, s) == /\ m_start' = start /\ m_size' = size /\ str' = s
                        /\ UNCHANGED text

\* substr(); it throws if pos > m_size, as the others do.
Substr(pos, n) == /\ pos <= m_size
                  /\ View(m_start + pos, Shorter(n, m_size - pos),
                          SubSeq(str, pos + 1, pos + Shorter(n, Len(str) - pos)))
Left(n)   == n <= m_size /\ View(m_start, n, SubSeq(str, 1, n))
Right(n)  == n <= m_size /\ View(m_start + (m_size - n), n, Drop(str, Len(str) - n))

\* leftClipped() and removePrefix(), rightClipped() and removeSuffix() (whose
\* assertion is commented out)
LeftClipped(n)  == n <= m_size /\ View(m_start + n, m_size - n, Drop(str, n))
RightClipped(n) == n <= m_size /\ View(m_start, m_size - n, SubSeq(str, 1, Len(str) - n))
Clipped(l, r) == /\ l <= m_size /\ r <= m_size - l
                 /\ View(m_start + l, m_size - l - r, SubSeq(str, l + 1, Len(str) - r))

-----------------------------------------------------------------------------
(* Searching.  "cs" is a set of characters: one, or those of a string. *)

Matches(i, s) == \A k \in DOMAIN s : At(i + k - 1) = s[k]

find(s, pos) == IF s = <<>> THEN IF pos <= m_size THEN pos ELSE npos
                ELSE IF Len(s) <= m_size THEN Earliest({i \in pos .. m_size - Len(s) : Matches(i, s)})
                ELSE npos

\* Bug: the position itself is left out.
rfindBefore(s, pos) == IF Len(s) <= m_size
                       THEN Latest({i \in 0 .. Shorter(pos, m_size - Len(s)) - 1 : Matches(i, s)})
                       ELSE npos

rfind(s, pos) == IF Len(s) <= m_size
                 THEN Latest({i \in 0 .. Shorter(pos, m_size - Len(s)) : Matches(i, s)})
                 ELSE npos

findFirstOf(cs, pos)    == Earliest({i \in pos .. m_size - 1 : At(i) \in cs})
findFirstNotOf(cs, pos) == Earliest({i \in pos .. m_size - 1 : At(i) \notin cs})
\* findLastOf() and findLastNotOf(): "[0, pos] U [0, m_size)"
findLastOf(cs, pos)     == IF m_size = 0 THEN npos
                           ELSE Latest({i \in 0 .. Shorter(m_size - 1, pos) : At(i) \in cs})
findLastNotOf(cs, pos)  == IF m_size = 0 THEN npos
                           ELSE Latest({i \in 0 .. Shorter(m_size - 1, pos) : At(i) \notin cs})

\* Trimming; what is empty then is no view of the text.
WithoutLeft(s, cs)  == Drop(s, Min({i \in 0..Len(s) : i = Len(s) \/ s[i+1] \notin cs}))
WithoutRight(s, cs) == SubSeq(s, 1, Max({i \in 0..Len(s) : i = 0 \/ s[i] \notin cs}))
Found(i) == i # npos
LeftTrimmed(cs) ==
    LET i == findFirstNotOf(cs, 0) IN
    IF Found(i) THEN View(m_start + i, m_size - i, WithoutLeft(str, cs)) ELSE View(0, 0, WithoutLeft(str, cs))
RightTrimmed(cs) ==
    LET i == findLastNotOf(cs, npos) IN
    IF Found(i) THEN View(m_start, i + 1, WithoutRight(str, cs)) ELSE View(0, 0, WithoutRight(str, cs))
Trimmed(cs) ==
    LET i == findFirstNotOf(cs, 0)
        j == findLastNotOf(cs, npos)
        s == WithoutLeft(WithoutRight(str, cs), cs)
    IN IF Found(i) THEN View(m_start + i, j + 1 - i, s) ELSE View(0, 0, s)

\* compare(): the first difference in what both have, then the sizes
Compare(start, size, s) ==
    LET common == Shorter(size, Len(s))
        differ == {k \in 1..common : text[start + k] # s[k]}
    IN IF differ # {} THEN IF text[start + Min(differ)] < s[Min(differ)] THEN -1 ELSE 1
       ELSE IF size = Len(s) THEN 0 ELSE IF size < Len(s) THEN -1 ELSE 1
compare(s) == Compare(m_start, m_size, s)
comparePart(pos, n, s) == Compare(m_start + pos, Shorter(n, m_size - pos), s)
startsWith(s) == m_size >= Len(s) /\ comparePart(0, Len(s), s) = 0
endsWith(s) == m_size >= Len(s) /\ comparePart(m_size - Len(s), Len(s), s) = 0

\* rfind() of a character, and copy(), what it copies
rfindChar(c, pos) == IF m_size = 0 THEN npos
                     ELSE Latest({i \in 0 .. Shorter(m_size - 1, pos) : At(i) = c})
Copied(count, pos) == [k \in 1 .. Shorter(count, m_size - pos) |-> At(pos + k - 1)]

-----------------------------------------------------------------------------
(* Output to a stream whose buffer takes "room" characters more: sputn() and *)
(* sputc() put as many as it takes.                                          *)

FillChar == -1
doOut(s, room) == [out   |-> SubSeq(s, 1, Shorter(Len(s), room)),
                   state |-> IF Len(s) <= room THEN "good" ELSE "fail"]
doFill(n, room) == [out   |-> [i \in 1..Shorter(n, room) |-> FillChar],
                    state |-> IF n <= room THEN "good" ELSE IF room > 0 THEN "bad" ELSE "fail"]

\* What operator<< of a view does, with the width w of the stream, which may be
\* negative, and its adjustment
Output(w, left, room) ==
    LET view   == Copied(m_size, 0)
        toFill == w - m_size
        First  == IF left THEN doOut(view, room) ELSE doFill(toFill, room)
        Second == LET rest == room - Len(First.out)
                  IN IF left THEN doFill(toFill, rest) ELSE doOut(view, rest)
    IN IF w < 0 THEN [out |-> <<>>, state |-> "good"]
       ELSE IF m_size >= w THEN doOut(view, room)
       ELSE IF First.state # "good" THEN First
       ELSE [out |-> First.out \o Second.out, state |-> Second.state]

-----------------------------------------------------------------------------
(* Split.h: the pieces that matchAction gets, of the characters of the view  *)

Piece(first, it) == SubSeq(text, m_start + first + 1, m_start + it)
split(delim) ==
    LET from[first \in 0..npos] ==
            LET it == findFirstOf({delim}, first) IN
            IF first >= m_size THEN << <<>> >>
            ELSE IF Found(it) THEN <<Piece(first, it)>> \o from[it + 1]
            ELSE <<Piece(first, m_size)>>
    IN from[0]

splitNoAllowEmpty(delim) ==
    LET from[pos \in 0..npos] ==
            LET first == findFirstNotOf({delim}, pos)
                it    == findFirstOf({delim}, first)
            IN IF ~Found(first) THEN <<>>
               ELSE IF Found(it) THEN <<Piece(first, it)>> \o from[it + 1]
               ELSE <<Piece(first, m_size)>>
    IN from[0]

-----------------------------------------------------------------------------
(* StringHasher.h: a hash is a function of the characters that are combined. *)

CString(s) == SubSeq(s, 1, Min({i \in 0..Len(s) : i = Len(s) \/ s[i+1] = NUL}))
HashOf(s) == s
HashOfCString(s) == HashOf(CString(s))
\* transparent_key_equal, of a string with a range that knows its size, with one
\* that does not, and with a C string (strcmp)
EqualSized(s, t) == Len(s) = Len(t) /\ \A k \in DOMAIN t : s[k] = t[k]
EqualUnsized(s, t) == /\ \A k \in DOMAIN s : k <= Len(t) /\ s[k] = t[k]
                      /\ Len(s) = Len(t)
EqualCString(s, t) == CString(s) = CString(t)

\* Range.h, rangeEqual(), by which a range is compared with a key: of a range that
\* knows its size with one that does not, counting down; and of two that do
EqualCounting(s, t) ==
    LET goesOn(k)  == k # Len(t) /\ Len(s) - k > 0 /\ s[k] = t[k]   \* the loop at its k-th elements:
        isEqual(k) == k = Len(t) /\ Len(s) - k = 0 /\ s[k] = t[k]   \* Len(s) - k are left.
    IN IF t = <<>> THEN Len(s) = 0
       ELSE \E k \in 1..Len(s) : isEqual(k) /\ \A j \in 1..k-1 : goesOn(j)
EqualMeasured(s, t) == Len(s) = Len(t) /\ (Len(s) = 0 \/ \A k \in DOMAIN s : s[k] = t[k])

\* StringHashTablePredicate.h: what a table is asked with, a hash and the keys that
\* equal the argument, by the kind of the argument
StringRefPredicate(s)  == [hash |-> HashOf(s), keys |-> {t \in Needles : EqualSized(t, s)}]
CStringRefPredicate(s) == [hash |-> HashOfCString(s), keys |-> {t \in Needles : t = CString(s)}]
RangeRefPredicate(s)   == [hash |-> HashOf(s), keys |-> {t \in Needles : EqualMeasured(t, s)}]
PredicateFor(s) == [string |-> StringRefPredicate(s), cString |-> CStringRefPredicate(s),
                    range |-> RangeRefPredicate(s)]

Sizes == 0..Max({Len(t) : t \in Texts})
Next == \/ \E n \in Sizes : \/ Left(n) \/ Right(n) \/ LeftClipped(n) \/ RightClipped(n)
                            \/ \E m \in Sizes \cup {npos} : Substr(n, m) \/ Clipped(n, m)
        \/ \E cs \in SUBSET Chars : LeftTrimmed(cs) \/ RightTrimmed(cs) \/ Trimmed(cs)

Spec == Init /\ [][Next]_vars

-----------------------------------------------------------------------------
(* Properties *)

\* However views are taken of views, they show the string that the same operations
\* on strings give.
ViewsAgree == /\ m_size = Len(str)
              /\ \A i \in 0 .. m_size - 1 : At(i) = str[i+1]

\* The searches return the nearest place from where they start that fits, and npos
\* if there is none, for every start, npos included.
Occurs(s, i) == i + Len(s) <= Len(str) /\ SubSeq(str, i + 1, i + Len(s)) = s
IsFirst(r, pos, P(_)) == IF Found(r) THEN r >= pos /\ P(r) /\ \A i \in pos .. r-1 : ~P(i)
                         ELSE \A i \in Sizes : i >= pos => ~P(i)
IsLast(r, pos, P(_)) == IF Found(r) THEN r <= pos /\ P(r) /\ \A i \in Sizes : i > r /\ i <= pos => ~P(i)
                        ELSE \A i \in Sizes : i <= pos => ~P(i)
SearchesAgree == \A pos \in Sizes \cup {npos} :
    /\ \A s \in Needles : /\ IsFirst(find(s, pos), pos, LAMBDA i : Occurs(s, i))
                          /\ IsLast(rfind(s, pos), pos, LAMBDA i : Occurs(s, i))
    /\ \A cs \in SUBSET Chars :
        LET In(i) == i < Len(str) /\ str[i+1] \in cs
            NotIn(i) == i < Len(str) /\ str[i+1] \notin cs
        IN /\ \A c \in cs : rfindChar(c, pos) = findLastOf({c}, pos)
           /\ IsFirst(findFirstOf(cs, pos), pos, In) /\ IsFirst(findFirstNotOf(cs, pos), pos, NotIn)
           /\ IsLast(findLastOf(cs, pos), pos, In) /\ IsLast(findLastNotOf(cs, pos), pos, NotIn)

\* What is written to a stream is the view, padded to the width where the stream
\* says, or as much of it as the stream takes, and then the stream is not good; and
\* copies are parts of the string.
OutputAgrees ==
    /\ \A w \in Sizes \cup {npos}, left \in BOOLEAN, room \in 0 .. npos+1 :
         LET padding == [i \in 1 .. w - Len(str) |-> FillChar]
             padded  == IF left THEN str \o padding ELSE padding \o str
             written == Output(w, left, room)
         IN /\ written.out = SubSeq(padded, 1, Shorter(room, Len(padded)))
            /\ written.state = "good" <=> room >= Len(padded)
    /\ \A pos \in 0..m_size, n \in Sizes \cup {npos} : Copied(n, pos) = SubSeq(str, pos+1, Shorter(pos+n, Len(str)))

\* compare() is the lexicographic order, and what begins and ends a string is a
\* part of it.
Less(s, t) == \E n \in 0..Len(t) - 1 :
    /\ n <= Len(s) /\ SubSeq(s, 1, n) = SubSeq(t, 1, n)
    /\ Len(s) = n \/ s[n+1] < t[n+1]
ComparesAgree == \A s \in Needles :
    /\ compare(s) = IF Less(str, s) THEN -1 ELSE IF str = s THEN 0 ELSE 1
    /\ startsWith(s) <=> Occurs(s, 0)
    /\ endsWith(s) <=> Len(s) <= Len(str) /\ Occurs(s, Len(str) - Len(s))

\* The pieces of a split, put together, are the string, none contains the delimiter,
\* and there is one more than delimiters; without the empty ones they are the rest.
Delimited(delim, pieces) ==
    FlattenSeq([i \in DOMAIN pieces |-> IF i = 1 THEN pieces[i] ELSE <<delim>> \o pieces[i]])
NonEmpty(pieces) ==
    FlattenSeq([i \in DOMAIN pieces |-> IF pieces[i] = <<>> THEN <<>> ELSE <<pieces[i]>>])
SplitsAgree == \A delim \in Chars :
    /\ Delimited(delim, split(delim)) = str
    /\ Len(split(delim)) = 1 + Cardinality({i \in DOMAIN str : str[i] = delim})
    /\ splitNoAllowEmpty(delim) = NonEmpty(split(delim))

\* Equal keys have equal hashes, however they are represented; with C strings, for
\* strings without a NUL, since they end there.
HashesAgree == \A s \in Needles :
    LET sameHash == HashOf(str) = HashOf(s) IN
    /\ EqualSized(str, s) <=> sameHash
    /\ EqualUnsized(str, s) <=> sameHash
    /\ EqualCounting(str, s) <=> sameHash
    /\ EqualCounting(s, str) <=> sameHash
    /\ EqualMeasured(str, s) <=> sameHash
    /\ NUL \notin Range(s) \cup Range(str) =>
         (EqualCString(str, s) <=> HashOf(str) = HashOfCString(s))

\* A table whose buckets are found by the hash finds exactly the keys that are the
\* string asked for, whatever holds it; a C string ends at its first NUL.
PredicatesAgree ==
    LET FoundBy(p) == {t \in p.keys : HashOf(t) = p.hash}
        asked == PredicateFor(str)
    IN /\ FoundBy(asked.string) = Needles \cap {str}
       /\ FoundBy(asked.range) = Needles \cap {str}
       /\ FoundBy(asked.cString) = Needles \cap {CString(str)}

ViewAgrees == ViewsAgree /\ SearchesAgree /\ ComparesAgree /\ HashesAgree
              /\ OutputAgrees /\ PredicatesAgree /\ SplitsAgree
=============================================================================
