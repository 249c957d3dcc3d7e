-------------------------------- MODULE LRU --------------------------------
(* LRU.h: a cache that keeps the values of the m_sizeLimit most recently     *)
(* used keys alive and goes on finding the others while somebody else does.  *)
(* Elements are list nodes, which keep their identity when they are spliced; *)
(* m_cacheMap holds iterators, that is nodes.  The order of m_weakList is    *)
(* never looked at, so it is a set.  A value is an object: it is alive while *)
(* a user or an element of m_cacheList points to it.                         *)
EXTENDS Naturals, Sequences, SequencesExt

CONSTANTS Keys, Values, Nodes,
          SizeLimit  \* m_sizeLimit, asserted to be positive

VARIABLES m_cacheList, m_weakList, m_cacheMap,
          element,   \* of every node in a list: its key and the value it points to
          held,      \* the values users have strong pointers to
          used, last \* history: the keys by their last use; the value last inserted

vars == <<m_cacheList, m_weakList, m_cacheMap, element, held, used, last>>

Nothing == [x \in {} |-> 0]
With(f, x, y) == [z \in DOMAIN f \cup {x} |-> IF z = x THEN y ELSE f[z]]
Without(f, S) == [x \in DOMAIN f \ S |-> f[x]]
First(s, n) == IF Len(s) <= n THEN s ELSE SubSeq(s, 1, n)

\* Where y is in s, or the end of s.  Then s with x in front and without y.
Place(s, y) == CHOOSE p \in 1..Len(s)+1 : IF p <= Len(s) THEN s[p] = y ELSE y \notin ToSet(s)
InFront(s, y, x) == LET p == Place(s, y) IN
    [i \in 1 .. (IF p <= Len(s) THEN Len(s) ELSE p) |-> IF i = 1 THEN x ELSE IF i <= p THEN s[i-1] ELSE s[i]]
ToFront(s, x) == InFront(s, x, x)

ValuesOf(S) == {element[n].value : n \in S}
Alive(v) == v \in held \cup ValuesOf(ToSet(m_cacheList))
IsStrong(n) == n \in ToSet(m_cacheList)

Init == /\ m_cacheList = <<>> /\ m_weakList = {} /\ m_cacheMap = Nothing
        /\ element = Nothing /\ held = {} /\ used = <<>> /\ last = Nothing

\* Bug: the newest element is demoted instead of the oldest.
GrowNewest(list, weak, map, elem, users) ==
    LET strong == IF Len(list) <= SizeLimit THEN list ELSE Tail(list)
        all    == weak \cup (ToSet(list) \ ToSet(strong))
        gone   == {n \in all : elem[n].value \notin users \cup {elem[s].value : s \in ToSet(strong)}}
    IN /\ m_cacheList' = strong
       /\ m_weakList' = all \ gone
       /\ m_cacheMap' = Without(map, {elem[n].key : n \in gone})
       /\ element' = Without(elem, gone)

\* grow() on the given lists: demote what is over the limit, which may free its
\* value, then erase the weak elements whose values are gone.
Grow(list, weak, map, elem, users) ==
    LET strong == First(list, SizeLimit)
        all    == weak \cup (ToSet(list) \ ToSet(strong))
        gone   == {n \in all : elem[n].value \notin users \cup {elem[s].value : s \in ToSet(strong)}}
    IN /\ m_cacheList' = strong
       /\ m_weakList' = all \ gone
       /\ m_cacheMap' = Without(map, {elem[n].key : n \in gone})
       /\ element' = Without(elem, gone)

\* insert(): a new element in front, in place of the one the key had in either list
Insert(k, v) ==
    /\ v \in held
    /\ \E n \in Nodes \ DOMAIN element :
         LET old == IF k \in DOMAIN m_cacheMap THEN m_cacheMap[k] ELSE n
         IN Grow(InFront(m_cacheList, old, n), m_weakList \ {old},
                 With(m_cacheMap, k, n),
                 With(Without(element, {old}), n, [key |-> k, value |-> v]), held)
    /\ used' = ToFront(used, k) /\ last' = With(last, k, v)
    /\ UNCHANGED held

\* get() of a strong element: it moves to the front.
GetStrong(k) ==
    /\ k \in DOMAIN m_cacheMap /\ IsStrong(m_cacheMap[k])
    /\ m_cacheList' = ToFront(m_cacheList, m_cacheMap[k])
    /\ held' = held \cup {element[m_cacheMap[k]].value}
    /\ used' = ToFront(used, k)
    /\ UNCHANGED <<m_weakList, m_cacheMap, element, last>>

\* get() of a weak element that somebody else keeps alive: promote() and grow()
GetWeak(k) ==
    /\ k \in DOMAIN m_cacheMap /\ ~IsStrong(m_cacheMap[k])
    /\ LET n == m_cacheMap[k] IN
         /\ Alive(element[n].value)
         /\ held' = held \cup {element[n].value}
         /\ Grow(ToFront(m_cacheList, n), m_weakList \ {n}, m_cacheMap, element, held')
    /\ used' = ToFront(used, k)
    /\ UNCHANGED last

\* get() of a weak element that has expired: it is erased.
GetExpired(k) ==
    /\ k \in DOMAIN m_cacheMap
    /\ LET n == m_cacheMap[k] IN
         /\ ~Alive(element[n].value)
         /\ m_weakList' = m_weakList \ {n}
         /\ m_cacheMap' = Without(m_cacheMap, {k})
         /\ element' = Without(element, {n})
    /\ UNCHANGED <<m_cacheList, held, used, last>>

Clear == /\ m_cacheList' = <<>> /\ m_weakList' = {} /\ m_cacheMap' = Nothing
         /\ element' = Nothing /\ used' = <<>> /\ last' = Nothing
         /\ UNCHANGED held

\* A user makes an object, which nobody can have pointed to before, or drops one.
Create(v) == /\ v \notin held \cup ValuesOf(DOMAIN element)
             /\ held' = held \cup {v}
             /\ last' = [k \in {l \in DOMAIN last : last[l] # v} |-> last[k]]
             /\ UNCHANGED <<m_cacheList, m_weakList, m_cacheMap, element, used>>
Drop(v) == /\ v \in held /\ held' = held \ {v}
           /\ UNCHANGED <<m_cacheList, m_weakList, m_cacheMap, element, used, last>>

Next == \/ \E k \in Keys : \/ \E v \in Values : Insert(k, v)
                           \/ GetStrong(k) \/ GetWeak(k) \/ GetExpired(k)
        \/ Clear
        \/ \E v \in Values : Create(v) \/ Drop(v)

Spec == Init /\ [][Next]_vars

-----------------------------------------------------------------------------
(* Properties *)

\* The strong elements are those of the SizeLimit keys used last, in that order
\* (insert, get, grow): the others are demoted oldest first.
StrongIsRecent == [i \in 1..Len(m_cacheList) |-> element[m_cacheList[i]].key] = First(used, SizeLimit)

\* m_cacheMap has one iterator for each element of the lists, and each points to
\* the element of its key.
MapPointsIntoLists ==
    /\ DOMAIN element = ToSet(m_cacheList) \cup m_weakList
    /\ ToSet(m_cacheList) \cap m_weakList = {}
    /\ \A n \in DOMAIN element : element[n].key \in DOMAIN m_cacheMap
    /\ \A k \in DOMAIN m_cacheMap : m_cacheMap[k] \in DOMAIN element /\ element[m_cacheMap[k]].key = k

\* What get() finds is what was inserted last under the key, and it finds it as
\* long as the object lives, in the cache or outside.
FindsTheLiving ==
    /\ \A k \in DOMAIN m_cacheMap \cap DOMAIN last : element[m_cacheMap[k]].value = last[k]
    /\ \A k \in DOMAIN last : Alive(last[k]) => k \in DOMAIN m_cacheMap

LruAgrees == StrongIsRecent /\ MapPointsIntoLists /\ FindsTheLiving
=============================================================================
