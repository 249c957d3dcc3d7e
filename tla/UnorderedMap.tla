---------------------------- MODULE UnorderedMap ----------------------------
(* UnorderedMap.h: a map kept as a multimap from hashes to shared pointers,  *)
(* so that users can look up by a hash and a predicate, or by a key of       *)
(* another type.  Several keys may have one hash, several may be equal under *)
(* m_pred.  The copy operations copy the multimap and with it the pointers,  *)
(* therefore a copy shares its elements with the original: "copied"          *)
(* remembers that this happened.                                             *)
EXTENDS Naturals, FiniteSets

CONSTANTS Maps, Keys, Mapped, Default,  \* Default: mapped_type()
          Entries,                      \* what allocate_shared() can return
          hasher(_), pred(_, _)         \* m_hasher, m_pred

VARIABLES m_container,   \* of every map: pairs of a hash and an entry
          entry,         \* of every entry: key and mapped value
          contents,      \* history: per map, what a std::unordered_map would hold
          copied         \* history: a map was copied

vars == <<m_container, entry, contents, copied>>

Init == /\ m_container = [m \in Maps |-> {}]
        /\ entry = [e \in {} |-> 0]
        /\ contents = [m \in Maps |-> {}]
        /\ copied = FALSE

\* The keys equal to k
SameAs(k) == {l \in Keys : pred(k, l)}

\* find(hash, predicate), and with it the scan of equal_range(hash) that every
\* lookup makes, for a predicate that is true of the keys P
Find(m, h, P) == {e \in DOMAIN entry : <<h, e>> \in m_container[m] /\ entry[e].key \in P}

\* find(key): the hash and the equality of the map
FindKey(m, k) == Find(m, hasher(k), SameAs(k))

\* contains(), count() and equal_range(): a key is there once or not at all.
Contains(m, k) == FindKey(m, k) # {}

\* TransparentFind for a type that has no hash: every element is tried
FindLinear(m, k) == {e \in DOMAIN entry : \E x \in m_container[m] : x[2] = e /\ entry[e].key \in SameAs(k)}

\* operator==: equal sizes, and every element of one is in the other's range
Equal(m, n) ==
    /\ Cardinality(m_container[m]) = Cardinality(m_container[n])
    /\ \A x \in m_container[m] : \E e \in FindKey(n, entry[x[2]].key) : entry[e] = entry[x[2]]

\* The containers become c; the entries f that nobody points to are freed.
Keep(c, f) == /\ m_container' = c
              /\ entry' = [e \in {x[2] : x \in UNION {c[m] : m \in Maps}} |-> f[e]]

Fresh == CHOOSE e \in Entries : e \notin DOMAIN entry
NewEntry(m, k, v) ==
    /\ Entries \ DOMAIN entry # {}   \* there is memory
    /\ Keep([m_container EXCEPT ![m] = @ \cup {<<hasher(k), Fresh>>}],
            [e \in DOMAIN entry \cup {Fresh} |-> IF e = Fresh THEN [key |-> k, mapped |-> v] ELSE entry[e]])

\* emplace(), insert() and their overloads
Emplace(m, k, v) ==
    /\ IF Contains(m, k) THEN UNCHANGED <<m_container, entry>> ELSE NewEntry(m, k, v)
    /\ contents' = IF \E x \in contents[m] : x[1] \in SameAs(k) THEN contents
                   ELSE [contents EXCEPT ![m] = @ \cup {<<k, v>>}]
    /\ UNCHANGED copied

\* operator[](), before anything is assigned to it
Subscript(m, k) == Emplace(m, k, Default)

\* insert_or_assign(), or an assignment to operator[](k) or *find(k)
InsertOrAssign(m, k, v) ==
    /\ IF Contains(m, k)
       THEN \E e \in FindKey(m, k) : entry' = [entry EXCEPT ![e].mapped = v] /\ UNCHANGED m_container
       ELSE NewEntry(m, k, v)
    /\ contents' = [contents EXCEPT ![m] =
          IF \E x \in @ : x[1] \in SameAs(k) THEN {<<x[1], IF x[1] \in SameAs(k) THEN v ELSE x[2]>> : x \in @}
          ELSE @ \cup {<<k, v>>}]
    /\ UNCHANGED copied

\* An assignment to at(k), which throws if there is no such key
AssignAt(m, k, v) == Contains(m, k) /\ InsertOrAssign(m, k, v)

\* erase(key), of the map's type or transparent, or of an iterator to it
Erase(m, k) ==
    /\ Keep([m_container EXCEPT ![m] = {x \in @ : x[2] \notin FindKey(m, k)}], entry)
    /\ contents' = [contents EXCEPT ![m] = {x \in @ : x[1] \notin SameAs(k)}]
    /\ UNCHANGED copied

\* The transparent erase() of a key that has no hash: the first that is equal
EraseLinear(m, k) ==
    \E e \in FindLinear(m, k) :
        /\ Keep([m_container EXCEPT ![m] = {x \in @ : x[2] # e}], entry)
        /\ contents' = [contents EXCEPT ![m] = {x \in @ : x[1] \notin SameAs(k)}]
        /\ UNCHANGED copied

Clear(m) == /\ Keep([m_container EXCEPT ![m] = {}], entry)
            /\ contents' = [contents EXCEPT ![m] = {}]
            /\ UNCHANGED copied

Swap(m, n) == /\ m_container' = [m_container EXCEPT ![m] = m_container[n], ![n] = m_container[m]]
              /\ contents' = [contents EXCEPT ![m] = contents[n], ![n] = contents[m]]
              /\ UNCHANGED <<entry, copied>>

\* The copy constructor (m had nothing) and the copy assignment
Copy(m, n) == /\ m # n
              /\ Keep([m_container EXCEPT ![m] = m_container[n]], entry)
              /\ contents' = [contents EXCEPT ![m] = contents[n]]
              /\ copied' = (copied \/ m_container[n] # {})

\* The moving ones; the multimap moved from is left empty.
Move(m, n) == /\ m # n
              /\ Keep([m_container EXCEPT ![m] = m_container[n], ![n] = {}], entry)
              /\ contents' = [contents EXCEPT ![m] = contents[n], ![n] = {}]
              /\ UNCHANGED copied

Next == \/ \E m \in Maps, k \in Keys : \/ \E v \in Mapped : \/ Emplace(m, k, v) \/ InsertOrAssign(m, k, v)
                                                           \/ AssignAt(m, k, v)
                                       \/ Subscript(m, k)
                                       \/ Erase(m, k) \/ EraseLinear(m, k)
        \/ \E m \in Maps : Clear(m)
        \/ \E m, n \in Maps : Swap(m, n) \/ Copy(m, n) \/ Move(m, n)

Spec == Init /\ [][Next]_vars

-----------------------------------------------------------------------------
(* Properties *)

\* Whatever is looked up, by whatever lookup, is found once if the map has it
\* and never otherwise, and has the key it was first inserted with: keys that
\* collide stay apart, equal keys together (emplace, insert_or_assign, erase,
\* find, TransparentFind).  This holds of copies too.
KeysAgree == \A m \in Maps :
    /\ Cardinality(m_container[m]) = Cardinality(contents[m])
    /\ \A k \in Keys : LET found == {entry[e].key : e \in FindKey(m, k)} IN
         /\ found = {x[1] : x \in {y \in contents[m] : pred(k, y[1])}}
         /\ Cardinality(found) <= 1 /\ FindLinear(m, k) = FindKey(m, k)

\* The mapped values are those written last, as long as no map was copied, and
\* operator== compares the contents.
ValuesAgree == ~copied =>
    /\ \A m \in Maps : \A x \in contents[m] : \A e \in FindKey(m, x[1]) : entry[e].mapped = x[2]
    /\ \A m, n \in Maps : Equal(m, n) <=> contents[m] = contents[n]

MapAgrees == KeysAgree /\ ValuesAgree
=============================================================================
