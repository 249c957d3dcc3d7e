----------------------------- MODULE Utilities ------------------------------
(* Components that none of the others calls or is called by, each on its     *)
(* own: "part" says which one a behaviour is about, and the variables of the *)
(* others keep their initial values.  MCUtilities adds more parts; those     *)
(* here hold for instances of every size.  IdentifierPool is extended.       *)
EXTENDS IdentifierPool, Sequences

CONSTANTS Threads, N,                        \* of Latch
          Functions, NoFunction,             \* of NoStartThread
          Optionals, Values,                 \* of Optional
          Deleters, Parents, Children, None, \* of ObjectTree
          Items, Keys, MaxHandles,           \* of SharedItemSet
          CacheKeys, Objects, ListNodes, SizeLimit, \* of LRU
          Vectors, BitsPerBlock, BlockWidth, MaxBits, \* of BitVec
          Texts, Chars, Needles, npos,       \* of StringView
          Maps, MapKeys, Mapped, Default, Entries, hasher(_), pred(_, _)  \* of UnorderedMap

ASSUME CountAssumption == N \in Nat
ASSUME ValuesAssumption == Values \subseteq Nat
ASSUME TreeAssumption == Parents \cap Children = {} /\ None \notin Parents \cup Deleters
ASSUME LimitAssumption == SizeLimit \in Nat \ {0}
ASSUME BlockAssumption == BitsPerBlock \in Nat \ {0} /\ BlockWidth \in Nat \ {0}
\* No string is as long as npos, the greatest number of the type of sizes.
ASSUME TextAssumption == /\ npos \in Nat /\ Chars \subseteq Nat /\ Needles \subseteq Seq(Chars)
                         /\ \A t \in Texts : t \in Seq(Chars) /\ Len(t) < npos
\* What the standard library asks of the hasher and the predicate of a map
ASSUME PredAssumption == \A k, l \in MapKeys : /\ pred(k, k) /\ pred(k, l) \in BOOLEAN
                                               /\ pred(k, l) => pred(l, k) /\ hasher(k) = hasher(l)
                                               /\ \A n \in MapKeys : pred(k, l) /\ pred(l, n) => pred(k, n)

VARIABLE part
VARIABLES m_counter, m_isReady, m_stopRequested, waits, asleep, last, left, asked
latchVars == <<m_counter, m_isReady, m_stopRequested, waits, asleep, last, left, asked>>
VARIABLES m_func, promise, state, thread, owner, joinable, ran, chosen
noStartVars == <<m_func, promise, state, thread, owner, joinable, ran, chosen>>
VARIABLES exists, m_containsValue, m_value, lifetimes, holds, broken
optionalVars == <<exists, m_containsValue, m_value, lifetimes, holds, broken>>
VARIABLES m_parent, m_childNodes, m_mutex, life, todo, stack, siblings
treeVars == <<m_parent, m_childNodes, m_mutex, life, todo, stack, siblings>>
VARIABLES key, m_set, m_selfPtr, handles, alive, refused
setVars == <<key, m_set, m_selfPtr, handles, alive, refused>>
VARIABLES m_cacheList, m_weakList, m_cacheMap, element, held, used, newest
lruVars == <<m_cacheList, m_weakList, m_cacheMap, element, held, used, newest>>
VARIABLES m_container, entry, contents, copied
mapVars == <<m_container, entry, contents, copied>>
VARIABLES m_blocks, m_num_bits, bits, unaligned
bitVecVars == <<m_blocks, m_num_bits, bits, unaligned>>
VARIABLES text, m_start, m_size, str
stringVars == <<text, m_start, m_size, str>>

Wait == INSTANCE Latch
Late == INSTANCE NoStartThread
Opt == INSTANCE Optional WITH m_data <- m_value
Tree == INSTANCE ObjectTree WITH Threads <- Deleters
Set == INSTANCE SharedItemSet WITH m_container <- m_set
Lru == INSTANCE LRU WITH Keys <- CacheKeys, Values <- Objects, Nodes <- ListNodes, last <- newest
Map == INSTANCE UnorderedMap WITH Keys <- MapKeys
Bits == INSTANCE BitVec
Str == INSTANCE StringView

UtilitiesInit ==
    /\ Init /\ Wait!Init /\ Opt!Init /\ Tree!Init /\ Lru!Init /\ Map!Init /\ Bits!Init
    /\ IF part = "thread" THEN Late!Init
       ELSE /\ m_func = NoFunction /\ promise = FALSE /\ state = "unset" /\ thread = "take"
            /\ owner = "free" /\ joinable = FALSE /\ ran = <<>> /\ chosen = "none"
    /\ IF part = "set" THEN Set!Init
       ELSE key = 0 /\ m_set = {} /\ m_selfPtr = {} /\ handles = 0 /\ alive = {} /\ refused = {}
    /\ IF part = "string" THEN Str!Init ELSE text = <<>> /\ m_start = 0 /\ m_size = 0 /\ str = <<>>

UtilitiesNext ==
    /\ UNCHANGED part
    /\ IF part = "ids" THEN Next ELSE UNCHANGED vars
    /\ IF part = "latch" THEN Wait!Next ELSE UNCHANGED latchVars
    /\ IF part = "thread" THEN Late!Next ELSE UNCHANGED noStartVars
    /\ IF part = "optional" THEN Opt!Next ELSE UNCHANGED optionalVars
    /\ IF part = "tree" THEN Tree!Next ELSE UNCHANGED treeVars
    /\ IF part = "set" THEN Set!Next ELSE UNCHANGED setVars
    /\ IF part = "lru" THEN Lru!Next ELSE UNCHANGED lruVars
    /\ IF part = "map" THEN Map!Next ELSE UNCHANGED mapVars
    /\ IF part = "bits" THEN Bits!Next ELSE UNCHANGED bitVecVars
    /\ IF part = "string" THEN Str!Next ELSE UNCHANGED stringVars

utilitiesVars == <<part, vars, latchVars, noStartVars, optionalVars, treeVars, setVars,
                   lruVars, mapVars, bitVecVars, stringVars>>

UtilitiesSpec == UtilitiesInit /\ [][UtilitiesNext]_utilitiesVars

-----------------------------------------------------------------------------
(* Properties: those of the modules, each about its part *)

\* Waiting threads are released when what they wait for has happened, and not before
\* (Latch.h, SimpleWait.h), and a thread that is stopped before it was started ends
\* without running its function (NoStartThread.h).
WaitersReleased == /\ part = "latch" => Wait!WaitersAreReleased
                   /\ part = "thread" => Late!RunsWhenStarted

\* Containers hold what was put into them: the cache keeps the keys used last and finds
\* the others while their objects live (LRU.h insert, get, grow), the map keeps colliding
\* keys apart and equal ones together (UnorderedMap.h), and blocks of bits are the vector
\* of Booleans whatever is in their excess bits (BitVector.h).  The marks "copied" and
\* "unaligned" of the modules say from where on this is not promised.
ContainersAgree == /\ part = "lru" => Lru!LruAgrees
                   /\ part = "map" => Map!MapAgrees
                   /\ part = "bits" => Bits!BitVectorAgrees

\* However views are taken of views, they show the string that the same operations on
\* strings give, and the searches, comparisons, output and hashes of a view are those of
\* the string, at every position, npos included (StringView.h, StringHasher.h, Range.h),
\* and what it is split into, put together again, is the string (Split.h).
TextAgrees == part = "string" => Str!ViewAgrees

\* Objects live as long as somebody owns them and are destroyed once: the values of
\* Optionals (Optional.h), children with their parents (ObjectTree.h), items with the
\* last pointer to them or with their set (IntrusiveUnorderedSharedItemSet.h).  What the
\* marks "broken", "siblings" and "refused" except is said at each.
OwnersAgree == /\ part = "optional" => Opt!OptionalAgrees
               /\ part = "tree" => Tree!TreeAgrees
               /\ part = "set" => Set!ItemsAgree
=============================================================================
