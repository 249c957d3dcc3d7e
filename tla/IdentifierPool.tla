--------------------------- MODULE IdentifierPool ---------------------------
(* IdentifierPool.h: a pool of the identifiers 0 .. M-1 of an unsigned type, *)
(* shared by its IdHolders, which may outlive the pool object.  Every method *)
(* of an IdHolder touches the shared State in at most one critical section,  *)
(* so a call is one step; "h = pool.reserve()" is a Reserve into a temporary *)
(* holder, a MoveAssign and the Release of the temporary.                    *)
EXTENDS Integers

CONSTANTS M,          \* how many values T has
          Holders     \* the places where an IdHolder may be

ASSUME SizeAssumption == M \in Nat \ {0}

Ids == 0..M-1

VARIABLES m_reserved, m_tryNextId,  \* the shared State
          m_id, m_state,            \* of every holder; m_state: whether it is not null
          pool,                     \* whether the pool object is alive
          terminated,               \* std::terminate was called
          selfMoved                 \* history: a holder was assigned to itself

holders == <<m_id, m_state>>
vars == <<m_reserved, m_tryNextId, m_id, m_state, pool, terminated, selfMoved>>

Init == /\ m_reserved = {} /\ m_tryNextId = 0
        /\ m_id = [h \in Holders |-> 0]
        /\ m_state = [h \in Holders |-> FALSE]
        /\ pool = TRUE /\ terminated = FALSE /\ selfMoved = FALSE

\* The identifiers not reserved, as distances from m_tryNextId on
Distances == {d \in Ids : (m_tryNextId + d) % M \notin m_reserved}

\* Bug: the next identifier is taken without a look at what is reserved.
ReserveUnchecked(h) ==
    /\ pool /\ ~m_state[h]
    /\ m_reserved' = m_reserved \cup {m_tryNextId}
    /\ m_tryNextId' = (m_tryNextId + 1) % M
    /\ m_id' = [m_id EXCEPT ![h] = m_tryNextId]
    /\ m_state' = [m_state EXCEPT ![h] = TRUE]
    /\ UNCHANGED <<pool, terminated, selfMoved>>

\* State::reserve in the constructor of an IdHolder: the first that is not reserved
Reserve(h) ==
    /\ pool /\ ~m_state[h]
    /\ \E d \in Distances : LET id == (m_tryNextId + d) % M IN
         /\ \A e \in Distances : d <= e
         /\ m_reserved' = m_reserved \cup {id}
         /\ m_tryNextId' = (id + 1) % M
         /\ m_id' = [m_id EXCEPT ![h] = id]
    /\ m_state' = [m_state EXCEPT ![h] = TRUE]
    /\ UNCHANGED <<pool, terminated, selfMoved>>

\* State::reserve throws ReserveException; the constructor is noexcept.
Exhausted == /\ pool /\ Distances = {}
             /\ terminated' = TRUE
             /\ UNCHANGED <<m_reserved, m_tryNextId, holders, pool, selfMoved>>

\* State::recycle for the identifier of h, if it has one
Recycled(h) == IF m_state[h] THEN m_reserved \ {m_id[h]} ELSE m_reserved

\* IdHolder(IdHolder &&) into an unused place, or operator= from another holder
MoveAssign(h, k) ==
    /\ h # k
    /\ m_reserved' = Recycled(h)
    /\ m_id' = [m_id EXCEPT ![h] = m_id[k]]
    /\ m_state' = [m_state EXCEPT ![h] = m_state[k], ![k] = FALSE]
    /\ UNCHANGED <<m_tryNextId, pool, terminated, selfMoved>>

\* operator= from the holder itself: its shared_ptr survives.
SelfMove(h) == /\ m_state[h]
               /\ m_reserved' = Recycled(h)
               /\ selfMoved' = TRUE
               /\ UNCHANGED <<m_tryNextId, holders, pool, terminated>>

\* release() and ~IdHolder()
Release(h) == /\ m_state[h]
              /\ m_reserved' = Recycled(h)
              /\ m_state' = [m_state EXCEPT ![h] = FALSE]
              /\ UNCHANGED <<m_tryNextId, m_id, pool, terminated, selfMoved>>

\* The pool object is destroyed; the State lives on in the holders.
DestroyPool == /\ pool /\ pool' = FALSE
               /\ UNCHANGED <<m_reserved, m_tryNextId, holders, terminated, selfMoved>>

Next == /\ ~terminated
        /\ \/ \E h \in Holders : Reserve(h) \/ Release(h) \/ SelfMove(h)
           \/ \E h, k \in Holders : MoveAssign(h, k)
           \/ Exhausted \/ DestroyPool

Spec == Init /\ [][Next]_vars

-----------------------------------------------------------------------------
(* Properties *)

TypeOK == /\ m_reserved \subseteq Ids /\ m_tryNextId \in Ids
          /\ m_id \in [Holders -> Ids]
          /\ m_state \in [Holders -> BOOLEAN]
          /\ pool \in BOOLEAN /\ terminated \in BOOLEAN /\ selfMoved \in BOOLEAN

\* "unique ID": no identifier is with two holders, whatever is moved where
\* (reserve, operator=), until a holder is assigned to itself.
IdsDistinct == ~selfMoved =>
    \A h, k \in Holders : m_state[h] /\ m_state[k] /\ m_id[h] = m_id[k] => h = k

\* What is reserved is what the valid holders have, until a holder is assigned
\* to itself: recycle() finds what it erases ("pre The given id is reserved by
\* the pool"), and no identifier stays reserved when its holder is gone.
ReservedAreHeld == ~selfMoved => m_reserved = {m_id[h] : h \in {k \in Holders : m_state[k]}}

\* Identifiers are those of their holders, each of one.
IdsHeld == IdsDistinct /\ ReservedAreHeld

\* "throws ReserveException on pool exhaustion": the exception reaches the
\* caller of IdentifierPool::reserve() and the program goes on.
ExhaustionThrows == ~terminated
=============================================================================
