--------------------------- MODULE SharedItemSet ---------------------------
(* IntrusiveUnorderedSharedItemSet.h: a set of shared objects.  An object in *)
(* the set keeps itself alive by a shared_ptr to itself, which leaves it when *)
(* the object is taken out.  Objects of the same key are equal.               *)
EXTENDS Naturals, FiniteSets

CONSTANTS Items, Keys,
          MaxHandles       \* the most shared_ptrs the client has to one object

VARIABLES key,             \* the key of each object
          m_container,     \* the objects that are linked
          m_selfPtr,       \* the objects that have a shared_ptr to themselves
          handles,         \* how many the client has to each
          alive,
          refused          \* history: objects that an equal one kept out, or left in

vars == <<key, m_container, m_selfPtr, handles, alive, refused>>

Init == /\ key \in [Items -> Keys]
        /\ m_container = {} /\ m_selfPtr = {} /\ refused = {}
        /\ handles = [i \in Items |-> 1] /\ alive = Items

Equal(i) == {j \in m_container : key[j] = key[i]}

\* An object is destroyed with the last shared_ptr to it.
Counts(self, held) == /\ m_selfPtr' = self /\ handles' = held
                      /\ alive' = {i \in alive : i \in self \/ held[i] > 0}
                      /\ UNCHANGED key

\* The client copies or drops a shared_ptr.
CopyHandle(i) == /\ handles[i] \in 1 .. MaxHandles - 1
                 /\ Counts(m_selfPtr, [handles EXCEPT ![i] = @ + 1])
                 /\ UNCHANGED <<m_container, refused>>
DropHandle(i) == /\ handles[i] > 0
                 /\ Counts(m_selfPtr, [handles EXCEPT ![i] = @ - 1])
                 /\ UNCHANGED <<m_container, refused>>

\* insert(): putPtr() also if the container has refused the object.
Insert(i) == /\ handles[i] > 0
             /\ m_container' = IF Equal(i) = {} THEN m_container \cup {i} ELSE m_container
             /\ refused' = IF Equal(i) \ {i} = {} THEN refused \ {i} ELSE refused \cup {i}
             /\ Counts(m_selfPtr \cup {i}, [handles EXCEPT ![i] = @ - 1])

\* erase() of an iterator, of a reference (by equality, that object or not), and the
\* destructor: what is unlinked is given to disposer().
Erase(out) == /\ m_container' = m_container \ out
              /\ Counts(m_selfPtr \ out, handles)
              /\ UNCHANGED refused

\* take() of an iterator or of a reference: the pointer comes from that object, and
\* what is unlinked is equal to it.
Take(i) == /\ i \in alive
           /\ i \in m_selfPtr => handles[i] < MaxHandles
           /\ m_container' = m_container \ Equal(i)
           /\ refused' = refused \cup (Equal(i) \ {i})
           /\ Counts(m_selfPtr \ {i}, IF i \in m_selfPtr THEN [handles EXCEPT ![i] = @ + 1] ELSE handles)

\* find(); retrieveSharedPtr() of what is found
Retrieve(i) == /\ i \in m_container /\ i \in m_selfPtr
               /\ handles[i] < MaxHandles
               /\ Counts(m_selfPtr, [handles EXCEPT ![i] = @ + 1])
               /\ UNCHANGED <<m_container, refused>>

Next == \/ \E i \in Items : \/ CopyHandle(i) \/ DropHandle(i) \/ Insert(i)
                            \/ i \in m_container /\ Erase({i})
                            \/ handles[i] > 0 /\ Erase(Equal(i))
                            \/ Take(i) \/ Retrieve(i)
        \/ Erase(m_container)

Spec == Init /\ [][Next]_vars

-----------------------------------------------------------------------------
\* What is linked is alive and has its own pointer, equal objects are not linked
\* together, and an object that nobody has and that is not in the set has been
\* destroyed, unless an equal object kept it out of the set or took its place when
\* it was to leave.
ItemsAgree ==
    /\ m_container \subseteq alive \cap m_selfPtr
    /\ \A i, j \in m_container : key[i] = key[j] => i = j
    /\ \A i \in alive : handles[i] > 0 \/ i \in m_container \/ i \in refused
=============================================================================
