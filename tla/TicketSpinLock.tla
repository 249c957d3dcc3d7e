--------------------------- MODULE TicketSpinLock ---------------------------
(* src/src/TicketSpinLock.h: a spin lock made of two wrapping counters.      *)
(* lock() draws a ticket from m_next and spins until m_active shows it;      *)
(* unlock() reads m_active and stores its successor, in two separate atomic  *)
(* accesses.  The counters are std::size_t: they wrap at TicketCount = 2^w.  *)
EXTENDS Integers, FiniteSets

CONSTANTS Threads,      \* the threads that share the lock
          TicketCount   \* number of values of the counters, 2^w in the code

ASSUME ThreadsAssumption == IsFiniteSet(Threads)
\* The lock never runs out of tickets: at most 2^w threads use it at a time.
ASSUME TicketAssumption == /\ TicketCount \in Nat \ {0}
                           /\ Cardinality(Threads) <= TicketCount

VARIABLES m_active,   \* the ticket being served
          m_next,     \* the next ticket to hand out
          ticket,     \* the local variable `ticket` of lock()
          seen,       \* what unlock() read from m_active
          pc

vars == <<m_active, m_next, ticket, seen, pc>>

Tickets == 0 .. TicketCount - 1
Succ(n) == IF n = TicketCount - 1 THEN 0 ELSE n + 1

Init == /\ m_active = 0
        /\ m_next = 0
        /\ ticket = [t \in Threads |-> 0]
        /\ seen = [t \in Threads |-> 0]
        /\ pc = [t \in Threads |-> "out"]

\* Bug: two threads draw the same ticket (load and store, no fetch_add).
DrawTicketShared(t) ==
    /\ pc[t] = "out"
    /\ ticket' = [ticket EXCEPT ![t] = m_next]
    /\ m_next' = IF m_next = m_active THEN Succ(m_next) ELSE m_next
    /\ pc' = [pc EXCEPT ![t] = "spin"]
    /\ UNCHANGED <<m_active, seen>>

DrawTicket(t) ==
    /\ pc[t] = "out"
    /\ ticket' = [ticket EXCEPT ![t] = m_next]
    /\ m_next' = Succ(m_next)
    /\ pc' = [pc EXCEPT ![t] = "spin"]
    /\ UNCHANGED <<m_active, seen>>

\* Bug: the loop condition compares with < instead of !=.
AcquireLate(t) ==
    /\ pc[t] = "spin"
    /\ ticket[t] <= m_active
    /\ pc' = [pc EXCEPT ![t] = "held"]
    /\ UNCHANGED <<m_active, m_next, ticket, seen>>

\* Bug: whoever looks when nobody is inside gets in.
AcquireBarging(t) ==
    /\ pc[t] = "spin"
    /\ \A u \in Threads : pc[u] \in {"out", "spin"}
    /\ pc' = [pc EXCEPT ![t] = "held"]
    /\ UNCHANGED <<m_active, m_next, ticket, seen>>

\* A turn of the loop that sees another ticket changes nothing.
Acquire(t) ==
    /\ pc[t] = "spin"
    /\ ticket[t] = m_active
    /\ pc' = [pc EXCEPT ![t] = "held"]
    /\ UNCHANGED <<m_active, m_next, ticket, seen>>

UnlockLoad(t) ==
    /\ pc[t] = "held"
    /\ seen' = [seen EXCEPT ![t] = m_active]
    /\ pc' = [pc EXCEPT ![t] = "unlock"]
    /\ UNCHANGED <<m_active, m_next, ticket>>

UnlockStore(t) ==
    /\ pc[t] = "unlock"
    /\ m_active' = Succ(seen[t])
    /\ pc' = [pc EXCEPT ![t] = "out"]
    /\ UNCHANGED <<m_next, ticket, seen>>

Step(t) == DrawTicket(t) \/ Acquire(t) \/ UnlockLoad(t) \/ UnlockStore(t)

Next == \E t \in Threads : Step(t)

\* A thread that holds or waits for the lock is eventually scheduled, and the
\* critical sections this lock protects are finite.  Nobody has to call lock().
Fairness == \A t \in Threads :
                /\ WF_vars(Acquire(t))
                /\ WF_vars(UnlockLoad(t))
                /\ WF_vars(UnlockStore(t))

Spec == Init /\ [][Next]_vars /\ Fairness

-----------------------------------------------------------------------------
Waiting == {t \in Threads : pc[t] # "out"}
Holding(t) == pc[t] \in {"held", "unlock"}

\* How many unlock() calls away the ticket of t is.
Distance(t) == IF ticket[t] >= m_active
               THEN ticket[t] - m_active
               ELSE ticket[t] - m_active + TicketCount

\* The counters are size_t values, a thread is at one point of lock()/unlock().
TypeOK == /\ m_active \in Tickets
          /\ m_next \in Tickets
          /\ ticket \in [Threads -> Tickets]
          /\ seen \in [Threads -> Tickets]
          /\ pc \in [Threads -> {"out", "spin", "held", "unlock"}]

\* Between lock() and the end of unlock() there is at most one thread, also
\* after the counters have wrapped around.
MutualExclusion == \A t, u \in Threads : Holding(t) /\ Holding(u) => t = u

\* What makes mutual exclusion inductive: the tickets drawn and not yet
\* returned are a window of the counter's range that starts at m_active and
\* ends before m_next, nobody shares a ticket, and a holder owns the first one.
TicketWindow ==
    /\ m_next = IF m_active + Cardinality(Waiting) >= TicketCount
                THEN m_active + Cardinality(Waiting) - TicketCount
                ELSE m_active + Cardinality(Waiting)
    /\ \A t \in Waiting : Distance(t) < Cardinality(Waiting)
    /\ \A t, u \in Waiting : ticket[t] = ticket[u] => t = u
    /\ \A t \in Threads : Holding(t) => ticket[t] = m_active
    /\ \A t \in Threads : pc[t] = "unlock" => seen[t] = m_active

\* The waiting threads, by the distance of their tickets
Rank(t) == Cardinality({u \in Waiting : Distance(u) < Distance(t)})
InLine == [i \in 1 .. Cardinality(Waiting) |-> CHOOSE t \in Waiting : Rank(t) = i - 1]

\* lock() returns in the order in which the tickets were drawn, one thread at
\* a time, and the thread at the front is eventually let in: the lock
\* implements FifoLock.
Fifo == INSTANCE FifoLock
            WITH queue <- InLine, inside <- \E t \in Threads : Holding(t)
ImplementsFifoLock == Fifo!Spec

\* Every call of lock() returns: no thread spins for ever.
NoStarvation == \A t \in Threads : pc[t] = "spin" ~> pc[t] = "held"
=============================================================================
