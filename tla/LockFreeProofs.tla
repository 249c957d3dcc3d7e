--------------------------- MODULE LockFreeProofs ---------------------------
(* The two components that work with atomic variables alone, for instances   *)
(* of every size.                                                            *)
(*                                                                           *)
(* TicketSpinLock: mutual exclusion, and admission in the order of FifoLock, *)
(* for every number of threads and every counter width that can number them. *)
(*                                                                           *)
(* MpscQueue: a node that pop has returned is out of everybody's reach, and  *)
(* the queue is the first-in first-out one of UnboundedFifo.  The links,     *)
(* those that producers are about to store included, form one chain in the   *)
(* order of the exchanges: no node has two successors or two predecessors,   *)
(* the tail has no successor and the first node no predecessor.  What pop    *)
(* returns is the first node, without its successor.                         *)
EXTENDS TicketSpinLock, MpscQueue, FiniteSetTheorems, SequenceTheorems, TLAPS

-----------------------------------------------------------------------------
(* TicketSpinLock *)

LockInv == TypeOK /\ TicketWindow

\* The lock's counters and program counters keep their types.
LEMMA LockInitInvariant == Init => LockInv
<1> SUFFICES ASSUME Init PROVE LockInv
  OBVIOUS
<1> USE TicketAssumption DEF Init
<1>1. TypeOK
  BY DEF TypeOK, Tickets
<1>2. Waiting = {}
  BY DEF Waiting
<1>3. Cardinality(Waiting) = 0
  BY <1>2, FS_EmptySet
<1>4. TicketWindow
  BY <1>2, <1>3 DEF TicketWindow, Holding
<1> QED BY <1>1, <1>4 DEF LockInv

\* Waiting is finite, and it is not everyone while somebody is outside.
LEMMA WaitingFinite ==
  /\ IsFiniteSet(Waiting)
  /\ Cardinality(Waiting) \in Nat
  /\ Cardinality(Waiting) <= TicketCount
  /\ \A t \in Threads : t \notin Waiting => Cardinality(Waiting) < TicketCount
<1>1. Waiting \subseteq Threads
  BY DEF Waiting
<1>2. IsFiniteSet(Threads) /\ Cardinality(Threads) \in Nat
  BY ThreadsAssumption, FS_CardinalityType
<1>3. IsFiniteSet(Waiting) /\ Cardinality(Waiting) \in Nat
      /\ Cardinality(Waiting) <= Cardinality(Threads)
  BY <1>1, <1>2, FS_Subset, FS_CardinalityType
<1>4. ASSUME NEW t \in Threads, t \notin Waiting
      PROVE  Cardinality(Waiting) < Cardinality(Threads)
  BY <1>1, <1>2, <1>3, <1>4, FS_Subset
<1> QED BY <1>2, <1>3, <1>4, TicketAssumption

\* A thread that draws a ticket gets one nobody else has: the window grows by
\* one ticket at its end.
LEMMA DrawTicketStep ==
  ASSUME LockInv, NEW t \in Threads, DrawTicket(t)
  PROVE  LockInv'
<1> USE TicketAssumption DEF LockInv
<1>1. TypeOK'
  BY DEF TypeOK, DrawTicket, Tickets, Succ
<1>2. t \notin Waiting /\ Waiting' = Waiting \cup {t}
  BY DEF Waiting, DrawTicket, TypeOK
<1> DEFINE k == Cardinality(Waiting)
<1>3. k \in Nat /\ k < TicketCount
  BY <1>2, WaitingFinite
<1>4. Cardinality(Waiting') = k + 1
  BY <1>2, WaitingFinite, FS_AddElement
<1> HIDE DEF k
<1>k. Cardinality(Waiting) = k
  BY DEF k
<1>5. m_next' = IF m_active' + (k + 1) >= TicketCount
                THEN m_active' + (k + 1) - TicketCount
                ELSE m_active' + (k + 1)
  BY <1>3, <1>k DEF TicketWindow, DrawTicket, Succ, TypeOK, Tickets
<1>6. ticket'[t] = m_next /\ (\A u \in Waiting : ticket'[u] = ticket[u] /\ u # t)
  BY <1>2 DEF DrawTicket, TypeOK, Waiting
<1>7. ASSUME NEW u \in Waiting' PROVE Distance(u)' < k + 1
  <2>1. CASE u = t
    BY <2>1, <1>3, <1>6, <1>k DEF Distance, DrawTicket, TypeOK, Tickets, TicketWindow
  <2>2. CASE u \in Waiting
    <3>1. Distance(u) < k
      BY <2>2, <1>k DEF TicketWindow
    <3>2. Distance(u)' = Distance(u)
      BY <2>2, <1>6 DEF Distance, DrawTicket
    <3>3. Distance(u) \in Int
      BY <2>2 DEF Distance, TypeOK, Tickets, Waiting
    <3> QED BY <3>1, <3>2, <3>3, <1>3
  <2> QED BY <1>7, <1>2, <2>1, <2>2
<1>8. \A u \in Waiting : ticket[u] # m_next
  <2> SUFFICES ASSUME NEW u \in Waiting, ticket[u] = m_next PROVE FALSE
    OBVIOUS
  <2>1. Distance(u) < k
    BY <1>k DEF TicketWindow
  <2>2. u \in Threads
    BY DEF Waiting
  <2> QED BY <2>1, <2>2, <1>3, <1>k DEF Distance, TypeOK, Tickets, TicketWindow
<1>9. \A u, v \in Waiting' : ticket'[u] = ticket'[v] => u = v
  BY <1>2, <1>6, <1>8 DEF TicketWindow
<1>10. \A u \in Threads : Holding(u)' => ticket'[u] = m_active'
  BY DEF TicketWindow, DrawTicket, Holding, TypeOK
<1>11. \A u \in Threads : pc'[u] = "unlock" => seen'[u] = m_active'
  BY DEF TicketWindow, DrawTicket, TypeOK
<1> QED BY <1>1, <1>4, <1>5, <1>7, <1>9, <1>10, <1>11 DEF TicketWindow

\* unlock() shows the next ticket: the window shrinks by one at its start.
LEMMA UnlockStoreStep ==
  ASSUME LockInv, NEW t \in Threads, UnlockStore(t)
  PROVE  LockInv'
<1> USE TicketAssumption DEF LockInv
<1>1. TypeOK'
  BY DEF TypeOK, UnlockStore, Tickets, Succ
<1>2. t \in Waiting /\ Waiting' = Waiting \ {t}
  BY DEF Waiting, UnlockStore, TypeOK
<1> DEFINE k == Cardinality(Waiting)
<1>3. k \in Nat /\ k <= TicketCount
  BY WaitingFinite
<1>4. Cardinality(Waiting') = k - 1
  BY <1>2, WaitingFinite, FS_RemoveElement
<1> HIDE DEF k
<1>k. Cardinality(Waiting) = k
  BY DEF k
<1>5. m_active' = Succ(m_active) /\ ticket[t] = m_active
  BY DEF UnlockStore, TicketWindow, Holding
<1>p. k >= 1
  <2>1. Distance(t) = 0 /\ Distance(t) < k
    BY <1>2, <1>5, <1>k DEF TicketWindow, Distance, TypeOK, Tickets
  <2> QED BY <2>1, <1>3
<1>6. m_next' = IF m_active' + (k - 1) >= TicketCount
                THEN m_active' + (k - 1) - TicketCount
                ELSE m_active' + (k - 1)
  BY <1>3, <1>p, <1>5, <1>k DEF TicketWindow, UnlockStore, Succ, TypeOK, Tickets
<1>7. \A u \in Waiting' : ticket'[u] = ticket[u] /\ ticket[u] # m_active
  BY <1>2, <1>5 DEF TicketWindow, UnlockStore
<1>8. ASSUME NEW u \in Waiting' PROVE Distance(u)' < k - 1
  <2>1. u \in Threads /\ u \in Waiting
    BY <1>2 DEF Waiting
  <2>2. Distance(u) < k
    BY <2>1, <1>k DEF TicketWindow
  <2> QED BY <2>1, <2>2, <1>3, <1>5, <1>7 DEF Distance, Succ, TypeOK, Tickets
<1>9. \A u, v \in Waiting' : ticket'[u] = ticket'[v] => u = v
  BY <1>2, <1>7 DEF TicketWindow
<1>10. \A u \in Threads : ~ Holding(u)'
  <2> SUFFICES ASSUME NEW u \in Threads, Holding(u)' PROVE FALSE
    OBVIOUS
  <2>1. u \in Waiting' /\ Holding(u)
    BY DEF UnlockStore, Holding, TypeOK, Waiting
  <2> QED BY <2>1, <1>7 DEF TicketWindow
<1>11. \A u \in Threads : pc'[u] # "unlock"
  BY <1>10 DEF Holding
<1> QED BY <1>1, <1>4, <1>6, <1>8, <1>9, <1>10, <1>11 DEF TicketWindow

\* No step of lock() or unlock() leaves the invariant.
LEMMA LockStepInvariant == LockInv /\ [Next]_vars => LockInv'
<1> SUFFICES ASSUME LockInv, [Next]_vars PROVE LockInv'
  OBVIOUS
<1>1. ASSUME NEW t \in Threads, Acquire(t) PROVE LockInv'
  <2>1. Waiting' = Waiting /\ (\A u \in Threads : Distance(u)' = Distance(u))
    BY <1>1 DEF Acquire, Waiting, Distance, LockInv, TypeOK
  <2>2. TypeOK'
    BY <1>1 DEF Acquire, LockInv, TypeOK
  <2>3. Waiting \subseteq Threads
    BY DEF Waiting
  <2> QED BY <1>1, <2>1, <2>2, <2>3 DEF LockInv, TicketWindow, Acquire, Holding, TypeOK
<1>2. ASSUME NEW t \in Threads, UnlockLoad(t) PROVE LockInv'
  <2>1. Waiting' = Waiting /\ (\A u \in Threads : Distance(u)' = Distance(u))
    BY <1>2 DEF UnlockLoad, Waiting, Distance, LockInv, TypeOK
  <2>2. TypeOK'
    BY <1>2 DEF UnlockLoad, LockInv, TypeOK
  <2>3. Waiting \subseteq Threads
    BY DEF Waiting
  <2> QED BY <1>2, <2>1, <2>2, <2>3 DEF LockInv, TicketWindow, UnlockLoad, Holding, TypeOK
<1>3. CASE UNCHANGED vars
  BY <1>3 DEF vars, LockInv, TypeOK, TicketWindow, Waiting, Distance, Holding
<1> QED BY <1>1, <1>2, <1>3, DrawTicketStep, UnlockStoreStep DEF Next, Step

\* The invariant excludes two holders: both would own the ticket m_active.
LEMMA WindowExcludes == LockInv => MutualExclusion
  BY DEF LockInv, TicketWindow, MutualExclusion, Waiting, Holding

\* Every reachable state is well typed and keeps the window of tickets.
THEOREM WindowIsInvariant == Spec => [](TypeOK /\ TicketWindow)
<1>1. LockInv /\ [Next]_vars => LockInv'
  BY LockStepInvariant
<1> QED BY LockInitInvariant, <1>1, PTL DEF Spec, LockInv

\* At most one thread is between lock() and the end of unlock(), whatever the
\* number of threads, however often the counters wrap.
THEOREM MutualExclusionHolds == Spec => []MutualExclusion
  BY WindowIsInvariant, WindowExcludes, PTL DEF LockInv

-----------------------------------------------------------------------------
(* TicketSpinLock admits in order                                            *)

\* The distances of the waiting threads are 0, 1, ..., and the line has the
\* threads in their order.
LineFact == /\ Cardinality(Waiting) \in Nat
            /\ InLine \in Seq(Threads) /\ Len(InLine) = Cardinality(Waiting)
            /\ \A i \in 1 .. Cardinality(Waiting) :
                  \E t \in Waiting : InLine[i] = t /\ Distance(t) = i - 1
            /\ \A t \in Waiting : Distance(t) \in 0 .. Cardinality(Waiting) - 1
            /\ \A t, u \in Waiting : Distance(t) = Distance(u) => t = u

\* The tickets drawn are as many as the places of their window, so that every
\* place is taken and the rank of a thread is its distance.
LEMMA LineIs == LockInv => LineFact
<1> SUFFICES ASSUME LockInv PROVE LineFact
    OBVIOUS
<1> DEFINE k == Cardinality(Waiting)
           distance == [t \in Waiting |-> Distance(t)]
<1>1. k \in Nat /\ IsFiniteSet(Waiting) /\ Waiting \subseteq Threads
      BY WaitingFinite DEF Waiting
<1>2. \A t \in Waiting : Distance(t) \in 0 .. k - 1
  <2> SUFFICES ASSUME NEW t \in Waiting PROVE Distance(t) \in 0 .. k - 1
      OBVIOUS
  <2>1. Distance(t) \in Nat
        BY <1>1, TicketAssumption DEF LockInv, TypeOK, Tickets, Distance
  <2>2. Distance(t) < k
        BY DEF LockInv, TicketWindow
  <2> QED BY <1>1, <2>1, <2>2
<1>3. \A t, u \in Waiting : Distance(t) = Distance(u) => t = u
  <2> SUFFICES ASSUME NEW t \in Waiting, NEW u \in Waiting, Distance(t) = Distance(u)
               PROVE  t = u
      OBVIOUS
  <2>1. ticket[t] \in Tickets /\ ticket[u] \in Tickets /\ m_active \in Tickets
        BY <1>1 DEF LockInv, TypeOK
  <2>2. ticket[t] = ticket[u]
        BY <2>1, TicketAssumption DEF Distance, Tickets
  <2> QED BY <2>2 DEF LockInv, TicketWindow
<1>4. distance \in Bijection(Waiting, 0 .. k - 1)
  <2>1. distance \in Injection(Waiting, 0 .. k - 1)
        BY <1>2, <1>3 DEF Injection, IsInjective
  <2>2. IsFiniteSet(0 .. k - 1) /\ Cardinality(0 .. k - 1) = k
        BY <1>1, FS_Interval
  <2>3. distance \in Surjection(Waiting, 0 .. k - 1)
        BY <2>1, <2>2, FS_Injection
  <2> QED BY <2>1, <2>3 DEF Bijection
<1>5. ASSUME NEW t \in Waiting PROVE Rank(t) = Distance(t)
  <2> DEFINE before == {u \in Waiting : Distance(u) < Distance(t)}
             among == [u \in before |-> Distance(u)]
             d == Distance(t)
  <2>1. d \in 0 .. k - 1
        BY <1>2
  <2>2. \A u \in before : Distance(u) \in 0 .. d - 1 /\ u \in Waiting
        BY <1>1, <1>2, <2>1
  <2>3. among \in Injection(before, 0 .. d - 1)
        BY <1>3, <2>2 DEF Injection, IsInjective
  <2>4. among \in Surjection(before, 0 .. d - 1)
    <3>1. ASSUME NEW e \in 0 .. d - 1 PROVE \E u \in before : among[u] = e
      <4>1. e \in 0 .. k - 1
            BY <1>1, <2>1
      <4>2. PICK u \in Waiting : distance[u] = e
            BY <1>4, <4>1 DEF Bijection, Surjection
      <4>3. Distance(u) = e /\ e < d
            BY <2>1, <4>2
      <4> QED BY <4>3
    <3> QED BY <2>3, <3>1 DEF Injection, Surjection
  <2>5. ExistsBijection(before, 0 .. d - 1)
        BY <2>3, <2>4 DEF Bijection, ExistsBijection
  <2>6. IsFiniteSet(before)
        BY <1>1, FS_Subset
  <2>7. Cardinality(before) = Cardinality(0 .. d - 1)
        BY <2>5, <2>6, FS_Bijection
  <2>8. Cardinality(0 .. d - 1) = d
        BY <1>1, <2>1, FS_Interval
  <2> QED BY <2>7, <2>8 DEF Rank
<1>6. ASSUME NEW i \in 1 .. k
      PROVE  InLine[i] \in Waiting /\ \E t \in Waiting : InLine[i] = t /\ Distance(t) = i - 1
  <2>1. i - 1 \in 0 .. k - 1
        BY <1>1
  <2>2. PICK t \in Waiting : distance[t] = i - 1
        BY <1>4, <2>1 DEF Bijection, Surjection
  <2>3. \E u \in Waiting : Rank(u) = i - 1
        BY <1>5, <2>2
  <2>4. InLine[i] = CHOOSE u \in Waiting : Rank(u) = i - 1
        BY DEF InLine
  <2>5. InLine[i] \in Waiting /\ Rank(InLine[i]) = i - 1
        BY <2>3, <2>4
  <2> QED BY <1>5, <2>5
<1>7. InLine \in Seq(Threads) /\ Len(InLine) = k
  <2>1. InLine \in [1 .. k -> Threads]
        BY <1>1, <1>6 DEF InLine
  <2> QED BY <1>1, <2>1
<1> QED BY <1>1, <1>2, <1>3, <1>6, <1>7 DEF LineFact

\* unlock() comes from the first thread of the line, lock() adds one behind.
LEMMA DrawTicketAsks ==
    ASSUME LockInv, LockInv', NEW t \in Threads, DrawTicket(t)
    PROVE  Fifo!Ask(t)
<1> DEFINE k == Cardinality(Waiting)
<1>1. /\ t \notin Waiting /\ Waiting' = Waiting \cup {t}
      /\ \A u \in Waiting : Distance(u)' = Distance(u) /\ u # t
      /\ \A u \in Threads : Holding(u)' <=> Holding(u)
      BY DEF Waiting, Holding, DrawTicket, Distance, LockInv, TypeOK
<1>2. LineFact /\ LineFact'
      BY LineIs, PTL
<1>3. k \in Nat /\ Cardinality(Waiting') = k + 1
      BY <1>1, WaitingFinite, FS_AddElement
<1>4. Distance(t)' = k
  <2>1. \A u \in Waiting : Distance(u) < k /\ Distance(u) \in Nat
        BY <1>2, <1>3 DEF LineFact
  <2>2. Len(InLine') = k + 1 /\ k + 1 \in 1 .. k + 1
        BY <1>2, <1>3 DEF LineFact
  <2>3. PICK u \in Waiting' : Distance(u)' = k
        BY <1>2, <1>3, <2>2 DEF LineFact
  <2> QED BY <1>1, <1>3, <2>1, <2>3
<1>5. /\ Append(InLine, t) \in Seq(Threads) /\ Len(Append(InLine, t)) = k + 1
      /\ \A i \in 1 .. k : Append(InLine, t)[i] = InLine[i]
      /\ Append(InLine, t)[k + 1] = t
      BY <1>2, <1>3 DEF LineFact
<1>6. ASSUME NEW i \in 1 .. k + 1 PROVE InLine'[i] = Append(InLine, t)[i]
  <2>1. PICK v \in Waiting' : InLine'[i] = v /\ Distance(v)' = i - 1
        BY <1>2, <1>3 DEF LineFact
  <2>2. \A u \in Waiting' : Distance(u)' = i - 1 => u = InLine'[i]
        BY <1>2, <2>1 DEF LineFact
  <2>3. CASE i = k + 1
        BY <1>1, <1>3, <1>4, <1>5, <2>2, <2>3
  <2>4. CASE i # k + 1
    <3>1. i \in 1 .. k
          BY <1>3, <2>4
    <3>2. PICK u \in Waiting : InLine[i] = u /\ Distance(u) = i - 1
          BY <1>2, <3>1 DEF LineFact
    <3>3. u \in Waiting' /\ Distance(u)' = i - 1
          BY <1>1, <3>2
    <3> QED BY <1>5, <2>2, <3>1, <3>2, <3>3
  <2> QED BY <2>3, <2>4
<1>7. InLine' \in Seq(Threads) /\ Len(InLine') = k + 1
      BY <1>2, <1>3 DEF LineFact
<1>8. InLine' = Append(InLine, t)
      BY <1>5, <1>6, <1>7, SeqEqual
<1>9. t \notin Fifo!Queued
      BY <1>1, <1>2 DEF LineFact, Fifo!Queued
<1> QED BY <1>1, <1>8, <1>9 DEF Fifo!Ask

LEMMA UnlockStoreLeaves ==
    ASSUME LockInv, LockInv', NEW t \in Threads, UnlockStore(t)
    PROVE  Fifo!Leave
<1> DEFINE k == Cardinality(Waiting)
<1>1. /\ t \in Waiting /\ Waiting' = Waiting \ {t} /\ Holding(t)
      /\ \A u \in Threads : Holding(u)' => Holding(u) /\ u # t
      BY DEF Waiting, Holding, UnlockStore, LockInv, TypeOK
<1>2. LineFact /\ LineFact'
      BY LineIs, PTL
<1>3. k \in Nat \ {0} /\ Cardinality(Waiting') = k - 1
  <2>1. k \in Nat /\ Cardinality(Waiting') = k - 1 /\ IsFiniteSet(Waiting)
        BY <1>1, WaitingFinite, FS_RemoveElement
  <2>2. k # 0
        BY <1>1, <2>1, FS_EmptySet
  <2> QED BY <2>1, <2>2
<1>4. /\ ticket[t] = m_active /\ m_active' = Succ(m_active) /\ ticket' = ticket
      /\ ticket \in [Threads -> Tickets] /\ m_active \in Tickets
      BY <1>1 DEF UnlockStore, LockInv, TypeOK, TicketWindow
<1>5. \A u \in Waiting' : u \in Waiting /\ Distance(u)' = Distance(u) - 1
  <2> SUFFICES ASSUME NEW u \in Waiting' PROVE u \in Waiting /\ Distance(u)' = Distance(u) - 1
      OBVIOUS
  <2>1. u \in Waiting /\ u \in Threads /\ u # t
        BY <1>1 DEF Waiting
  <2>2. ticket[u] # m_active
        BY <1>1, <1>4, <2>1 DEF LockInv, TicketWindow
  <2> QED BY <1>4, <2>1, <2>2, TicketAssumption DEF Distance, Succ, Tickets
<1>6. /\ Tail(InLine) \in Seq(Threads) /\ Len(Tail(InLine)) = k - 1
      /\ \A i \in 1 .. k - 1 : Tail(InLine)[i] = InLine[i + 1]
      BY <1>2, <1>3 DEF LineFact
<1>7. ASSUME NEW i \in 1 .. k - 1 PROVE InLine'[i] = Tail(InLine)[i]
  <2>1. PICK u \in Waiting' : InLine'[i] = u /\ Distance(u)' = i - 1
        BY <1>2, <1>3 DEF LineFact
  <2>2. u \in Waiting /\ Distance(u) = i
        BY <1>2, <1>5, <2>1 DEF LineFact
  <2>3. i + 1 \in 1 .. k
        BY <1>3
  <2>4. PICK v \in Waiting : InLine[i + 1] = v /\ Distance(v) = i
        BY <1>2, <2>3 DEF LineFact
  <2> QED BY <1>2, <1>6, <2>1, <2>2, <2>4 DEF LineFact
<1>8. InLine' = Tail(InLine)
      BY <1>2, <1>3, <1>6, <1>7, SeqEqual DEF LineFact
<1>9. \A u \in Threads : ~Holding(u)'
      BY <1>1 DEF LockInv, TicketWindow, Waiting, Holding
<1> QED BY <1>1, <1>8, <1>9 DEF Fifo!Leave

LEMMA LockRefines == LockInv /\ LockInv' /\ [Next]_vars => [Fifo!Next]_Fifo!vars
<1> SUFFICES ASSUME LockInv, LockInv', [Next]_vars PROVE [Fifo!Next]_Fifo!vars
    OBVIOUS
<1>1. ASSUME Waiting' = Waiting, \A u \in Threads : Distance(u)' = Distance(u)
      PROVE  InLine' = InLine
  <2>1. \A u \in Waiting : Rank(u)' = Rank(u) /\ u \in Threads
        BY <1>1 DEF Rank, Waiting
  <2> QED BY <1>1, <2>1 DEF InLine
<1>2. ASSUME NEW t \in Threads, DrawTicket(t) PROVE Fifo!Next
      BY <1>2, DrawTicketAsks DEF Fifo!Next
<1>3. ASSUME NEW t \in Threads, Acquire(t) PROVE Fifo!Next
  <2>1. /\ Waiting' = Waiting /\ \A u \in Threads : Distance(u)' = Distance(u)
        /\ t \in Waiting /\ Holding(t)'
        BY <1>3 DEF Acquire, Waiting, Distance, Holding, LockInv, TypeOK
  <2>2. \A u \in Threads : ~Holding(u)
        BY <1>3 DEF Acquire, Holding, Waiting, LockInv, TicketWindow
  <2>3. InLine # <<>>
    <3>1. LineFact
          BY LineIs
    <3>2. Cardinality(Waiting) # 0
          BY <2>1, WaitingFinite, FS_EmptySet
    <3> QED BY <3>1, <3>2 DEF LineFact
  <2> QED BY <1>1, <2>1, <2>2, <2>3 DEF Fifo!Next, Fifo!Enter
<1>4. ASSUME NEW t \in Threads, UnlockLoad(t) PROVE UNCHANGED Fifo!vars
  <2>1. /\ Waiting' = Waiting /\ \A u \in Threads : Distance(u)' = Distance(u)
        /\ \A u \in Threads : Holding(u)' <=> Holding(u)
        BY <1>4 DEF UnlockLoad, Waiting, Distance, Holding, LockInv, TypeOK
  <2> QED BY <1>1, <2>1 DEF Fifo!vars
<1>5. ASSUME NEW t \in Threads, UnlockStore(t) PROVE Fifo!Next
      BY <1>5, UnlockStoreLeaves DEF Fifo!Next
<1>6. CASE UNCHANGED vars
  <2>1. /\ Waiting' = Waiting /\ \A u \in Threads : Distance(u)' = Distance(u)
        /\ \A u \in Threads : Holding(u)' <=> Holding(u)
        BY <1>6 DEF vars, Waiting, Distance, Holding
  <2> QED BY <1>1, <2>1 DEF Fifo!vars
<1> QED BY <1>2, <1>3, <1>4, <1>5, <1>6 DEF Next, Step

\* lock() admits threads one at a time in the order in which they drew their
\* tickets, for every number of threads and across any number of wrap-arounds.
THEOREM AdmitsInOrder == Spec => Fifo!Safety
<1>1. Init => Fifo!Init
  <2>1. SUFFICES ASSUME Init PROVE Fifo!Init
        OBVIOUS
  <2>2. Waiting = {} /\ \A t \in Threads : ~Holding(t)
        BY <2>1 DEF Init, Waiting, Holding
  <2>3. Cardinality(Waiting) = 0
        BY <2>2, FS_EmptySet
  <2>4. InLine = <<>>
        BY <2>3 DEF InLine
  <2> QED BY <2>2, <2>4 DEF Fifo!Init
<1> QED BY <1>1, LockInitInvariant, LockStepInvariant, LockRefines, PTL DEF Spec, Fifo!Safety

-----------------------------------------------------------------------------
(* MpscQueue *)

\* What pop has not given back: the node it will return is still before m_head.
FirstNode == IF at = "clear" THEN head ELSE m_head

OneSuccessor == \A p \in Producers : newNode[p] # NoNode =>
    /\ next[oldTail[p]] = NoNode
    /\ \A q \in Producers : oldTail[q] = oldTail[p] => q = p

OnePredecessor ==
    /\ \A k, l \in Nodes : next[k] = next[l] /\ next[k] # NoNode => k = l
    /\ \A p, q \in Producers : newNode[p] = newNode[q] /\ newNode[p] # NoNode => p = q
    /\ \A k \in Nodes, p \in Producers : next[k] = newNode[p] => next[k] = NoNode

TailIsLast == m_tail # NoNode =>
    /\ next[m_tail] = NoNode
    /\ \A p \in Producers : oldTail[p] # m_tail

FrontIsFirst == FirstNode # NoNode =>
    /\ \A k \in Nodes : next[k] # FirstNode
    /\ \A p \in Producers : newNode[p] # FirstNode

\* The local variables of pop
PopHoldsFront ==
    /\ at = "idle" => head = NoNode /\ second = NoNode
    /\ at # "idle" => /\ head \in Nodes /\ second \in Nodes /\ next[head] = second
                      /\ m_head = IF at = "clear" THEN second ELSE head

\* The destructor runs alone, on a queue that exists.
ClosingIsAlone == closing => /\ m_head # NoNode
                             /\ \A p \in Producers : newNode[p] = NoNode

QueueInv == /\ QueueTypeOK /\ OneSuccessor /\ OnePredecessor /\ TailIsLast /\ FrontIsFirst
            /\ PopHoldsFront /\ ClosingIsAlone /\ HeldIsUnreachable

LEMMA QueueInitInvariant == QueueInit => QueueInv
<1> SUFFICES ASSUME QueueInit PROVE QueueInv
    OBVIOUS
<1> USE NoneAssumption
<1>1. PICK n \in Nodes : m_head = n /\ m_tail = n /\ held = Nodes \ {n}
      BY DEF QueueInit
<1>2. QueueTypeOK
      BY <1>1 DEF QueueInit, QueueTypeOK
<1>3. OneSuccessor /\ OnePredecessor /\ TailIsLast
      BY <1>1 DEF QueueInit, OneSuccessor, OnePredecessor, TailIsLast
<1>4. FrontIsFirst /\ PopHoldsFront /\ ClosingIsAlone
      BY <1>1 DEF QueueInit, FrontIsFirst, PopHoldsFront, ClosingIsAlone, FirstNode
<1>5. HeldIsUnreachable
      BY <1>1 DEF QueueInit, HeldIsUnreachable
<1> QED BY <1>2, <1>3, <1>4, <1>5 DEF QueueInv

-----------------------------------------------------------------------------
\* The new node becomes the tail, and the producer's to link.
LEMMA ExchangeKeepsInvariant ==
    ASSUME QueueInv, NEW p \in Producers, NEW n \in Nodes, NEW i \in Items, Exchange(p, n, i)
    PROVE  QueueInv'
<1> USE NoneAssumption DEF QueueInv, QueueTypeOK, Exchange, popping
<1>1. QueueTypeOK'
      OBVIOUS
<1>2. OneSuccessor' /\ TailIsLast'
      BY DEF OneSuccessor, TailIsLast, HeldIsUnreachable
<1>3. OnePredecessor'
      BY DEF OnePredecessor, HeldIsUnreachable
<1>4. FrontIsFirst' /\ PopHoldsFront' /\ ClosingIsAlone'
      BY DEF FrontIsFirst, PopHoldsFront, ClosingIsAlone, FirstNode, HeldIsUnreachable
<1>5. HeldIsUnreachable'
      BY DEF HeldIsUnreachable
<1> QED BY <1>1, <1>2, <1>3, <1>4, <1>5

\* The link that was to come is there.
LEMMA LinkKeepsInvariant ==
    ASSUME QueueInv, NEW p \in Producers, Link(p)
    PROVE  QueueInv'
<1> USE NoneAssumption DEF QueueInv, QueueTypeOK, Link, popping
<1>1. QueueTypeOK'
      OBVIOUS
<1>2. OneSuccessor' /\ TailIsLast'
      BY DEF OneSuccessor, TailIsLast
<1>3. OnePredecessor'
      BY DEF OnePredecessor, OneSuccessor
<1>4. FrontIsFirst' /\ PopHoldsFront' /\ ClosingIsAlone'
      BY DEF FrontIsFirst, PopHoldsFront, ClosingIsAlone, FirstNode, OneSuccessor
<1>5. HeldIsUnreachable'
      BY DEF HeldIsUnreachable
<1> QED BY <1>1, <1>2, <1>3, <1>4, <1>5

\* pop takes the first node from the list before it returns it.
LEMMA PopKeepsInvariant ==
    ASSUME QueueInv, Pop
    PROVE  QueueInv'
<1> USE NoneAssumption
    DEF QueueInv, QueueTypeOK, OneSuccessor, OnePredecessor, TailIsLast, FrontIsFirst,
        PopHoldsFront, ClosingIsAlone, HeldIsUnreachable, FirstNode, list, pushing
<1>1. CASE LoadNext
      BY <1>1 DEF LoadNext
<1>2. CASE MoveData
      BY <1>2 DEF MoveData
<1>3. CASE StoreHead
      BY <1>3 DEF StoreHead
<1>4. CASE Return
      BY <1>4 DEF Return
<1> QED BY <1>1, <1>2, <1>3, <1>4 DEF Pop

\* The queue is destroyed ...
LEMMA DeleteHeadKeepsInvariant ==
    ASSUME QueueInv, DeleteHead
    PROVE  QueueInv'
<1> USE NoneAssumption
<1>1. /\ at = "idle" /\ m_head \in Nodes /\ next[m_head] = NoNode
      /\ \A p \in Producers : newNode[p] = NoNode /\ oldTail[p] = NoNode
      BY DEF QueueInv, QueueTypeOK, ClosingIsAlone, DeleteHead
<1>2. /\ m_head' = NoNode /\ m_tail' = NoNode /\ held' = held \cup {m_head} /\ closing' = FALSE
      /\ UNCHANGED <<next, data, newNode, oldTail, head, second, at, popped>>
      BY DEF DeleteHead, pushing
<1>3. QueueTypeOK'
      BY <1>1, <1>2 DEF QueueInv, QueueTypeOK
<1>4. OneSuccessor' /\ OnePredecessor'
      BY <1>1, <1>2 DEF QueueInv, OneSuccessor, OnePredecessor
<1>5. TailIsLast' /\ FrontIsFirst' /\ PopHoldsFront' /\ ClosingIsAlone'
      BY <1>1, <1>2 DEF QueueInv, TailIsLast, FrontIsFirst, PopHoldsFront, ClosingIsAlone, FirstNode
<1>6. HeldIsUnreachable'
      BY <1>1, <1>2 DEF QueueInv, FrontIsFirst, FirstNode, PopHoldsFront, HeldIsUnreachable
<1> QED BY <1>3, <1>4, <1>5, <1>6 DEF QueueInv

\* ... and another is made.
LEMMA OwnerKeepsInvariant ==
    ASSUME QueueInv, Destroy \/ DeleteHead \/ Construct
    PROVE  QueueInv'
<1>1. CASE Destroy
      BY <1>1, NoneAssumption
      DEF QueueInv, QueueTypeOK, OneSuccessor, OnePredecessor, TailIsLast, FrontIsFirst,
          PopHoldsFront, ClosingIsAlone, HeldIsUnreachable, FirstNode, list, pushing, Destroy
<1>2. CASE DeleteHead
      BY <1>2, DeleteHeadKeepsInvariant
<1>3. CASE Construct
      BY <1>3, NoneAssumption
      DEF QueueInv, QueueTypeOK, OneSuccessor, OnePredecessor, TailIsLast, FrontIsFirst,
          PopHoldsFront, ClosingIsAlone, HeldIsUnreachable, FirstNode, pushing, popping, Construct
<1> QED BY <1>1, <1>2, <1>3

LEMMA QueueStepInvariant == QueueInv /\ [QueueNext]_queueVars => QueueInv'
<1> SUFFICES ASSUME QueueInv, [QueueNext]_queueVars
             PROVE  QueueInv'
    OBVIOUS
<1>1. CASE UNCHANGED queueVars
      BY <1>1 DEF queueVars, list, pushing, popping, QueueInv, QueueTypeOK, OneSuccessor,
                  OnePredecessor, TailIsLast, FrontIsFirst, PopHoldsFront, ClosingIsAlone,
                  HeldIsUnreachable, FirstNode
<1>2. CASE QueueNext
      BY <1>2, ExchangeKeepsInvariant, LinkKeepsInvariant, PopKeepsInvariant, OwnerKeepsInvariant
      DEF QueueNext, Push
<1> QED BY <1>1, <1>2

\* A node returned by pop, or not yet pushed, is not in the hands of a producer
\* or of the queue, so that its user may push it again or delete it, although
\* producers go on with pushes they began when it was in the list.
THEOREM HeldIsUnreachableHolds == QueueSpec => []HeldIsUnreachable
<1>1. QueueInv => HeldIsUnreachable
      BY DEF QueueInv
<1> QED BY <1>1, QueueInitInvariant, QueueStepInvariant, PTL DEF QueueSpec
-----------------------------------------------------------------------------
(* MpscQueue implements UnboundedFifo                                        *)

\* Where the list begins: the node that pop will return is out of it once its
\* successor's item has been moved.
Foremost == IF at = "store" THEN second ELSE m_head

\* The nodes exchanged, from the first on: each is linked to the next one, or
\* the producer of the next one is about to link it; with the queue they share
\* no node that users or a pop about to end hold.
Chain ==
    /\ order \in Seq(Nodes)
    /\ m_head = NoNode => order = <<>> /\ m_tail = NoNode
    /\ m_head # NoNode => Len(order) >= 1 /\ order[1] = Foremost /\ order[Len(order)] = m_tail
    /\ \A i, k \in 1 .. Len(order) : order[i] = order[k] => i = k
    /\ \A i \in 1 .. Len(order) - 1 :
          \/ next[order[i]] = order[i + 1]
          \/ \E p \in Producers : oldTail[p] = order[i] /\ newNode[p] = order[i + 1]
    /\ \A i \in 1 .. Len(order) :
          /\ order[i] \notin held
          /\ at \in {"store", "clear"} => order[i] # head

ChainInv == QueueInv /\ Chain

\* The items behind the first node, and the one that pop is returning
Behind == [k \in 1 .. Len(order) - 1 |-> data[order[k + 1]]]
Returning == IF at \in {"store", "clear"} THEN <<data[head]>> ELSE <<>>

LEMMA BehindIs ==
    ASSUME ChainInv
    PROVE  /\ Contents = Returning \o Behind
           /\ Behind \in Seq(Items \cup {NoItem})
           /\ Returning \in Seq(Items \cup {NoItem})
           /\ Len(order) \in Nat
           /\ Len(order) >= 1 => Len(Behind) = Len(order) - 1
           /\ \A k \in 1 .. Len(order) - 1 : Behind[k] = data[order[k + 1]]
<1>1. /\ order \in Seq(Nodes) /\ Len(order) \in Nat /\ data \in [Nodes -> Items \cup {NoItem}]
      /\ at \in {"store", "clear"} => head \in Nodes
      BY DEF ChainInv, QueueInv, QueueTypeOK, PopHoldsFront, Chain
<1>2. Returning \in Seq(Items \cup {NoItem})
      BY <1>1 DEF Returning
<1>3. \A k \in 1 .. Len(order) - 1 :
         Behind[k] = data[order[k + 1]] /\ Behind[k] \in Items \cup {NoItem}
      BY <1>1 DEF Behind
<1>4. CASE Len(order) >= 1
  <2>1. Len(order) - 1 \in Nat
        BY <1>1, <1>4
  <2>2. Behind \in [1 .. Len(order) - 1 -> Items \cup {NoItem}]
        BY <1>3 DEF Behind
  <2>3. Behind \in Seq(Items \cup {NoItem}) /\ Len(Behind) = Len(order) - 1
        BY <2>1, <2>2
  <2> QED BY <1>1, <1>2, <1>3, <2>3 DEF Contents, Returning, Behind
<1>5. CASE Len(order) = 0
  <2>1. Behind = <<>>
        BY <1>5 DEF Behind
  <2> QED BY <1>1, <1>2, <1>3, <1>5, <2>1 DEF Contents, Returning, Behind
<1> QED BY <1>1, <1>4, <1>5

\* An exchange is a push, at whatever distance from the front the links end.
LEMMA ExchangeStep ==
    ASSUME ChainInv, QueueInv', NEW p \in Producers, NEW n \in Nodes, NEW i \in Items,
           Exchange(p, n, i)
    PROVE  ChainInv' /\ Contents' = Append(Contents, i) /\ popped' = popped
<1> USE NoneAssumption DEF ChainInv
<1>1. /\ m_tail # NoNode /\ m_head # NoNode /\ n \in held /\ newNode[p] = NoNode
      /\ data' = [data EXCEPT ![n] = i] /\ held' = held \ {n}
      /\ newNode' = [newNode EXCEPT ![p] = n] /\ oldTail' = [oldTail EXCEPT ![p] = m_tail]
      /\ m_tail' = n /\ order' = Append(order, n)
      /\ UNCHANGED <<m_head, next, head, second, at, closing, popped>>
      BY DEF Exchange, popping, Chain
<1>2. /\ order \in Seq(Nodes) /\ Len(order) \in Nat \ {0}
      /\ order' \in Seq(Nodes) /\ Len(order') = Len(order) + 1
      /\ \A k \in 1 .. Len(order) : order'[k] = order[k] /\ order[k] # n /\ order[k] \in Nodes
      /\ order'[Len(order) + 1] = n /\ order[Len(order)] = m_tail
      BY <1>1 DEF Chain
<1>3. /\ n # head /\ n # second
      BY <1>1 DEF QueueInv, HeldIsUnreachable
<1>4. \A k \in 1 .. Len(order') : k = Len(order) + 1 \/ k \in 1 .. Len(order)
      BY <1>2
<1>5. Chain'
  <2>1. Len(order') >= 1 /\ order'[1] = Foremost' /\ order'[Len(order')] = m_tail'
        BY <1>1, <1>2 DEF Chain, Foremost
  <2>2. \A j, k \in 1 .. Len(order') : order'[j] = order'[k] => j = k
        BY <1>2, <1>4 DEF Chain
  <2>3. ASSUME NEW k \in 1 .. Len(order') - 1
        PROVE  \/ next'[order'[k]] = order'[k + 1]
               \/ \E q \in Producers : oldTail'[q] = order'[k] /\ newNode'[q] = order'[k + 1]
    <3>1. CASE k = Len(order)
      <4>1. oldTail'[p] = m_tail /\ newNode'[p] = n
            BY <1>1 DEF QueueInv, QueueTypeOK
      <4> QED BY <3>1, <4>1, <1>2
    <3>2. CASE k # Len(order)
      <4>1. /\ k \in 1 .. Len(order) - 1 /\ order'[k] = order[k] /\ order'[k + 1] = order[k + 1]
            /\ order[k + 1] \in Nodes
            BY <3>2, <1>2
      <4>2. CASE next[order[k]] = order[k + 1]
            BY <4>1, <4>2, <1>1
      <4>3. ASSUME NEW q \in Producers, oldTail[q] = order[k], newNode[q] = order[k + 1]
            PROVE  oldTail'[q] = order'[k] /\ newNode'[q] = order'[k + 1]
            BY <4>1, <4>3, <1>1 DEF QueueInv, QueueTypeOK
      <4> QED BY <4>1, <4>2, <4>3 DEF Chain
    <3> QED BY <3>1, <3>2
  <2>4. \A k \in 1 .. Len(order') :
           order'[k] \notin held' /\ (at' \in {"store", "clear"} => order'[k] # head')
        BY <1>1, <1>2, <1>3, <1>4 DEF Chain
  <2> QED BY <1>1, <1>2, <2>1, <2>2, <2>3, <2>4 DEF Chain
<1>6. Returning' = Returning
      BY <1>1, <1>3 DEF Returning, QueueInv, QueueTypeOK, PopHoldsFront
<1>7. Behind' = Append(Behind, i)
  <2>1. /\ Append(Behind, i) \in Seq(Items \cup {NoItem})
        /\ Len(Append(Behind, i)) = Len(order)
        /\ \A k \in 1 .. Len(order) - 1 : Append(Behind, i)[k] = data[order[k + 1]]
        /\ Append(Behind, i)[Len(order)] = i
    <3>1. /\ Behind \in Seq(Items \cup {NoItem}) /\ Len(Behind) = Len(order) - 1
          /\ \A k \in 1 .. Len(order) - 1 : Behind[k] = data[order[k + 1]]
          BY <1>2, BehindIs
    <3> HIDE DEF Behind
    <3> QED BY <3>1, <1>2
  <2>2. Behind' = [k \in 1 .. Len(order) |-> data'[order'[k + 1]]]
        BY <1>2 DEF Behind
  <2>3. ASSUME NEW k \in 1 .. Len(order)
        PROVE  data'[order'[k + 1]] = Append(Behind, i)[k]
    <3>1. CASE k = Len(order)
          BY <3>1, <1>1, <1>2, <2>1 DEF QueueInv, QueueTypeOK
    <3>2. CASE k # Len(order)
      <4>1. k \in 1 .. Len(order) - 1 /\ k + 1 \in 1 .. Len(order)
            BY <3>2, <1>2
      <4> QED BY <4>1, <1>1, <1>2, <2>1 DEF QueueInv, QueueTypeOK
    <3> QED BY <3>1, <3>2
  <2>4. /\ Behind' \in Seq(Items \cup {NoItem}) /\ Len(Behind') = Len(order)
        /\ \A k \in 1 .. Len(order) : Behind'[k] = Append(Behind, i)[k]
    <3>1. \A k \in 1 .. Len(order) : Append(Behind, i)[k] \in Items \cup {NoItem}
          BY <2>1
    <3>2. Behind' \in [1 .. Len(order) -> Items \cup {NoItem}] /\ Len(order) \in Nat
          BY <3>1, <1>2, <2>2, <2>3
    <3>3. \A k \in 1 .. Len(order) : Behind'[k] = Append(Behind, i)[k]
          BY <2>2, <2>3
    <3> HIDE DEF Behind
    <3>4. Behind' \in Seq(Items \cup {NoItem}) /\ Len(Behind') = Len(order)
          BY <3>2
    <3> QED BY <3>3, <3>4
  <2> QED BY <2>1, <2>4, SeqEqual
<1>8. Contents' = Returning' \o Behind'
      BY DEF Contents, Returning, Behind
<1>9. Returning \o Append(Behind, i) = Append(Returning \o Behind, i)
      BY BehindIs DEF Returning
<1> QED BY <1>1, <1>5, <1>6, <1>7, <1>8, <1>9, BehindIs

\* The link, and the moves of the consumer up to the return, change no item's
\* place.
LEMMA LinkStep ==
    ASSUME ChainInv, QueueInv', NEW p \in Producers, Link(p)
    PROVE  ChainInv' /\ UNCHANGED <<Contents, popped>>
<1> USE NoneAssumption DEF ChainInv
<1>1. /\ newNode[p] # NoNode /\ next' = [next EXCEPT ![oldTail[p]] = newNode[p]]
      /\ newNode' = [newNode EXCEPT ![p] = NoNode] /\ oldTail' = [oldTail EXCEPT ![p] = NoNode]
      /\ UNCHANGED <<m_tail, m_head, data, held, order, head, second, at, closing, popped>>
      BY DEF Link, popping
<1>2. ASSUME NEW i \in 1 .. Len(order) - 1
      PROVE  \/ next'[order[i]] = order[i + 1]
             \/ \E q \in Producers : oldTail'[q] = order[i] /\ newNode'[q] = order[i + 1]
  <2>1. order[i] \in Nodes /\ order[i + 1] \in Nodes
        BY DEF Chain
  <2>2. CASE order[i] = oldTail[p]
    <3>1. next[order[i]] = NoNode
          BY <1>1, <2>2 DEF QueueInv, OneSuccessor
    <3>2. PICK q \in Producers : oldTail[q] = order[i] /\ newNode[q] = order[i + 1]
          BY <2>1, <3>1 DEF Chain
    <3>3. q = p
          BY <1>1, <2>2, <3>2 DEF QueueInv, OneSuccessor
    <3> QED BY <1>1, <2>1, <2>2, <3>2, <3>3 DEF QueueInv, QueueTypeOK
  <2>3. CASE order[i] # oldTail[p]
    <3>1. next'[order[i]] = next[order[i]]
          BY <1>1, <2>1, <2>3 DEF QueueInv, QueueTypeOK
    <3>2. \A q \in Producers : oldTail[q] = order[i] =>
             oldTail'[q] = oldTail[q] /\ newNode'[q] = newNode[q]
          BY <1>1, <2>3 DEF QueueInv, QueueTypeOK
    <3> QED BY <3>1, <3>2 DEF Chain
  <2> QED BY <2>2, <2>3
<1>3. Chain'
      BY <1>1, <1>2 DEF Chain, Foremost
<1>4. Contents' = Contents
      BY <1>1 DEF Contents
<1> QED BY <1>1, <1>3, <1>4

LEMMA LoadNextStep ==
    ASSUME ChainInv, QueueInv', LoadNext \/ Destroy
    PROVE  ChainInv' /\ UNCHANGED <<Contents, popped>>
<1>1. /\ UNCHANGED <<m_tail, m_head, next, data, held, order, newNode, oldTail, popped>>
      /\ at = "idle" /\ at' \in {"idle", "move"}
      BY DEF LoadNext, Destroy, list, pushing
<1>2. Chain'
      BY <1>1 DEF ChainInv, Chain, Foremost
<1>3. Contents' = Contents
      BY <1>1 DEF Contents
<1> QED BY <1>1, <1>2, <1>3 DEF ChainInv

\* The item moves from the second node to the first, which leaves the list.
LEMMA MoveDataStep ==
    ASSUME ChainInv, QueueInv', MoveData
    PROVE  ChainInv' /\ UNCHANGED <<Contents, popped>>
<1> USE NoneAssumption DEF ChainInv
<1>1. /\ at = "move" /\ at' = "store" /\ order' = Tail(order)
      /\ data' = [data EXCEPT ![head] = data[second], ![second] = NoItem]
      /\ UNCHANGED <<m_tail, m_head, next, held, newNode, oldTail, head, second, closing, popped>>
      BY DEF MoveData, pushing
<1>2. /\ head \in Nodes /\ second \in Nodes /\ next[head] = second /\ m_head = head
      /\ order[1] = head /\ order[Len(order)] = m_tail /\ order \in Seq(Nodes)
      /\ Len(order) \in Nat \ {0}
      BY <1>1 DEF QueueInv, PopHoldsFront, Chain, Foremost
<1>3. Len(order) >= 2
      BY <1>2 DEF QueueInv, TailIsLast
<1>4. order[2] = second
  <2>1. \A p \in Producers : oldTail[p] = head => newNode[p] = NoNode
        BY <1>2 DEF QueueInv, OneSuccessor
  <2>2. order[2] \in Nodes /\ 1 \in 1 .. Len(order) - 1
        BY <1>2, <1>3
  <2> QED BY <1>2, <2>1, <2>2 DEF Chain
<1>5. /\ order' \in Seq(Nodes) /\ Len(order') = Len(order) - 1
      /\ \A k \in 1 .. Len(order) - 1 : order'[k] = order[k + 1] /\ order[k + 1] # head
  <2>1. /\ order' \in Seq(Nodes) /\ Len(order') = Len(order) - 1
        /\ \A k \in 1 .. Len(order) - 1 : order'[k] = order[k + 1]
        BY <1>1, <1>2, <1>3
  <2>2. ASSUME NEW k \in 1 .. Len(order) - 1 PROVE order[k + 1] # head
    <3>1. k + 1 \in 1 .. Len(order) /\ 1 \in 1 .. Len(order) /\ k + 1 # 1
          BY <1>2
    <3> QED BY <1>2, <3>1 DEF Chain
  <2> QED BY <2>1, <2>2
<1>6. Chain'
  <2>1. Len(order') >= 1 /\ order'[1] = Foremost' /\ order'[Len(order')] = m_tail'
        BY <1>1, <1>2, <1>3, <1>4, <1>5 DEF Foremost
  <2>2. \A i, k \in 1 .. Len(order') : order'[i] = order'[k] => i = k
        BY <1>2, <1>5 DEF Chain
  <2>3. ASSUME NEW i \in 1 .. Len(order') - 1
        PROVE  \/ next'[order'[i]] = order'[i + 1]
               \/ \E p \in Producers : oldTail'[p] = order'[i] /\ newNode'[p] = order'[i + 1]
    <3>1. i + 1 \in 1 .. Len(order) - 1 /\ i \in 1 .. Len(order) - 1
          BY <1>2, <1>5
    <3>2. order'[i] = order[i + 1] /\ order'[i + 1] = order[(i + 1) + 1]
          BY <1>5, <3>1
    <3> QED BY <1>1, <3>1, <3>2 DEF Chain
  <2>4. ASSUME NEW i \in 1 .. Len(order') PROVE order'[i] \notin held' /\ order'[i] # head'
    <3>1. i \in 1 .. Len(order) - 1 /\ i + 1 \in 1 .. Len(order)
          BY <1>2, <1>5
    <3> QED BY <1>1, <1>5, <3>1 DEF Chain
  <2>5. m_head' # NoNode
        BY <1>1, <1>2
  <2> QED BY <1>5, <2>1, <2>2, <2>3, <2>4, <2>5 DEF Chain
<1>7. Contents' = Contents
  <2>1. Contents = Behind /\ Contents' = <<data[second]>> \o Behind'
    <3>1. data'[head] = data[second]
      <4>1. head # second
            BY <1>2, <1>3, <1>4 DEF Chain
      <4> QED BY <1>1, <1>2, <4>1 DEF QueueInv, QueueTypeOK
    <3>2. Contents = <<>> \o Behind
          BY <1>1, BehindIs DEF Returning
    <3>3. <<>> \o Behind = Behind
          BY BehindIs
    <3>4. Contents' = <<data'[head]>> \o Behind'
          BY <1>1 DEF Contents, Behind
    <3> QED BY <3>1, <3>2, <3>3, <3>4
  <2>2. /\ Behind' = [k \in 1 .. Len(order) - 2 |-> data'[order'[k + 1]]]
        BY <1>5 DEF Behind
  <2>3. ASSUME NEW k \in 1 .. Len(order) - 2
        PROVE  data'[order'[k + 1]] = Behind[k + 1]
    <3>1. k + 1 \in 1 .. Len(order) - 1 /\ (k + 1) + 1 \in 1 .. Len(order)
          /\ 2 \in 1 .. Len(order) /\ (k + 1) + 1 # 2
          BY <1>2, <1>3
    <3>2. order'[k + 1] = order[(k + 1) + 1] /\ order[(k + 1) + 1] # head
          BY <1>5, <3>1
    <3>3. order[(k + 1) + 1] # second /\ order[(k + 1) + 1] \in Nodes
          BY <1>2, <1>4, <3>1 DEF Chain
    <3>4. data'[order'[k + 1]] = data[order[(k + 1) + 1]]
          BY <1>1, <3>2, <3>3 DEF QueueInv, QueueTypeOK
    <3> QED BY <3>1, <3>4, BehindIs
  <2>4. Behind[1] = data[second] /\ Len(Behind) = Len(order) - 1
        BY <1>2, <1>3, <1>4, BehindIs
  <2>5. /\ Behind' \in Seq(Items \cup {NoItem}) /\ Len(Behind') = Len(order) - 2
        /\ \A k \in 1 .. Len(order) - 2 : Behind'[k] = Behind[k + 1]
    <3>1. \A k \in 1 .. Len(order) - 2 : Behind[k + 1] \in Items \cup {NoItem}
          BY <1>3, <2>4, BehindIs
    <3> QED BY <3>1, <1>2, <1>3, <2>2, <2>3
  <2>6. /\ <<data[second]>> \o Behind' \in Seq(Items \cup {NoItem})
        /\ Len(<<data[second]>> \o Behind') = Len(order) - 1
        /\ (<<data[second]>> \o Behind')[1] = data[second]
        /\ \A k \in 2 .. Len(order) - 1 : (<<data[second]>> \o Behind')[k] = Behind'[k - 1]
        BY <1>2, <1>3, <2>5 DEF QueueInv, QueueTypeOK
  <2>7. \A k \in 1 .. Len(order) - 1 : (<<data[second]>> \o Behind')[k] = Behind[k]
    <3> SUFFICES ASSUME NEW k \in 1 .. Len(order) - 1
                 PROVE  (<<data[second]>> \o Behind')[k] = Behind[k]
        OBVIOUS
    <3>1. CASE k = 1
          BY <2>4, <2>6, <3>1
    <3>2. CASE k # 1
      <4>1. k \in 2 .. Len(order) - 1 /\ k - 1 \in 1 .. Len(order) - 2 /\ (k - 1) + 1 = k
            BY <3>2, <1>2
      <4>2. Behind'[k - 1] = Behind[(k - 1) + 1]
            BY <2>5, <4>1
      <4> QED BY <2>6, <4>1, <4>2
    <3> QED BY <3>1, <3>2
  <2>8. <<data[second]>> \o Behind' = Behind
        BY <2>4, <2>6, <2>7, SeqEqual, BehindIs
  <2> QED BY <2>1, <2>8
<1> QED BY <1>1, <1>6, <1>7

LEMMA StoreHeadStep ==
    ASSUME ChainInv, QueueInv', StoreHead
    PROVE  ChainInv' /\ UNCHANGED <<Contents, popped>>
<1>1. /\ UNCHANGED <<m_tail, next, data, held, order, newNode, oldTail, head, second, popped>>
      /\ at = "store" /\ at' = "clear" /\ m_head' = second
      BY DEF StoreHead, pushing
<1>2. m_head # NoNode /\ second # NoNode
      BY <1>1, NoneAssumption DEF ChainInv, QueueInv, PopHoldsFront
<1>3. Chain'
      BY <1>1, <1>2 DEF ChainInv, Chain, Foremost
<1>4. Contents' = Contents
      BY <1>1 DEF Contents
<1> QED BY <1>1, <1>3, <1>4 DEF ChainInv

\* The user gets the item that has been in the queue longest.
LEMMA ReturnStep ==
    ASSUME ChainInv, QueueInv', Return
    PROVE  ChainInv' /\ Contents # <<>> /\ popped' = Head(Contents) /\ Contents' = Tail(Contents)
<1> USE NoneAssumption DEF ChainInv
<1>1. /\ at = "clear" /\ at' = "idle" /\ held' = held \cup {head} /\ popped' = data[head]
      /\ next' = [next EXCEPT ![head] = NoNode] /\ data' = [data EXCEPT ![head] = NoItem]
      /\ UNCHANGED <<m_tail, m_head, order, newNode, oldTail>>
      BY DEF Return, pushing
<1>2. /\ \A k \in 1 .. Len(order) : /\ order[k] \in Nodes /\ order[k] # head
                                    /\ next'[order[k]] = next[order[k]]
                                    /\ data'[order[k]] = data[order[k]]
      /\ Len(order) \in Nat
      BY <1>1 DEF Chain, QueueInv, QueueTypeOK
<1>3. Chain'
  <2>1. \A k \in 1 .. Len(order) - 1 : next'[order[k]] = next[order[k]]
        BY <1>2
  <2>2. \A k \in 1 .. Len(order) : order[k] \notin held'
        BY <1>1, <1>2 DEF Chain
  <2>3. Foremost' = Foremost
        BY <1>1 DEF Foremost
  <2> QED BY <1>1, <2>1, <2>2, <2>3 DEF Chain
<1>4. Behind' = Behind
  <2>1. \A k \in 1 .. Len(order) - 1 : data'[order[k + 1]] = data[order[k + 1]]
        BY <1>2
  <2> QED BY <2>1, <1>1 DEF Behind
<1>5. Contents = <<data[head]>> \o Behind /\ Contents' = <<>> \o Behind'
      BY <1>1 DEF Contents, Behind
<1>6. Behind \in Seq(Items \cup {NoItem}) /\ data[head] \in Items \cup {NoItem}
      BY <1>1, BehindIs DEF QueueInv, QueueTypeOK, PopHoldsFront
<1>7. <<data[head]>> \o Behind # <<>> /\ Head(<<data[head]>> \o Behind) = data[head]
      /\ Tail(<<data[head]>> \o Behind) = Behind /\ <<>> \o Behind = Behind
      BY <1>6
<1> QED BY <1>1, <1>3, <1>4, <1>5, <1>7

\* The queue that is destroyed is empty, and so is a new one.
LEMMA OwnerStep ==
    ASSUME ChainInv, QueueInv', DeleteHead \/ Construct
    PROVE  ChainInv' /\ UNCHANGED <<Contents, popped>>
<1> USE NoneAssumption DEF ChainInv
<1>1. at = "idle" /\ at' = "idle" /\ Len(order) \in Nat
      BY DEF DeleteHead, Construct, popping, QueueInv, QueueTypeOK, PopHoldsFront, Chain
<1>2. CASE DeleteHead
  <2>1. /\ next[m_head] = NoNode /\ closing /\ order' = <<>> /\ m_head' = NoNode
        /\ m_tail' = NoNode /\ popped' = popped
        BY <1>2 DEF DeleteHead
  <2>2. m_head # NoNode /\ \A p \in Producers : newNode[p] = NoNode
        BY <2>1 DEF QueueInv, ClosingIsAlone
  <2>3. Len(order) = 1
    <3>0. Len(order) >= 1
          BY <2>2 DEF Chain
    <3>1. ASSUME Len(order) >= 2 PROVE FALSE
      <4>1. order[2] \in Nodes /\ 1 \in 1 .. Len(order) - 1 /\ order[1] = m_head
            BY <1>1, <2>2, <3>1 DEF Chain, Foremost
      <4> QED BY <2>1, <2>2, <4>1 DEF Chain
    <3>2. Len(order) < 2
          BY <1>1, <3>1
    <3>3. \A n \in Nat : n >= 1 /\ n < 2 => n = 1
          OBVIOUS
    <3> QED BY <1>1, <3>0, <3>2, <3>3
  <2>4. Contents = <<>> \o <<>> /\ Contents' = <<>> \o <<>>
        BY <1>1, <2>1, <2>3 DEF Contents
  <2>5. Chain'
        BY <2>1 DEF Chain
  <2> QED BY <2>1, <2>4, <2>5
<1>3. CASE Construct
  <2>1. PICK n \in held : m_head' = n /\ m_tail' = n /\ held' = held \ {n} /\ order' = <<n>>
        BY <1>3 DEF Construct
  <2>2. m_head = NoNode /\ order = <<>> /\ n \in Nodes /\ popped' = popped
        BY <1>3 DEF Construct, Chain, popping, QueueInv, QueueTypeOK
  <2>3. Contents = <<>> \o <<>> /\ Contents' = <<>> \o <<>>
        BY <1>1, <2>1, <2>2 DEF Contents
  <2>4. Chain'
        BY <1>1, <2>1, <2>2 DEF Chain, Foremost
  <2> QED BY <2>2, <2>3, <2>4
<1> QED BY <1>2, <1>3

LEMMA ChainInit == QueueInit => ChainInv /\ Unbounded!Init
<1> SUFFICES ASSUME QueueInit PROVE ChainInv /\ Unbounded!Init
    OBVIOUS
<1>1. m_head \in Nodes /\ m_tail = m_head /\ held = Nodes \ {m_head} /\ order = <<m_head>>
      /\ at = "idle" /\ popped = NoItem
      BY DEF QueueInit
<1>2. Chain
      BY <1>1, NoneAssumption DEF Chain, Foremost
<1>3. Contents = <<>> \o <<>>
      BY <1>1 DEF Contents
<1> QED BY <1>1, <1>2, <1>3, QueueInitInvariant, NoneAssumption DEF ChainInv, Unbounded!Init

LEMMA FifoStep ==
    ChainInv /\ [QueueNext]_queueVars
    => ChainInv' /\ [Unbounded!Push \/ Unbounded!Pop]_<<Contents, popped>>
<1> SUFFICES ASSUME ChainInv, [QueueNext]_queueVars
             PROVE  ChainInv' /\ [Unbounded!Push \/ Unbounded!Pop]_<<Contents, popped>>
    OBVIOUS
<1>1. QueueInv'
      BY QueueStepInvariant DEF ChainInv
<1>2. CASE UNCHANGED queueVars
  <2>1. Chain' /\ UNCHANGED <<Contents, popped>>
        BY <1>2 DEF queueVars, list, pushing, popping, ChainInv, Chain, Foremost, Contents
  <2> QED BY <1>1, <2>1 DEF ChainInv
<1>3. ASSUME NEW p \in Producers, NEW n \in Nodes, NEW i \in Items, Exchange(p, n, i)
      PROVE  ChainInv' /\ Unbounded!Push
      BY <1>1, <1>3, ExchangeStep DEF Unbounded!Push
<1>4. ASSUME NEW p \in Producers, Link(p) PROVE ChainInv' /\ UNCHANGED <<Contents, popped>>
      BY <1>1, <1>4, LinkStep
<1>5. CASE Pop
      BY <1>1, <1>5, LoadNextStep, MoveDataStep, StoreHeadStep, ReturnStep
      DEF Pop, Unbounded!Pop
<1>6. CASE Destroy \/ DeleteHead \/ Construct
      BY <1>1, <1>6, LoadNextStep, OwnerStep
<1> QED BY <1>2, <1>3, <1>4, <1>5, <1>6 DEF QueueNext, Push

\* The queue is first-in first-out in the order of the exchanges, although the
\* links come later, in any order, and the nodes are used again.
THEOREM FifoSpecHolds == QueueSpec => FifoSpec
<1>1. QueueInit => ChainInv /\ Unbounded!Init
      BY ChainInit
<1>2. ChainInv /\ [QueueNext]_queueVars
      => ChainInv' /\ [Unbounded!Push \/ Unbounded!Pop]_<<Contents, popped>>
      BY FifoStep
<1> QED BY <1>1, <1>2, PTL DEF QueueSpec, FifoSpec, Unbounded!Spec
=============================================================================
