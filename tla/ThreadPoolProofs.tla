-------------------------- MODULE ThreadPoolProofs --------------------------
(* For any number of threads, jobs and callers: no worker of a ThreadPool    *)
(* sleeps through work or a stop; its linked list is the queue of TaskQueue; *)
(* and nobody is left in a SimpleThreadPool that has been destroyed or whose *)
(* constructor has thrown, or in a ParticipatoryThreadPool joined.           *)
EXTENDS SimpleThreadPool, ParticipatoryThreadPool, FiniteSetTheorems,
        SequenceTheorems, TLAPS

Ats == {"outside", "lockHead", "test", "asleep", "woken", "pop", "advance", "run"}

\* One thread is in m_headMutex, which a worker keeps while it sleeps.
OneInHeadMutex == \A t, u \in Threads : InHeadMutex(t) /\ InHeadMutex(u) => t = u

\* A worker that sleeps is the only one in m_headMutex, so that the notification
\* of a submit() has nobody else to wake.
IInv == pc \in [Threads -> Ats] /\ OneInHeadMutex /\ NoLostWakeup

LEMMA InitInvariant == Init => IInv
BY DEF Init, IInv, OneInHeadMutex, NoLostWakeup, InHeadMutex, Asleep, Ats

\* The appending of a wrapper, with the notification, leaves nobody asleep.
LEMMA NotifyOneWakes ==
    ASSUME IInv, NotifyOne
    PROVE  pc' \in [Threads -> Ats] /\ OneInHeadMutex' /\ Asleep' = {}
BY DEF IInv, NotifyOne, OneInHeadMutex, InHeadMutex, Asleep, Ats

LEMMA UsersKeepInvariant ==
    ASSUME IInv, (\E j \in Jobs : Submit(j)) \/ (\E t \in Threads : Resubmit(t)) \/ NotifyStop
    PROVE  IInv'
<1>1. CASE (\E j \in Jobs : Submit(j)) \/ (\E t \in Threads : Resubmit(t))
      BY <1>1, NotifyOneWakes DEF Submit, Resubmit, IInv, NoLostWakeup
<1>2. CASE NotifyStop
      BY <1>2 DEF NotifyStop, IInv, OneInHeadMutex, NoLostWakeup, InHeadMutex, Asleep, Ats
<1> QED BY <1>1, <1>2

LEMMA WorkersKeepInvariant ==
    ASSUME IInv, NEW t \in Threads,
           WaitAndPop(t) \/ Finish(t) \/ \E m \in Modes : Enter(t, m)
    PROVE  IInv'
<1> USE DEF IInv, OneInHeadMutex, NoLostWakeup, InHeadMutex, Asleep, Ats
<1>1. CASE LockHead(t)
      BY <1>1 DEF LockHead, list
<1>2. CASE TestStop(t) \/ Timeout(t)
      BY <1>2 DEF TestStop, Timeout, Return, list
<1>3. CASE TestFound(t)
      BY <1>3 DEF TestFound, Tests, list
<1>4. CASE TestEmpty(t)
      BY <1>4 DEF TestEmpty, Tests, list
<1>5. CASE SpuriousWakeup(t)
      BY <1>5 DEF SpuriousWakeup, list
<1>6. CASE Pop(t)
      BY <1>6 DEF Pop
<1>7. CASE Advance(t)
      BY <1>7 DEF Advance
<1>8. CASE Finish(t)
      BY <1>8 DEF Finish
<1>9. ASSUME NEW m \in Modes, Enter(t, m) PROVE IInv'
      BY <1>9 DEF Enter, list
<1> QED BY <1>1, <1>2, <1>3, <1>4, <1>5, <1>6, <1>7, <1>8, <1>9 DEF WaitAndPop

LEMMA StepInvariant == IInv /\ [Next]_vars => IInv'
<1> SUFFICES ASSUME IInv, [Next]_vars
             PROVE  IInv'
    OBVIOUS
<1>1. CASE UNCHANGED vars
      BY <1>1 DEF vars, list, workers, IInv, OneInHeadMutex, NoLostWakeup, InHeadMutex, Asleep
<1>2. CASE Next
      BY <1>2, UsersKeepInvariant, WorkersKeepInvariant DEF Next, Worker
<1> QED BY <1>1, <1>2

\* The one notification of submit() is enough for any number of workers, with
\* deadlines, spurious wakeups and stops; it may wake a worker whose deadline
\* has passed and who leaves, but then nobody else sleeps.
THEOREM NoLostWakeupHolds == Spec => []NoLostWakeup
<1>1. IInv => NoLostWakeup
      BY DEF IInv
<1> QED BY <1>1, InitInvariant, StepInvariant, PTL DEF Spec

-----------------------------------------------------------------------------
(* The linked list is the queue of TaskQueue                                 *)

Fields == /\ value \in [Wrappers -> Jobs \cup {None}]
          /\ next \in [Wrappers -> Wrappers \cup {None}]
          /\ m_head \in Wrappers \cup {None}
          /\ m_tail \in Wrappers
          /\ task \in [Threads -> Wrappers \cup {None}]
          /\ running \in [Threads -> Jobs \cup {None}]
          /\ order \in Seq(Wrappers)

\* m_next leads through the wrappers in the order they were linked, to the
\* dummy; every other wrapper of the list has a job.
Chained == /\ Len(order) >= 1
           /\ order[Len(order)] = m_tail
           /\ \A i, k \in 1 .. Len(order) : order[i] = order[k] => i = k
           /\ \A i \in 1 .. Len(order) - 1 : /\ next[order[i]] = order[i + 1]
                                             /\ value[order[i]] \in Jobs
           /\ m_head # None => m_head = order[1]

\* Between the two moves of a pop the popped wrapper still leads to the list.
Popped == /\ \A t \in Threads : pc[t] = "pop" => m_head # m_tail
          /\ \A t \in Threads : pc[t] = "advance" => /\ task[t] # None
                                                     /\ next[task[t]] = order[1]
                                                     /\ value[task[t]] \in Jobs
          /\ m_head = None <=> \E t \in Threads : pc[t] = "advance"

\* A wrapper is in the list or with one worker, a job is in one wrapper.
Owned == /\ \A t \in Threads :
               task[t] # None => pc[t] \in {"advance", "run"} /\ task[t] \notin Listed
         /\ \A t, u \in Threads : task[t] # None /\ task[t] = task[u] => t = u
         /\ \A w, x \in Wrappers : value[w] # None /\ value[w] = value[x] => w = x

\* A worker in a job has kept the job's wrapper, unless the job took it over.
Busy == \A t \in Threads :
           IF pc[t] = "run"
           THEN running[t] \in Jobs /\ (task[t] # None => value[task[t]] = running[t])
           ELSE running[t] = None

ListInv == IInv /\ Fields /\ Chained /\ Popped /\ Owned /\ Busy

\* In terms of the wrappers: a state of the list, and of the queue it stands for.
LEMMA PendingIs ==
    ASSUME ListInv
    PROVE  /\ Pending \in Seq(Jobs)
           /\ Len(Pending) = Len(order) - 1
           /\ \A i \in 1 .. Len(order) - 1 : Pending[i] = value[order[i]]
           /\ \A w \in Listed : w # m_tail =>
                 \E i \in 1 .. Len(order) - 1 : w = order[i]
BY DEF ListInv, Fields, Chained, Pending, Listed

\* There is a wrapper for every job that is nowhere in the pool: the others are
\* in one wrapper each, and a worker holds one at most.
LEMMA FreeWrapper ==
    ASSUME ListInv, NEW j \in Jobs, j \notin Alive
    PROVE  (CHOOSE w \in Free : TRUE) \in Free
<1> DEFINE filled == Listed \ {m_tail}
           theJob == [w \in filled |-> value[w]]
           holders == {t \in Threads : task[t] # None}
           theTask == [t \in holders |-> task[t]]
<1>1. /\ IsFiniteSet(Wrappers) /\ IsFiniteSet(Jobs) /\ IsFiniteSet(Threads)
      /\ Cardinality(Jobs) \in Nat /\ Cardinality(Threads) \in Nat
      /\ Cardinality(Wrappers) \in Nat
      BY WrappersAssumption, FS_CardinalityType
<1>2. IsFiniteSet(Jobs \ {j}) /\ Cardinality(Jobs \ {j}) = Cardinality(Jobs) - 1
      BY <1>1, FS_RemoveElement
<1>3. theJob \in Injection(filled, Jobs \ {j})
  <2>1. \A w \in filled : value[w] \in Jobs /\ w \in Wrappers
        BY PendingIs DEF ListInv, Fields, Chained, Listed
  <2>2. \A w \in filled : value[w] # j
        BY <2>1 DEF Alive
  <2>3. \A w, x \in filled : value[w] = value[x] => w = x
        BY <2>1, JobsAssumption DEF ListInv, Owned
  <2> QED BY <2>1, <2>2, <2>3 DEF Injection, IsInjective
<1>4. IsFiniteSet(filled) /\ Cardinality(filled) <= Cardinality(Jobs) - 1
      BY <1>2, <1>3, FS_Injection
<1>5. Listed = filled \cup {m_tail} /\ m_tail \notin filled
      BY DEF ListInv, Chained, Fields, Listed
<1>6. IsFiniteSet(Listed) /\ Cardinality(Listed) <= Cardinality(Jobs)
  <2>1. Cardinality(filled) \in Nat
        BY <1>4, FS_CardinalityType
  <2> HIDE DEF filled
  <2>2. IsFiniteSet(Listed) /\ Cardinality(Listed) = Cardinality(filled) + 1
        BY <1>4, <1>5, FS_AddElement
  <2> QED BY <2>1, <2>2, <1>1, <1>4, <1>5
<1>7. IsFiniteSet(holders) /\ Cardinality(holders) <= Cardinality(Threads)
      BY <1>1, FS_Subset
<1>8. theTask \in Surjection(holders, Taken)
      BY DEF Surjection, Taken
<1>9. IsFiniteSet(Taken) /\ Cardinality(Taken) <= Cardinality(Threads)
  <2>1. IsFiniteSet(Taken) /\ Cardinality(Taken) <= Cardinality(holders)
        BY <1>7, <1>8, FS_Surjection
  <2> QED BY <2>1, <1>1, <1>7, FS_CardinalityType
<1>10. /\ IsFiniteSet(Listed \cup Taken)
       /\ Cardinality(Listed \cup Taken) <= Cardinality(Jobs) + Cardinality(Threads)
  <2>1. /\ Cardinality(Listed) \in Nat /\ Cardinality(Taken) \in Nat
        /\ IsFiniteSet(Listed \cap Taken) /\ Cardinality(Listed \cap Taken) \in Nat
        BY <1>6, <1>9, FS_CardinalityType, FS_Subset
  <2>2. /\ IsFiniteSet(Listed \cup Taken)
        /\ Cardinality(Listed \cup Taken)
              = Cardinality(Listed) + Cardinality(Taken) - Cardinality(Listed \cap Taken)
        BY <1>6, <1>9, FS_Union
  <2> QED BY <2>1, <2>2, <1>1, <1>6, <1>9
<1>11. Wrappers # Listed \cup Taken
  <2>1. Cardinality(Listed \cup Taken) \in Nat
        BY <1>10, FS_CardinalityType
  <2> QED BY <2>1, <1>1, <1>10, WrappersAssumption
<1>12. Listed \cup Taken \subseteq Wrappers
       BY DEF ListInv, Fields, Listed, Taken
<1> QED BY <1>11, <1>12 DEF Free

\* submit() of a wrapper that is in nobody's list, and of a job that is in no
\* other wrapper, puts the job behind the others.
LEMMA LinkStep ==
    ASSUME ListInv, NEW w \in Wrappers, w \notin Listed, NEW j \in Jobs, Link(w, j),
           \A x \in Wrappers : value[x] = j => x = w,
           \A t \in Threads : task[t] = w => pc[t] = "run",
           task' = [t \in Threads |-> IF task[t] = w THEN None ELSE task[t]],
           NotifyOne, m_head' = m_head, running' = running, IInv'
    PROVE  /\ ListInv'
           /\ Uncommitted' = Append(Uncommitted, j)
           /\ Committed' = Committed
<1> USE JobsAssumption
<1>1. /\ Len(order') = Len(order) + 1 /\ order' \in Seq(Wrappers)
      /\ \A i \in 1 .. Len(order) : order'[i] = order[i]
      /\ order'[Len(order) + 1] = w /\ m_tail' = w
      /\ Listed' = Listed \cup {w}
  <2>1. /\ Len(order') = Len(order) + 1 /\ order' \in Seq(Wrappers)
        /\ \A i \in 1 .. Len(order) : order'[i] = order[i]
        /\ order'[Len(order) + 1] = w /\ m_tail' = w
        BY DEF Link, ListInv, Fields
  <2>2. DOMAIN order = 1 .. Len(order) /\ DOMAIN order' = 1 .. Len(order) + 1
        /\ Len(order) \in Nat
        BY <2>1 DEF ListInv, Fields
  <2>3. \A x : x \in Listed' <=> x \in Listed \/ x = w
        BY <2>1, <2>2 DEF Listed
  <2> QED BY <2>1, <2>3
<1>2. /\ m_tail \in Listed /\ w # m_tail
      /\ \A i \in 1 .. Len(order) - 1 : order[i] # m_tail /\ order[i] # w
      /\ \A i \in 1 .. Len(order) : order[i] \in Listed
      BY DEF ListInv, Chained, Fields, Listed
<1>3. /\ value' = [value EXCEPT ![m_tail] = j, ![w] = None]
      /\ next' = [next EXCEPT ![m_tail] = w]
      BY DEF Link
<1>4. /\ \A x \in Wrappers \ {m_tail, w} : value'[x] = value[x]
      /\ value'[m_tail] = j /\ value'[w] = None
      /\ \A x \in Wrappers \ {m_tail} : next'[x] = next[x]
      /\ next'[m_tail] = w
      BY <1>2, <1>3 DEF ListInv, Fields
<1>5. \A t \in Threads : \A p \in {"pop", "advance", "run"} : pc'[t] = p <=> pc[t] = p
      BY DEF NotifyOne, Asleep, ListInv, IInv
<1>6. Fields'
      BY <1>1, <1>3 DEF ListInv, Fields
<1>7. Chained'
  <2>1. /\ Len(order') >= 1 /\ order'[Len(order')] = m_tail'
        /\ m_head' # None => m_head' = order'[1]
        BY <1>1 DEF ListInv, Chained, Fields
  <2>2. \A i, k \in 1 .. Len(order') : order'[i] = order'[k] => i = k
    <3>1. \A i \in 1 .. Len(order') : i = Len(order) + 1 \/ i \in 1 .. Len(order)
          BY <1>1 DEF ListInv, Fields
    <3>2. \A i \in 1 .. Len(order) : order'[i] # w
          BY <1>1, <1>2
    <3> QED BY <3>1, <3>2, <1>1 DEF ListInv, Chained
  <2>3. ASSUME NEW i \in 1 .. Len(order') - 1
        PROVE  next'[order'[i]] = order'[i + 1] /\ value'[order'[i]] \in Jobs
    <3>1. CASE i = Len(order)
          BY <3>1, <1>1, <1>2, <1>4 DEF ListInv, Chained, Fields
    <3>2. CASE i # Len(order)
      <4>1. i \in 1 .. Len(order) - 1
            BY <3>2, <1>1 DEF ListInv, Fields
      <4>2. /\ order'[i] = order[i] /\ order'[i + 1] = order[i + 1]
            /\ order[i] \in Wrappers \ {m_tail, w}
            BY <4>1, <1>1, <1>2 DEF ListInv, Fields
      <4> QED BY <4>1, <4>2, <1>4 DEF ListInv, Chained
    <3> QED BY <3>1, <3>2
  <2> QED BY <2>1, <2>3, <2>2 DEF Chained
<1>8. Popped'
  <2>1. ASSUME NEW t \in Threads, pc'[t] = "pop" PROVE m_head' # m_tail'
    <3>1. pc[t] = "pop"
          BY <2>1, <1>5
    <3>2. m_head = None \/ m_head \in Listed
          BY <1>2 DEF ListInv, Chained, Fields
    <3> QED BY <3>2, <1>1
  <2>2. ASSUME NEW t \in Threads, pc'[t] = "advance"
        PROVE  task'[t] # None /\ next'[task'[t]] = order'[1] /\ value'[task'[t]] \in Jobs
    <3>1. pc[t] = "advance"
          BY <2>2, <1>5
    <3>2. /\ task[t] # None /\ task[t] \in Wrappers /\ task[t] \notin Listed
          /\ task[t] # w /\ next[task[t]] = order[1] /\ value[task[t]] \in Jobs
          BY <3>1 DEF ListInv, Fields, Popped, Owned
    <3>3. task'[t] = task[t] /\ task[t] \in Wrappers \ {m_tail, w} /\ order'[1] = order[1]
          BY <3>2, <1>1, <1>2 DEF ListInv, Chained, Fields
    <3> QED BY <3>2, <3>3, <1>4
  <2>3. m_head' = None <=> \E t \in Threads : pc'[t] = "advance"
        BY <1>5 DEF ListInv, Popped
  <2> QED BY <2>1, <2>2, <2>3 DEF Popped
<1>9. Owned'
  <2>1. ASSUME NEW t \in Threads, task'[t] # None
        PROVE  pc'[t] \in {"advance", "run"} /\ task'[t] \notin Listed'
        BY <2>1, <1>1, <1>5 DEF ListInv, Owned
  <2>2. \A t, u \in Threads : task'[t] # None /\ task'[t] = task'[u] => t = u
        BY DEF ListInv, Owned
  <2>3. ASSUME NEW y \in Wrappers, NEW x \in Wrappers, value'[y] # None, value'[y] = value'[x]
        PROVE  y = x
        BY <2>3, <1>2, <1>4 DEF ListInv, Owned
  <2> QED BY <2>1, <2>2, <2>3 DEF Owned
<1>10. Busy'
  <2> SUFFICES ASSUME NEW t \in Threads
               PROVE  IF pc'[t] = "run"
                      THEN running'[t] \in Jobs
                           /\ (task'[t] # None => value'[task'[t]] = running'[t])
                      ELSE running'[t] = None
      BY DEF Busy
  <2>1. CASE pc[t] = "run" /\ task'[t] # None
    <3>1. task'[t] = task[t] /\ task[t] \in Wrappers \ {m_tail, w}
          BY <2>1, <1>2 DEF ListInv, Fields, Owned
    <3> QED BY <2>1, <3>1, <1>4, <1>5 DEF ListInv, Busy
  <2>2. CASE ~(pc[t] = "run" /\ task'[t] # None)
        BY <2>2, <1>5 DEF ListInv, Busy
  <2> QED BY <2>1, <2>2
<1>11. ListInv'
       BY <1>6, <1>7, <1>8, <1>9, <1>10 DEF ListInv
<1>12. Pending' = Append(Pending, j)
  <2>1. /\ Pending' = [i \in 1 .. Len(order) |-> value'[order'[i]]]
        BY <1>1 DEF Pending, ListInv, Fields
  <2>2. \A i \in 1 .. Len(order) - 1 : value'[order'[i]] = Pending[i]
    <3> SUFFICES ASSUME NEW i \in 1 .. Len(order) - 1 PROVE value'[order'[i]] = Pending[i]
        OBVIOUS
    <3>1. order'[i] = order[i] /\ order[i] \in Wrappers \ {m_tail, w}
          BY <1>1, <1>2 DEF ListInv, Fields
    <3> QED BY <3>1, <1>4, PendingIs
  <2>3. value'[order'[Len(order)]] = j /\ Len(order) \in Nat \ {0}
        BY <1>1, <1>4 DEF ListInv, Chained, Fields
  <2>4. /\ Append(Pending, j) \in Seq(Jobs) /\ Len(Append(Pending, j)) = Len(order)
        /\ \A i \in 1 .. Len(order) - 1 : Append(Pending, j)[i] = Pending[i]
        /\ Append(Pending, j)[Len(order)] = j
        BY <2>3, PendingIs
  <2>5. \A i \in 1 .. Len(order) : i = Len(order) \/ i \in 1 .. Len(order) - 1
        BY <2>3
  <2>6. \A i \in 1 .. Len(order) : Pending'[i] = Append(Pending, j)[i]
        BY <2>1, <2>2, <2>3, <2>4, <2>5
  <2>7. Pending' \in Seq(Jobs) /\ Len(Pending') = Len(order)
    <3>1. \A i \in 1 .. Len(order) : Pending'[i] \in Jobs
          BY <2>3, <2>4, <2>6
    <3> QED BY <3>1, <2>1, <2>3
  <2> QED BY <2>4, <2>6, <2>7, SeqEqual
<1>13. (\E t \in Threads : Popping(t))' <=> \E t \in Threads : Popping(t)
       BY <1>5 DEF Popping
<1>14. Uncommitted' = Append(Uncommitted, j)
  <2>1. CASE \E t \in Threads : Popping(t)
    <3>1. Len(Pending) >= 1
          BY <2>1, PendingIs DEF Popping, ListInv, Popped, IInv, OneInHeadMutex, InHeadMutex,
                                 Chained, Fields
    <3>2. Tail(Append(Pending, j)) = Append(Tail(Pending), j)
          BY <3>1, PendingIs
    <3> QED BY <2>1, <1>12, <1>13, <3>2 DEF Uncommitted
  <2>2. CASE ~\E t \in Threads : Popping(t)
        BY <2>2, <1>12, <1>13 DEF Uncommitted
  <2> QED BY <2>1, <2>2
<1>15. Committed' = Committed
  <2> SUFFICES ASSUME NEW t \in Threads
               PROVE  (CASE Popping(t) -> value[m_head] [] pc[t] = "advance" -> value[task[t]]
                         [] OTHER -> running[t])'
                      = CASE Popping(t) -> value[m_head] [] pc[t] = "advance" -> value[task[t]]
                          [] OTHER -> running[t]
      BY DEF Committed
  <2>1. CASE pc[t] = "pop"
    <3>1. m_head \in Wrappers \ {m_tail, w}
      <4>1. m_head # None /\ m_head # m_tail
            BY <2>1 DEF ListInv, Popped, IInv, OneInHeadMutex, InHeadMutex
      <4> QED BY <4>1, <1>2 DEF ListInv, Chained, Fields
    <3> QED BY <2>1, <3>1, <1>4, <1>5 DEF Popping
  <2>2. CASE pc[t] = "advance"
    <3>1. task'[t] = task[t] /\ task[t] \in Wrappers \ {m_tail, w}
          BY <2>2, <1>2 DEF ListInv, Fields, Popped, Owned
    <3> QED BY <2>2, <3>1, <1>4, <1>5 DEF Popping
  <2>3. CASE pc[t] \notin {"pop", "advance"}
        BY <2>3, <1>5 DEF Popping
  <2> QED BY <2>1, <2>2, <2>3
<1> QED BY <1>11, <1>14, <1>15

\* The jobs not yet committed to a worker are in the list.
LEMMA UncommittedIs ==
    ASSUME ListInv
    PROVE  \A i \in DOMAIN Uncommitted :
              \E k \in 1 .. Len(order) - 1 : Uncommitted[i] = value[order[k]]
<1>1. CASE \E t \in Threads : Popping(t)
  <2>1. Len(Pending) >= 1
        BY <1>1, PendingIs DEF Popping, ListInv, Popped, IInv, OneInHeadMutex, InHeadMutex,
                               Chained, Fields
  <2>2. /\ DOMAIN Uncommitted = 1 .. Len(Pending) - 1
        /\ \A i \in 1 .. Len(Pending) - 1 : Uncommitted[i] = Pending[i + 1]
        BY <1>1, <2>1, PendingIs DEF Uncommitted
  <2>3. Len(Pending) \in Nat
        BY PendingIs
  <2>4. ASSUME NEW i \in 1 .. Len(Pending) - 1
        PROVE  /\ i + 1 \in 1 .. Len(order) - 1
               /\ Uncommitted[i] = value[order[i + 1]]
        BY <2>2, <2>3, PendingIs
  <2> QED BY <2>2, <2>4
<1>2. CASE ~\E t \in Threads : Popping(t)
      BY <1>2, PendingIs DEF Uncommitted
<1> QED BY <1>1, <1>2

LEMMA SubmitStep ==
    ASSUME ListInv, IInv', NEW j \in Jobs, Submit(j)
    PROVE  ListInv' /\ Queue!Submit(j)
<1> DEFINE w == CHOOSE x \in Free : TRUE
<1>1. /\ w \in Wrappers /\ w \notin Listed
      /\ \A t \in Threads : task[t] # w
      BY FreeWrapper, JobsAssumption DEF Submit, Free, Taken
<1>2. /\ Link(w, j) /\ NotifyOne /\ j \notin Alive
      /\ m_head' = m_head /\ running' = running /\ task' = task /\ m_stop' = m_stop
      BY DEF Submit
<1> HIDE DEF w
<1>3. \A x \in Wrappers : value[x] # j
      BY <1>2 DEF Alive
<1>4. task' = [t \in Threads |-> IF task[t] = w THEN None ELSE task[t]]
      BY <1>1, <1>2 DEF ListInv, Fields
<1>5. ListInv' /\ Uncommitted' = Append(Uncommitted, j) /\ Committed' = Committed
      BY <1>1, <1>2, <1>3, <1>4, LinkStep
<1>6. j \notin Queue!Queued
      BY <1>3, UncommittedIs DEF Queue!Queued, ListInv, Fields
<1> QED BY <1>2, <1>5, <1>6 DEF Queue!Submit

LEMMA ResubmitStep ==
    ASSUME ListInv, IInv', NEW t \in Threads, Resubmit(t)
    PROVE  ListInv' /\ Queue!Submit(running[t]) /\ running[t] \in Jobs
<1> USE JobsAssumption
<1>1. /\ task[t] \in Wrappers /\ task[t] \notin Listed /\ pc[t] = "run"
      /\ running[t] \in Jobs /\ value[task[t]] = running[t] /\ task[t] # None
      /\ \A u \in Threads : task[u] = task[t] => u = t
      /\ \A x \in Wrappers : value[x] = running[t] => x = task[t]
      BY DEF Resubmit, ListInv, Fields, Owned, Busy
<1>2. /\ Link(task[t], running[t]) /\ NotifyOne
      /\ m_head' = m_head /\ running' = running /\ m_stop' = m_stop
      /\ task' = [task EXCEPT ![t] = None]
      BY DEF Resubmit
<1>3. task' = [u \in Threads |-> IF task[u] = task[t] THEN None ELSE task[u]]
      BY <1>1, <1>2 DEF ListInv, Fields
<1>4. \A u \in Threads : task[u] = task[t] => pc[u] = "run"
      BY <1>1
<1>5. ListInv' /\ Uncommitted' = Append(Uncommitted, running[t]) /\ Committed' = Committed
      BY <1>1, <1>2, <1>3, <1>4, LinkStep
<1>6. running[t] \notin Queue!Queued
      BY <1>1, UncommittedIs DEF Queue!Queued, ListInv, Fields, Listed
<1> QED BY <1>1, <1>2, <1>5, <1>6 DEF Queue!Submit

\* The list and the queue do not change when threads come, wait, or go.
LEMMA ListUntouched ==
    ASSUME ListInv, IInv', UNCHANGED <<list, task, running>>,
           \A t \in Threads : \A p \in {"pop", "advance", "run"} : pc'[t] = p <=> pc[t] = p
    PROVE  ListInv' /\ UNCHANGED <<Uncommitted, Committed>>
<1>1. Fields' /\ Chained' /\ Listed' = Listed
      BY DEF ListInv, list, Fields, Chained, Listed
<1>2. Popped'
      BY DEF ListInv, list, Popped
<1>3. Owned'
      BY <1>1 DEF ListInv, list, Owned
<1>4. Busy'
      BY DEF ListInv, list, Busy
<1>5. UNCHANGED <<Uncommitted, Committed>>
  <2>1. Pending' = Pending
        BY DEF list, Pending
  <2>2. \A t \in Threads : /\ Popping(t)' <=> Popping(t)
                           /\ pc'[t] = "advance" <=> pc[t] = "advance"
        BY DEF Popping
  <2>3. Uncommitted' = Uncommitted
        BY <2>1, <2>2 DEF Uncommitted
  <2>4. Committed' = Committed
        BY <2>2 DEF Committed, list
  <2> QED BY <2>3, <2>4
<1> QED BY <1>1, <1>2, <1>3, <1>4, <1>5 DEF ListInv

LEMMA IdleStep ==
    ASSUME ListInv, IInv', NEW t \in Threads,
           \/ LockHead(t) \/ TestStop(t) \/ TestEmpty(t) \/ SpuriousWakeup(t) \/ Timeout(t)
           \/ \E m \in Modes : Enter(t, m)
    PROVE  ListInv' /\ UNCHANGED Queue!vars
<1>1. UNCHANGED <<list, task, running, m_stop>>
      BY DEF LockHead, TestStop, TestEmpty, SpuriousWakeup, Timeout, Enter, Return
<1>2. \A u \in Threads : \A p \in {"pop", "advance", "run"} : pc'[u] = p <=> pc[u] = p
      BY DEF LockHead, TestStop, TestEmpty, SpuriousWakeup, Timeout, Enter, Return, Tests,
             ListInv, IInv, Ats
<1> QED BY <1>1, <1>2, ListUntouched DEF Queue!vars

LEMMA NotifyStopStep ==
    ASSUME ListInv, IInv', NotifyStop
    PROVE  ListInv' /\ Queue!Stop
<1>1. UNCHANGED <<list, task, running>> /\ m_stop' = TRUE
      BY DEF NotifyStop
<1>2. \A u \in Threads : \A p \in {"pop", "advance", "run"} : pc'[u] = p <=> pc[u] = p
      BY DEF NotifyStop, Asleep, ListInv, IInv, Ats
<1> QED BY <1>1, <1>2, ListUntouched DEF Queue!Stop

\* A worker that finds the list non-empty takes the first job ...
LEMMA TestFoundStep ==
    ASSUME ListInv, IInv', NEW t \in Threads, TestFound(t)
    PROVE  ListInv' /\ Queue!Take(t)
<1>1. /\ UNCHANGED <<list, task, running, m_stop>> /\ ~m_stop /\ m_head # m_tail
      /\ pc[t] \in {"test", "woken"} /\ pc' = [pc EXCEPT ![t] = "pop"]
      BY DEF TestFound, Tests
<1>2. \A u \in Threads : pc[u] \notin {"pop", "advance"}
      BY <1>1 DEF ListInv, IInv, OneInHeadMutex, InHeadMutex
<1>3. /\ pc'[t] = "pop" /\ \A u \in Threads : u # t => pc'[u] = pc[u]
      BY <1>1 DEF ListInv, IInv
<1>4. ListInv'
  <2>1. Fields' /\ Chained' /\ Listed' = Listed
        BY <1>1 DEF ListInv, list, Fields, Chained, Listed
  <2>2. Popped'
        BY <1>1, <1>2, <1>3 DEF ListInv, list, Popped
  <2>3. Owned'
        BY <1>1, <1>3, <2>1 DEF ListInv, list, Owned
  <2>4. Busy'
        BY <1>1, <1>3 DEF ListInv, list, Busy
  <2> QED BY <2>1, <2>2, <2>3, <2>4 DEF ListInv
<1>5. m_head = order[1] /\ Len(order) >= 2 /\ Len(order) \in Nat
      BY <1>1, <1>2 DEF ListInv, Popped, Chained, Fields
<1>6. Pending' = Pending /\ Uncommitted = Pending /\ Uncommitted' = Tail(Pending)
      BY <1>1, <1>2, <1>3 DEF list, Pending, Uncommitted, Popping
<1>7. Pending # <<>> /\ Head(Pending) = value[m_head]
      BY <1>5, PendingIs
<1>8. Committed = running /\ Committed' = [Committed EXCEPT ![t] = value[m_head]]
      BY <1>1, <1>2, <1>3 DEF list, Committed, Popping, ListInv, Fields
<1>9. Committed[t] = None
      BY <1>1, <1>8 DEF ListInv, Busy
<1> QED BY <1>1, <1>4, <1>6, <1>7, <1>8, <1>9 DEF Queue!Take

\* ... and the two moves of the pop change nothing in the queue.
LEMMA PopStep ==
    ASSUME ListInv, IInv', NEW t \in Threads, Pop(t)
    PROVE  ListInv' /\ UNCHANGED Queue!vars
<1> USE JobsAssumption
<1>1. /\ pc[t] = "pop" /\ task' = [task EXCEPT ![t] = m_head] /\ m_head' = None
      /\ order' = Tail(order) /\ pc' = [pc EXCEPT ![t] = "advance"]
      /\ UNCHANGED <<value, next, m_tail, m_stop, running>>
      BY DEF Pop
<1>2. \A u \in Threads : u # t => pc[u] \notin {"pop", "advance"}
      BY <1>1 DEF ListInv, IInv, OneInHeadMutex, InHeadMutex
<1>3. /\ m_head = order[1] /\ Len(order) >= 2 /\ Len(order) \in Nat /\ m_head \in Wrappers
      /\ m_head # m_tail
      BY <1>1, <1>2 DEF ListInv, Popped, Chained, Fields
<1>4. /\ order' \in Seq(Wrappers) /\ Len(order') = Len(order) - 1
      /\ \A i \in 1 .. Len(order) - 1 : order'[i] = order[i + 1]
      BY <1>1, <1>3 DEF ListInv, Fields
<1>5. Listed' = Listed \ {m_head} /\ m_head \in Listed
  <2>1. DOMAIN order = 1 .. Len(order) /\ DOMAIN order' = 1 .. Len(order) - 1
        BY <1>4 DEF ListInv, Fields
  <2>2. ASSUME NEW x PROVE x \in Listed' <=> x \in Listed /\ x # m_head
    <3>1. ASSUME x \in Listed' PROVE x \in Listed /\ x # m_head
      <4>1. PICK i \in 1 .. Len(order) - 1 : x = order'[i]
            BY <2>1, <3>1 DEF Listed
      <4>2. x = order[i + 1] /\ i + 1 \in 1 .. Len(order) /\ i + 1 # 1 /\ 1 \in 1 .. Len(order)
            BY <1>3, <1>4, <4>1
      <4> QED BY <1>3, <2>1, <4>2 DEF Listed, ListInv, Chained
    <3>2. ASSUME x \in Listed, x # m_head PROVE x \in Listed'
      <4>1. PICK i \in 1 .. Len(order) : x = order[i]
            BY <2>1, <3>2 DEF Listed
      <4>2. i - 1 \in 1 .. Len(order) - 1 /\ order'[i - 1] = x
            BY <1>3, <1>4, <3>2, <4>1
      <4> QED BY <2>1, <4>2 DEF Listed
    <3> QED BY <3>1, <3>2
  <2>3. m_head \in Listed
        BY <1>3, <2>1 DEF Listed
  <2> QED BY <2>2, <2>3
<1>6. \A u \in Threads : task[u] # m_head
      BY <1>3, <1>5 DEF ListInv, Owned
<1>7. /\ task'[t] = m_head /\ pc'[t] = "advance"
      /\ \A u \in Threads : u # t => task'[u] = task[u] /\ pc'[u] = pc[u]
      BY <1>1 DEF ListInv, IInv, Fields
<1>8. next[m_head] = order'[1] /\ value[m_head] \in Jobs
      BY <1>3, <1>4 DEF ListInv, Chained
<1>9. Fields'
      BY <1>1, <1>3, <1>4 DEF ListInv, Fields
<1>10. Chained'
  <2>1. Len(order') >= 1 /\ order'[Len(order')] = m_tail' /\ m_head' = None
        BY <1>1, <1>3, <1>4 DEF ListInv, Chained
  <2>2. \A i, k \in 1 .. Len(order') : order'[i] = order'[k] => i = k
        BY <1>3, <1>4 DEF ListInv, Chained
  <2>3. ASSUME NEW i \in 1 .. Len(order') - 1
        PROVE  next'[order'[i]] = order'[i + 1] /\ value'[order'[i]] \in Jobs
    <3>1. i + 1 \in 1 .. Len(order) - 1 /\ {i, i + 1} \subseteq 1 .. Len(order) - 1
          BY <1>3, <1>4
    <3>2. order'[i] = order[i + 1] /\ order'[i + 1] = order[(i + 1) + 1]
          BY <1>4, <3>1
    <3> QED BY <1>1, <3>1, <3>2 DEF ListInv, Chained
  <2> QED BY <2>1, <2>2, <2>3 DEF Chained
<1>11. Popped'
       BY <1>1, <1>2, <1>3, <1>7, <1>8 DEF Popped
<1>12. Owned'
       BY <1>1, <1>5, <1>6, <1>7 DEF ListInv, Owned
<1>13. Busy'
       BY <1>1, <1>7 DEF ListInv, Busy
<1>14. Uncommitted' = Uncommitted
  <2>1. Uncommitted = Tail(Pending) /\ Uncommitted' = Pending'
        BY <1>1, <1>2, <1>7 DEF Uncommitted, Popping
  <2>2. /\ Tail(Pending) \in Seq(Jobs) /\ Len(Tail(Pending)) = Len(order) - 2
        /\ \A i \in 1 .. Len(order) - 2 : Tail(Pending)[i] = Pending[i + 1]
        BY <1>3, PendingIs
  <2>3. /\ Pending' = [i \in 1 .. Len(order) - 2 |-> value[order'[i]]]
        BY <1>1, <1>3, <1>4 DEF Pending
  <2>4. \A i \in 1 .. Len(order) - 2 : Pending'[i] = Tail(Pending)[i] /\ Pending'[i] \in Jobs
    <3> SUFFICES ASSUME NEW i \in 1 .. Len(order) - 2
                 PROVE  Pending'[i] = Tail(Pending)[i] /\ Pending'[i] \in Jobs
        OBVIOUS
    <3>1. i + 1 \in 1 .. Len(order) - 1 /\ i \in 1 .. Len(order) - 1
          BY <1>3
    <3>2. Pending'[i] = value[order[i + 1]] /\ Tail(Pending)[i] = value[order[i + 1]]
          BY <1>4, <2>2, <2>3, <3>1, PendingIs
    <3> QED BY <3>1, <3>2 DEF ListInv, Chained
  <2>5. Pending' \in Seq(Jobs) /\ Len(Pending') = Len(order) - 2
        BY <1>3, <2>3, <2>4
  <2>6. Pending' = Tail(Pending)
        BY <2>2, <2>4, <2>5, SeqEqual
  <2> QED BY <2>1, <2>6
<1>15. Committed' = Committed
       BY <1>1, <1>2, <1>3, <1>7 DEF Committed, Popping
<1> QED BY <1>1, <1>9, <1>10, <1>11, <1>12, <1>13, <1>14, <1>15 DEF ListInv, Queue!vars

LEMMA AdvanceStep ==
    ASSUME ListInv, IInv', NEW t \in Threads, Advance(t)
    PROVE  ListInv' /\ UNCHANGED Queue!vars
<1> USE JobsAssumption
<1>1. /\ pc[t] = "advance" /\ m_head' = next[task[t]]
      /\ next' = [next EXCEPT ![task[t]] = None]
      /\ running' = [running EXCEPT ![t] = value[task[t]]]
      /\ pc' = [pc EXCEPT ![t] = "run"]
      /\ UNCHANGED <<value, m_tail, order, m_stop, task>>
      BY DEF Advance
<1>2. \A u \in Threads : u # t => pc[u] \notin {"pop", "advance"}
      BY <1>1 DEF ListInv, IInv, OneInHeadMutex, InHeadMutex
<1>3. /\ task[t] \in Wrappers \ Listed /\ task[t] # None /\ m_head' = order[1]
      /\ value[task[t]] \in Jobs
      BY <1>1 DEF ListInv, Fields, Popped, Owned
<1>4. /\ running'[t] = value[task[t]] /\ pc'[t] = "run"
      /\ \A u \in Threads : u # t => running'[u] = running[u] /\ pc'[u] = pc[u]
      /\ \A w \in Listed : w \in Wrappers /\ next'[w] = next[w]
      BY <1>1, <1>3 DEF ListInv, IInv, Fields, Listed
<1>5. Len(order) \in Nat \ {0} /\ \A i \in 1 .. Len(order) : order[i] \in Listed
      BY DEF ListInv, Fields, Chained, Listed
<1>6. Fields'
      BY <1>1, <1>3, <1>5 DEF ListInv, Fields
<1>7. Chained'
      BY <1>1, <1>3, <1>4, <1>5 DEF ListInv, Chained
<1>8. Popped'
  <2>1. m_head' \in Wrappers
        BY <1>3, <1>4, <1>5
  <2> QED BY <2>1, <1>2, <1>4 DEF Popped
<1>9. Owned'
  <2>1. Listed' = Listed
        BY <1>1 DEF Listed
  <2> QED BY <2>1, <1>1, <1>4 DEF ListInv, Owned
<1>10. Busy'
       BY <1>1, <1>3, <1>4 DEF ListInv, Busy
<1>11. Uncommitted' = Uncommitted
  <2>1. Pending' = Pending
        BY <1>1 DEF Pending
  <2>2. \A u \in Threads : Popping(u)' <=> Popping(u)
        BY <1>1, <1>4 DEF Popping
  <2> QED BY <2>1, <2>2 DEF Uncommitted
<1>12. Committed' = Committed
       BY <1>1, <1>2, <1>4 DEF Committed, Popping
<1> QED BY <1>1, <1>6, <1>7, <1>8, <1>9, <1>10, <1>11, <1>12 DEF ListInv, Queue!vars

LEMMA FinishStep ==
    ASSUME ListInv, IInv', NEW t \in Threads, Finish(t)
    PROVE  ListInv' /\ Queue!Finish(t)
<1> USE JobsAssumption
<1>1. /\ pc[t] = "run" /\ pc' \in {[pc EXCEPT ![t] = "lockHead"], [pc EXCEPT ![t] = "outside"]}
      /\ value' = [w \in Wrappers |-> IF w = task[t] THEN None ELSE value[w]]
      /\ task' = [task EXCEPT ![t] = None] /\ running' = [running EXCEPT ![t] = None]
      /\ UNCHANGED <<next, m_head, m_tail, order, m_stop>>
      BY DEF Finish
<1>2. /\ pc'[t] \in {"lockHead", "outside"} /\ task'[t] = None /\ running'[t] = None
      /\ \A u \in Threads : u # t => /\ pc'[u] = pc[u] /\ task'[u] = task[u]
                                     /\ running'[u] = running[u]
      BY <1>1 DEF ListInv, IInv, Fields
<1>3. /\ \A w \in Listed : w \in Wrappers /\ value'[w] = value[w]
      /\ \A u \in Threads : u # t /\ task[u] # None =>
            task[u] \in Wrappers /\ value'[task[u]] = value[task[u]]
  <2>1. task[t] \notin Listed
        BY DEF ListInv, Owned, Fields, Listed
  <2>2. \A u \in Threads : u # t /\ task[u] # None => task[u] \in Wrappers /\ task[u] # task[t]
        BY DEF ListInv, Owned, Fields
  <2>3. \A w \in Listed : w \in Wrappers
        BY DEF ListInv, Fields, Listed
  <2> QED BY <2>1, <2>2, <2>3, <1>1
<1>4. Len(order) \in Nat \ {0} /\ (\A i \in 1 .. Len(order) : order[i] \in Listed)
      /\ Listed' = Listed
      BY <1>1 DEF ListInv, Fields, Chained, Listed
<1>5. Fields'
      BY <1>1 DEF ListInv, Fields
<1>6. Chained'
  <2>1. \A i \in 1 .. Len(order) - 1 : order[i] \in Listed /\ value'[order[i]] = value[order[i]]
        BY <1>3, <1>4
  <2> QED BY <1>1, <2>1 DEF ListInv, Chained
<1>7. Popped'
      BY <1>1, <1>2, <1>3 DEF ListInv, Popped
<1>8. Owned'
      BY <1>1, <1>2, <1>4 DEF ListInv, Owned
<1>9. Busy'
      BY <1>2, <1>3 DEF ListInv, Busy
<1>10. Uncommitted' = Uncommitted
  <2>1. \A i \in 1 .. Len(order) - 1 : value'[order[i]] = value[order[i]]
        BY <1>3, <1>4
  <2>2. Pending' = Pending
        BY <1>1, <2>1 DEF Pending
  <2>3. \A u \in Threads : Popping(u)' <=> Popping(u)
        BY <1>1, <1>2 DEF Popping
  <2> QED BY <2>2, <2>3 DEF Uncommitted
<1>11. Committed' = [Committed EXCEPT ![t] = None] /\ Committed[t] # None
  <2>1. Committed[t] = running[t] /\ running[t] # None /\ Committed'[t] = None
        BY <1>1, <1>2 DEF Committed, Popping, ListInv, Busy
  <2>2. ASSUME NEW u \in Threads, u # t PROVE Committed'[u] = Committed[u]
    <3>1. pc[u] = "pop" => m_head \in Listed
          BY <1>4 DEF ListInv, Popped, IInv, OneInHeadMutex, InHeadMutex, Chained
    <3>2. pc[u] = "advance" => value'[task[u]] = value[task[u]]
          BY <2>2, <1>3 DEF ListInv, Popped
    <3> QED BY <2>2, <3>1, <3>2, <1>1, <1>2, <1>3 DEF Committed, Popping
  <2>3. /\ Committed = [u \in Threads |-> Committed[u]]
        /\ Committed' = [u \in Threads |-> Committed'[u]]
        BY DEF Committed
  <2> QED BY <2>1, <2>2, <2>3
<1> QED BY <1>1, <1>5, <1>6, <1>7, <1>8, <1>9, <1>10, <1>11 DEF ListInv, Queue!Finish

LEMMA ListInit == Init => ListInv /\ Queue!Init
<1> SUFFICES ASSUME Init PROVE ListInv /\ Queue!Init
    OBVIOUS
<1> USE JobsAssumption
<1>1. m_head \in Wrappers
  <2>1. Wrappers # {}
    <3>1. /\ Cardinality(Jobs) \in Nat /\ Cardinality(Threads) \in Nat
          BY WrappersAssumption, FS_CardinalityType
    <3>2. Wrappers = {} => Cardinality(Wrappers) = 0
          BY WrappersAssumption, FS_EmptySet
    <3> QED BY <3>1, <3>2, WrappersAssumption
  <2> QED BY <2>1 DEF Init
<1>2. /\ order \in Seq(Wrappers) /\ Len(order) = 1 /\ order[1] = m_head /\ m_tail = m_head
      BY <1>1 DEF Init
<1>3. IInv /\ Fields /\ Chained
      BY <1>1, <1>2, InitInvariant DEF Init, Fields, Chained
<1>4. Popped /\ Owned /\ Busy
      BY <1>1 DEF Init, Popped, Owned, Busy
<1>5. Queue!Init
  <2>1. Pending = <<>> /\ ~\E t \in Threads : Popping(t)
        BY <1>2 DEF Init, Pending, Popping
  <2> QED BY <2>1 DEF Init, Queue!Init, Uncommitted, Committed, Popping
<1> QED BY <1>3, <1>4, <1>5 DEF ListInv

LEMMA QueueStep == ListInv /\ [Next]_vars => ListInv' /\ [Queue!Next]_Queue!vars
<1> SUFFICES ASSUME ListInv, [Next]_vars PROVE ListInv' /\ [Queue!Next]_Queue!vars
    OBVIOUS
<1>1. IInv'
      BY StepInvariant DEF ListInv
<1>2. CASE UNCHANGED vars
      BY <1>1, <1>2, ListUntouched DEF vars, workers, Queue!vars
<1>3. ASSUME NEW j \in Jobs, Submit(j) PROVE ListInv' /\ Queue!Next
      BY <1>1, <1>3, SubmitStep DEF Queue!Next
<1>4. CASE NotifyStop
      BY <1>1, <1>4, NotifyStopStep DEF Queue!Next
<1>5. ASSUME NEW t \in Threads, Worker(t) \/ \E m \in Modes : Enter(t, m)
      PROVE  ListInv' /\ [Queue!Next]_Queue!vars
  <2>1. CASE \/ LockHead(t) \/ TestStop(t) \/ TestEmpty(t) \/ SpuriousWakeup(t) \/ Timeout(t)
             \/ \E m \in Modes : Enter(t, m)
        BY <1>1, <2>1, IdleStep
  <2>2. CASE TestFound(t)
        BY <1>1, <2>2, TestFoundStep DEF Queue!Next
  <2>3. CASE Pop(t)
        BY <1>1, <2>3, PopStep
  <2>4. CASE Advance(t)
        BY <1>1, <2>4, AdvanceStep
  <2>5. CASE Resubmit(t)
        BY <1>1, <2>5, ResubmitStep DEF Queue!Next
  <2>6. CASE Finish(t)
        BY <1>1, <2>6, FinishStep DEF Queue!Next
  <2> QED BY <1>5, <2>1, <2>2, <2>3, <2>4, <2>5, <2>6 DEF Worker, WaitAndPop
<1> QED BY <1>2, <1>3, <1>4, <1>5 DEF Next

\* The pool's linked list, popped in two moves outside the lock of submit(), is
\* a first-in first-out queue: whatever the interleaving, jobs are taken once,
\* in the order submitted, none after a stop, and a job can submit itself again.
THEOREM TaskQueueHolds == Spec => ImplementsTaskQueue
<1>1. Init => ListInv /\ Queue!Init
      BY ListInit
<1>2. ListInv /\ [Next]_vars => ListInv' /\ [Queue!Next]_Queue!vars
      BY QueueStep
<1> QED BY <1>1, <1>2, PTL DEF Spec, ImplementsTaskQueue, Queue!Spec

-----------------------------------------------------------------------------
\* A thread that was not started is nowhere, and nobody is in a destroyed pool.
QuietInv == /\ pc \in [Threads -> Ats]
            /\ caller \in [Callers -> {"idle", "stop", "lock", "join"}]
            /\ m_threads \subseteq Threads
            /\ \A t \in Threads \ m_threads : pc[t] = "outside"
            /\ GoneIsQuiet

\* Threads do not come into worker functions of themselves.
LEMMA OutsideStays ==
    ASSUME pc \in [Threads -> Ats],
           \/ \E j \in Jobs : Submit(j)
           \/ NotifyStop
           \/ \E t \in Threads : Worker(t)
    PROVE  /\ pc' \in [Threads -> Ats]
           /\ \A t \in Threads : pc[t] = "outside" => pc'[t] = "outside"
<1> USE DEF Ats, Asleep, NotifyOne
<1>1. CASE (\E j \in Jobs : Submit(j)) \/ NotifyStop
      BY <1>1 DEF Submit, NotifyStop
<1>2. ASSUME NEW t \in Threads, Resubmit(t) \/ Finish(t)
      PROVE  /\ pc' \in [Threads -> Ats]
             /\ \A u \in Threads : pc[u] = "outside" => pc'[u] = "outside"
      BY <1>2 DEF Resubmit, Finish
<1>3. ASSUME NEW t \in Threads, WaitAndPop(t)
      PROVE  /\ pc' \in [Threads -> Ats]
             /\ \A u \in Threads : pc[u] = "outside" => pc'[u] = "outside"
      BY <1>3 DEF WaitAndPop, LockHead, TestStop, TestFound, TestEmpty, SpuriousWakeup, Timeout,
                  Pop, Advance, Return, Tests
<1> QED BY <1>1, <1>2, <1>3 DEF Worker

LEMMA QuietInit == SimpleInit => QuietInv
BY DEF SimpleInit, Init, QuietInv, GoneIsQuiet, Ats

LEMMA QuietStep == QuietInv /\ [SimpleNext]_simplePoolVars => QuietInv'
<1> SUFFICES ASSUME QuietInv, [SimpleNext]_simplePoolVars
             PROVE  QuietInv'
    OBVIOUS
<1> USE DEF QuietInv, GoneIsQuiet
<1>1. CASE UNCHANGED simplePoolVars
      BY <1>1 DEF simplePoolVars, vars, simpleVars, workers
<1>2. CASE StartThread
      BY <1>2 DEF StartThread, Enter, Ats
<1>3. CASE StartThreadFails \/ Constructed \/ Destroy
      BY <1>3, OwnerAssumption DEF StartThreadFails, Constructed, Destroy, vars, workers
<1>4. ASSUME NEW c \in Callers, CallJoin(c) \/ CallStopAndJoin(c) \/ LockThreads(c)
      PROVE  QuietInv'
      BY <1>4 DEF CallJoin, CallStopAndJoin, LockThreads, vars, workers
<1>5. ASSUME NEW c \in Callers, JoinThreads(c) PROVE QuietInv'
      BY <1>5 DEF JoinThreads, vars, workers
<1>6. ASSUME NEW c \in Callers, Notify(c) PROVE QuietInv'
      BY <1>6, OutsideStays DEF Notify
<1>7. CASE (\E j \in Jobs : SimpleSubmit(j)) \/ (\E t \in Threads : SimpleWorker(t))
      BY <1>7, OutsideStays DEF SimpleSubmit, SimpleWorker, simpleVars
<1> QED BY <1>1, <1>2, <1>3, <1>4, <1>5, <1>6, <1>7 DEF SimpleNext

\* No worker is in the pool after its destructor, or after its constructor has
\* thrown, however many threads had been started.
THEOREM GoneIsQuietHolds == SimpleSpec => []GoneIsQuiet
<1>1. QuietInv => GoneIsQuiet
      BY DEF QuietInv
<1> QED BY <1>1, QuietInit, QuietStep, PTL DEF SimpleSpec
-----------------------------------------------------------------------------
(* Both pools are ThreadPools, whatever else their users do                  *)

LEMMA SimplePoolStep == [SimpleNext]_simplePoolVars => [Next]_vars
BY DEF SimpleNext, StartThread, StartThreadFails, Constructed, Destroy, CallJoin,
       CallStopAndJoin, Notify, LockThreads, JoinThreads, SimpleSubmit, SimpleWorker,
       simplePoolVars, Next, Modes

LEMMA ParticipatoryStep ==
    /\ \A t \in Threads : place[t] \in {"test", "asleep"} => wish[t] \in Modes
    /\ [PNext]_allvars
    => [Next]_vars
<1> SUFFICES ASSUME \A t \in Threads : place[t] \in {"test", "asleep"} => wish[t] \in Modes,
                    [PNext]_allvars
             PROVE  [Next]_vars
    OBVIOUS
<1>1. ASSUME NEW t \in Threads, Admit(t) PROVE Next
      BY <1>1 DEF Admit, Next
<1>2. ASSUME NEW t \in Threads,
             (\E m \in Modes : Participate(t, m)) \/ Block(t) \/ GiveUp(t) \/ Leave(t)
      PROVE  UNCHANGED vars
      BY <1>2 DEF Participate, Block, GiveUp, Leave
<1>3. CASE Join \/ JoinTest \/ UNCHANGED allvars
      BY <1>3 DEF Join, JoinTest, allvars
<1>4. ASSUME \/ \E t \in Threads : PWorker(t)
             \/ \E j \in Jobs : PSubmit(j)
             \/ StopAndJoin
      PROVE  Next
      BY <1>4 DEF PWorker, PSubmit, StopAndJoin, Next
<1> QED BY <1>1, <1>2, <1>3, <1>4 DEF PNext

\* A SimpleThreadPool, too, wakes its workers and serves its jobs in order.
THEOREM SimplePoolHolds == SimpleSpec => []NoLostWakeup /\ ImplementsTaskQueue
<1>1. SimpleInit => Init
      BY DEF SimpleInit
<1>2. IInv => NoLostWakeup
      BY DEF IInv
<1>3. Init => ListInv /\ Queue!Init
      BY ListInit
<1>4. ListInv /\ [Next]_vars => ListInv' /\ [Queue!Next]_Queue!vars
      BY QueueStep
<1> QED BY <1>1, <1>2, <1>3, <1>4, SimplePoolStep, InitInvariant, StepInvariant,
           PTL DEF SimpleSpec, ImplementsTaskQueue, Queue!Spec

-----------------------------------------------------------------------------
(* The counter of a ParticipatoryThreadPool                                  *)

Inside == {t \in Threads : place[t] = "in"}

\* The counter is the number of context objects, and only a thread that has
\* one is in a worker function.
CountInv == /\ pc \in [Threads -> Ats]
            /\ place \in [Threads -> {"away", "test", "asleep", "in"}]
            /\ wish \in [Threads -> Modes \cup {"none"}]
            /\ m_numParticipants = Cardinality(Inside)
            /\ m_numParticipants <= MaxParticipants
            /\ \A t \in Threads : place[t] # "in" => pc[t] = "outside"
            /\ \A t \in Threads : place[t] \in {"test", "asleep"} => wish[t] \in Modes

LEMMA InsideFinite == IsFiniteSet(Inside) /\ Cardinality(Inside) \in Nat
BY WrappersAssumption, FS_Subset, FS_CardinalityType DEF Inside

LEMMA CountInit == PInit => CountInv
<1> SUFFICES ASSUME PInit PROVE CountInv
    OBVIOUS
<1>1. Inside = {}
      BY DEF PInit, Inside
<1> QED BY <1>1, FS_EmptySet, MaxAssumption DEF PInit, Init, CountInv, Ats

LEMMA CountStep == CountInv /\ [PNext]_allvars => CountInv'
<1> SUFFICES ASSUME CountInv, [PNext]_allvars PROVE CountInv'
    OBVIOUS
<1> USE DEF CountInv
\* A step that moves nobody into a context or out of one
<1>1. ASSUME m_numParticipants' = m_numParticipants, Inside' = Inside,
             pc' \in [Threads -> Ats], \A t \in Threads : pc[t] = "outside" => pc'[t] = "outside",
             place' \in [Threads -> {"away", "test", "asleep", "in"}],
             wish' \in [Threads -> Modes \cup {"none"}],
             \A t \in Threads : place'[t] \in {"test", "asleep"} => wish'[t] \in Modes
      PROVE  CountInv'
      BY <1>1 DEF Inside
<1>2. ASSUME NEW t \in Threads, NEW m \in Modes, Participate(t, m) PROVE CountInv'
      BY <1>1, <1>2 DEF Participate, Inside, vars, workers
<1>3. ASSUME NEW t \in Threads, Block(t) \/ GiveUp(t) PROVE CountInv'
      BY <1>1, <1>3 DEF Block, GiveUp, Inside, vars, workers
<1>4. ASSUME NEW t \in Threads, Admit(t) PROVE CountInv'
  <2>1. Inside' = Inside \cup {t} /\ t \notin Inside
        BY <1>4 DEF Admit, Inside
  <2>2. m_numParticipants' = Cardinality(Inside')
        BY <1>4, <2>1, InsideFinite, FS_AddElement DEF Admit
  <2>3. m_numParticipants' <= MaxParticipants
        BY <1>4, InsideFinite, MaxAssumption DEF Admit
  <2> QED BY <1>4, <2>2, <2>3 DEF Admit, Enter, Ats
<1>5. ASSUME NEW t \in Threads, Leave(t) PROVE CountInv'
  <2>1. Inside' = Inside \ {t} /\ t \in Inside
        BY <1>5 DEF Leave, Inside
  <2>2. m_numParticipants' = Cardinality(Inside')
        BY <1>5, <2>1, InsideFinite, FS_RemoveElement DEF Leave
  <2>3. m_numParticipants' <= MaxParticipants
        BY <1>5, InsideFinite, MaxAssumption DEF Leave
  <2> QED BY <1>5, <2>2, <2>3 DEF Leave, vars, workers
<1>6. CASE Join \/ JoinTest \/ UNCHANGED allvars
      BY <1>1, <1>6 DEF Join, JoinTest, allvars, pvars, vars, workers, Inside
<1>7. ASSUME \/ \E t \in Threads : PWorker(t)
             \/ \E j \in Jobs : PSubmit(j)
             \/ StopAndJoin
      PROVE  CountInv'
      BY <1>1, <1>7, OutsideStays DEF PWorker, PSubmit, StopAndJoin, pvars, Inside
<1> QED BY <1>2, <1>3, <1>4, <1>5, <1>6, <1>7 DEF PNext

\* However many threads come and go, the counter stays in its range: it never
\* passes its largest value, and never wraps below zero.
THEOREM CounterInRange == PSpec => [](m_numParticipants \in 0 .. MaxParticipants)
<1>1. CountInv => m_numParticipants \in 0 .. MaxParticipants
      BY InsideFinite, MaxAssumption DEF CountInv
<1> QED BY <1>1, CountInit, CountStep, PTL DEF PSpec

\* When join() sees the counter at zero, no thread is in a worker function.
THEOREM JoinSawNobodyHolds == PSpec => JoinSawNobody
<1>1. ASSUME CountInv, [PNext]_allvars, joiner = "test", joiner' = "idle"
      PROVE  \A t \in Threads : pc[t] = "outside" /\ place[t] # "in"
  <2>1. JoinTest
        BY <1>1 DEF PNext, allvars, pvars, Participate, Admit, Block, GiveUp, PWorker, Leave,
                    PSubmit, Join, StopAndJoin, JoinTest
  <2>2. Cardinality(Inside) = 0
        BY <1>1, <2>1, InsideFinite DEF JoinTest, CountInv
  <2>3. Inside = {}
        BY <2>2, InsideFinite, FS_EmptySet
  <2> QED BY <1>1, <2>3 DEF Inside, CountInv
<1> QED BY <1>1, CountInit, CountStep, PTL DEF PSpec, JoinSawNobody

\* A ParticipatoryThreadPool, too, wakes its workers and serves its jobs in order.
THEOREM ParticipatoryPoolHolds == PSpec => []NoLostWakeup /\ ImplementsTaskQueue
<1>1. PInit => Init
      BY DEF PInit
<1>2. IInv => NoLostWakeup
      BY DEF IInv
<1>3. Init => ListInv /\ Queue!Init
      BY ListInit
<1>4. ListInv /\ [Next]_vars => ListInv' /\ [Queue!Next]_Queue!vars
      BY QueueStep
<1>5. CountInv /\ [PNext]_allvars => [Next]_vars
      BY ParticipatoryStep DEF CountInv
<1> QED BY <1>1, <1>2, <1>3, <1>4, <1>5, CountInit, CountStep, InitInvariant, StepInvariant,
           PTL DEF PSpec, ImplementsTaskQueue, Queue!Spec
=============================================================================
