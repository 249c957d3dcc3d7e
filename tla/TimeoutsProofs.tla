--------------------------- MODULE TimeoutsProofs ----------------------------
(* What TimeoutsThread promises for any number of tasks and any clock: the   *)
(* thread never oversleeps, and TimeoutsThread implements DueQueue. Both     *)
(* rest on the invariant that the list of the code is sorted by time and, in *)
(* it, tasks of the same time stand in their order of arrival.               *)
EXTENDS TimeoutsThread, FiniteSetTheorems, SequenceTheorems, TLAPS

-----------------------------------------------------------------------------
(* Insertion into and removal from a sequence *)

\* r is s with e at its place u, the elements from there on moved by one.
Inserted(r, s, u, e) ==
  /\ Len(r) = Len(s) + 1
  /\ \A i \in 1..Len(s) + 1 :
       r[i] = IF i < u THEN s[i] ELSE IF i = u THEN e ELSE s[i - 1]

\* InsertAt() is what Inserted says.
LEMMA InsertAtProperties ==
  ASSUME NEW S, NEW s \in Seq(S), NEW e \in S, NEW u \in 1..Len(s) + 1
  PROVE  InsertAt(s, u, e) \in Seq(S) /\ Inserted(InsertAt(s, u, e), s, u, e)
<1> DEFINE a == SubSeq(s, 1, u - 1)
           b == <<e>>
           c == SubSeq(s, u, Len(s))
<1>0. u \in Nat /\ u > 0 /\ u <= Len(s) + 1 /\ Len(s) \in Nat /\ \A i \in 1..Len(s) : s[i] \in S
  OBVIOUS
<1>1. a \in Seq(S) /\ Len(a) = u - 1 /\ \A i \in 1..u - 1 : a[i] = s[i]
  <2>1. \A i \in 1..u - 1 : s[i] \in S
    BY <1>0
  <2>2. /\ a \in Seq(S) /\ Len(a) = IF 1 <= u - 1 THEN u - 1 - 1 + 1 ELSE 0
        /\ \A i \in 1..u - 1 - 1 + 1 : a[i] = s[1 + i - 1]
    BY <1>0, <2>1, SubSeqProperties
  <2>3. \A i \in 1..u - 1 : i \in 1..u - 1 - 1 + 1 /\ 1 + i - 1 = i
    BY <1>0
  <2> QED BY <1>0, <2>2, <2>3
<1>2. c \in Seq(S) /\ Len(c) = Len(s) - u + 1 /\ \A i \in 1..Len(s) - u + 1 : c[i] = s[u + i - 1]
  <2>1. \A i \in u..Len(s) : s[i] \in S
    BY <1>0
  <2>2. /\ c \in Seq(S) /\ Len(c) = IF u <= Len(s) THEN Len(s) - u + 1 ELSE 0
        /\ \A i \in 1..Len(s) - u + 1 : c[i] = s[u + i - 1]
    BY <1>0, <2>1, SubSeqProperties
  <2> QED BY <1>0, <2>2
<1>3. b \in Seq(S) /\ Len(b) = 1 /\ b[1] = e
  OBVIOUS
<1> HIDE DEF a, b, c
<1>4. /\ a \o b \in Seq(S) /\ Len(a \o b) = u
      /\ \A i \in 1..u : (a \o b)[i] = IF i <= u - 1 THEN a[i] ELSE b[i - (u - 1)]
  <2>1. /\ a \o b \in Seq(S) /\ Len(a \o b) = Len(a) + Len(b)
        /\ \A i \in 1..Len(a) + Len(b) : (a \o b)[i] = IF i <= Len(a) THEN a[i] ELSE b[i - Len(a)]
    BY <1>1, <1>3, ConcatProperties
  <2>2. Len(a) = u - 1 /\ Len(a) + Len(b) = u
    BY <1>0, <1>1, <1>3
  <2> QED BY <2>1, <2>2
<1>5. /\ (a \o b) \o c \in Seq(S) /\ Len((a \o b) \o c) = Len(s) + 1
      /\ \A i \in 1..u : ((a \o b) \o c)[i] = (a \o b)[i]
      /\ \A i \in u + 1..Len(s) + 1 : ((a \o b) \o c)[i] = c[i - u]
  <2>1. /\ (a \o b) \o c \in Seq(S) /\ Len((a \o b) \o c) = Len(a \o b) + Len(c)
        /\ \A i \in 1..Len(a \o b) + Len(c) :
             ((a \o b) \o c)[i] = IF i <= Len(a \o b) THEN (a \o b)[i] ELSE c[i - Len(a \o b)]
    BY <1>2, <1>4, ConcatProperties
  <2>2. Len(a \o b) = u /\ u + Len(c) = Len(s) + 1
    BY <1>0, <1>2, <1>4
  <2>3. /\ \A i \in 1..u : i \in 1..Len(s) + 1 /\ i <= u
        /\ \A i \in u + 1..Len(s) + 1 : i \in 1..Len(s) + 1 /\ ~(i <= u)
    BY <1>0
  <2> QED BY <2>1, <2>2, <2>3
<1>6. ASSUME NEW i \in 1..Len(s) + 1
      PROVE  ((a \o b) \o c)[i] = IF i < u THEN s[i] ELSE IF i = u THEN e ELSE s[i - 1]
  <2>1. CASE i < u
    <3>1. i \in 1..u - 1 /\ i \in 1..u /\ i <= u - 1
      BY <1>0, <2>1
    <3> QED BY <1>1, <1>4, <1>5, <2>1, <3>1
  <2>2. CASE i = u
    <3>1. u \in 1..u /\ ~(u <= u - 1) /\ u - (u - 1) = 1
      BY <1>0
    <3>2. (a \o b)[u] = b[1]
      BY <1>4, <3>1
    <3>3. ((a \o b) \o c)[u] = (a \o b)[u]
      BY <1>5, <3>1
    <3>4. ~(u < u)
      BY <1>0
    <3> QED BY <1>3, <2>2, <3>2, <3>3, <3>4
  <2>3. CASE i > u
    <3>1. /\ i - u \in 1..Len(s) - u + 1 /\ u + (i - u) - 1 = i - 1
          /\ i \in u + 1..Len(s) + 1 /\ ~(i < u) /\ i # u
      BY <1>0, <2>3
    <3>2. c[i - u] = s[i - 1]
      BY <1>2, <3>1
    <3> QED BY <1>5, <3>1, <3>2
  <2>4. i \in Int /\ u \in Int
    BY <1>0
  <2>5. i < u \/ i = u \/ i > u
    BY <2>4
  <2> QED BY <2>1, <2>2, <2>3, <2>5
<1>7. InsertAt(s, u, e) = (a \o b) \o c
  BY DEF InsertAt, a, b, c
<1> QED BY <1>5, <1>6, <1>7 DEF Inserted

\* RemoveAt() takes out one element and moves those behind it by one.
LEMMA RemoveAtProperties ==
  ASSUME NEW S, NEW s \in Seq(S), NEW u \in 1..Len(s)
  PROVE  /\ RemoveAt(s, u) \in Seq(S)
         /\ Len(RemoveAt(s, u)) = Len(s) - 1
         /\ \A i \in 1..Len(s) - 1 : RemoveAt(s, u)[i] = IF i < u THEN s[i] ELSE s[i + 1]
<1> DEFINE a == SubSeq(s, 1, u - 1)
           c == SubSeq(s, u + 1, Len(s))
<1>0. u \in Nat /\ u > 0 /\ u <= Len(s) /\ Len(s) \in Nat /\ \A i \in 1..Len(s) : s[i] \in S
  OBVIOUS
<1>1. a \in Seq(S) /\ Len(a) = u - 1 /\ \A i \in 1..u - 1 : a[i] = s[i]
  <2>1. \A i \in 1..u - 1 : s[i] \in S
    BY <1>0
  <2>2. /\ a \in Seq(S) /\ Len(a) = IF 1 <= u - 1 THEN u - 1 - 1 + 1 ELSE 0
        /\ \A i \in 1..u - 1 - 1 + 1 : a[i] = s[1 + i - 1]
    BY <1>0, <2>1, SubSeqProperties
  <2>3. \A i \in 1..u - 1 : i \in 1..u - 1 - 1 + 1 /\ 1 + i - 1 = i
    BY <1>0
  <2> QED BY <1>0, <2>2, <2>3
<1>2. c \in Seq(S) /\ Len(c) = Len(s) - u /\ \A i \in 1..Len(s) - u : c[i] = s[u + i]
  <2>1. \A i \in u + 1..Len(s) : s[i] \in S
    BY <1>0
  <2>2. /\ c \in Seq(S) /\ Len(c) = IF u + 1 <= Len(s) THEN Len(s) - (u + 1) + 1 ELSE 0
        /\ \A i \in 1..Len(s) - (u + 1) + 1 : c[i] = s[u + 1 + i - 1]
    BY <1>0, <2>1, SubSeqProperties
  <2>3. \A i \in 1..Len(s) - u : i \in 1..Len(s) - (u + 1) + 1 /\ u + 1 + i - 1 = u + i
    BY <1>0
  <2> QED BY <1>0, <2>2, <2>3
<1> HIDE DEF a, c
<1>3. /\ a \o c \in Seq(S) /\ Len(a \o c) = Len(s) - 1
      /\ \A i \in 1..Len(s) - 1 : (a \o c)[i] = IF i <= u - 1 THEN a[i] ELSE c[i - (u - 1)]
  <2>1. /\ a \o c \in Seq(S) /\ Len(a \o c) = Len(a) + Len(c)
        /\ \A i \in 1..Len(a) + Len(c) : (a \o c)[i] = IF i <= Len(a) THEN a[i] ELSE c[i - Len(a)]
    BY <1>1, <1>2, ConcatProperties
  <2>2. Len(a) = u - 1 /\ Len(a) + Len(c) = Len(s) - 1
    BY <1>0, <1>1, <1>2
  <2> QED BY <2>1, <2>2
<1>4. ASSUME NEW i \in 1..Len(s) - 1
      PROVE  (a \o c)[i] = IF i < u THEN s[i] ELSE s[i + 1]
  <2>1. CASE i < u
    BY <1>0, <1>1, <1>3, <2>1
  <2>2. CASE i >= u
    <3>1. i - (u - 1) \in 1..Len(s) - u /\ u + (i - (u - 1)) = i + 1
      BY <1>0, <2>2
    <3> QED BY <1>0, <1>2, <1>3, <2>2, <3>1
  <2>3. i \in Int /\ u \in Int
    BY <1>0
  <2>4. i < u \/ i >= u
    BY <2>3
  <2> QED BY <2>1, <2>2, <2>4
<1>5. RemoveAt(s, u) = a \o c
  BY DEF RemoveAt, a, c
<1> QED BY <1>3, <1>4, <1>5

-----------------------------------------------------------------------------
(* The parts of the inductive invariant *)

Arrival == [task : AllTasks, time : Times]
Typed == TypeOK /\ arrivals \in Seq(Arrival)

\* The time of the task at a place of the list.
At(i) == m_timePoint[m_tasks[i]]

\* A task is executed exactly in the state "run"; the stop task is with the
\* thread object until it is added, and nobody adds it a second time.
Runs == /\ runTask # None <=> pc = "run"
        /\ m_stopTask => place[StopTask] = "user"
        /\ runTask = StopTask => place[StopTask] = "running"

\* The list holds the listed tasks, each once.
Listed == /\ \A i \in 1..Len(m_tasks) : place[m_tasks[i]] = "listed"
          /\ \A t \in AllTasks : place[t] = "listed" => \E i \in 1..Len(m_tasks) : m_tasks[i] = t
          /\ \A i, j \in 1..Len(m_tasks) : m_tasks[i] = m_tasks[j] => i = j

\* The list is sorted by time.
Sorted == \A i, j \in 1..Len(m_tasks) : i < j => At(i) <= At(j)

\* The history holds the listed tasks, each once and with its time.
Arrived ==
  /\ \A k \in 1..Len(arrivals) : /\ place[arrivals[k].task] = "listed"
                                 /\ arrivals[k].time = m_timePoint[arrivals[k].task]
  /\ \A t \in AllTasks : place[t] = "listed" => \E k \in 1..Len(arrivals) : arrivals[k].task = t
  /\ \A k, l \in 1..Len(arrivals) : arrivals[k].task = arrivals[l].task => k = l

\* Tasks of the same time stand in the list as they arrived.
InOrder == \A i, j \in 1..Len(m_tasks), k, l \in 1..Len(arrivals) :
  arrivals[k].task = m_tasks[i] /\ arrivals[l].task = m_tasks[j] /\ i < j /\ At(i) = At(j) => k < l

\* The thread sleeps to the time of the first task as it is now, and after a
\* timeout the first task is due.
SleepsToFirst ==
  /\ pc = "sleep" => IF m_tasks = <<>> THEN until = Never ELSE until = At(1)
  /\ pc = "expired" => m_tasks # <<>> /\ At(1) <= now

IInv == Typed /\ Runs /\ Listed /\ Sorted /\ Arrived /\ InOrder /\ SleepsToFirst

\* In a sorted list the upper bound parts the tasks that are not later than t
\* from those that are.
LEMMA UpperBoundSplits ==
  ASSUME Typed, Sorted, NEW t \in AllTasks
  PROVE  /\ UpperBound(t) \in 1..Len(m_tasks) + 1
         /\ \A i \in 1..Len(m_tasks) : i < UpperBound(t) <=> At(i) <= m_timePoint[t]
<1> DEFINE n == Len(m_tasks)
           early == {i \in 1..n : At(i) <= m_timePoint[t]}
           c == Cardinality(early)
<1>0. n \in Nat /\ m_timePoint[t] \in Nat /\ \A i \in 1..n : At(i) \in Nat
  BY TimeAssumption DEF Typed, TypeOK, Times, Epoch, At
<1>1. UpperBound(t) = 1 + c
  <2>1. DOMAIN m_tasks = 1..n
    BY DEF Typed, TypeOK
  <2> QED BY <2>1 DEF UpperBound, At
<1>2. IsFiniteSet(1..n) /\ Cardinality(1..n) = n
  <2>1. n \in Int /\ 1 \in Int
    BY <1>0
  <2>2. IsFiniteSet(1..n) /\ Cardinality(1..n) = IF 1 > n THEN 0 ELSE n - 1 + 1
    BY <2>1, FS_Interval
  <2> QED BY <1>0, <2>2
<1>3. c \in Nat /\ c <= n
  BY <1>0, <1>2, FS_Subset, FS_CardinalityType
<1>4. ASSUME NEW i \in early PROVE i <= c
  <2>1. 1..i \subseteq early
    BY <1>0 DEF Sorted
  <2>2. IsFiniteSet(early)
    BY <1>2, FS_Subset
  <2>3. Cardinality(1..i) <= c
    BY <2>1, <2>2, FS_Subset
  <2>4. Cardinality(1..i) = i
    BY <1>0, FS_Interval
  <2> QED BY <2>3, <2>4
<1>5. ASSUME NEW i \in 1..n, i \notin early PROVE c < i
  <2>1. early \subseteq 1..i - 1
    BY <1>0, <1>5 DEF Sorted
  <2>2. IsFiniteSet(1..i - 1) /\ Cardinality(1..i - 1) = i - 1
    <3>1. i - 1 \in Int /\ 1 \in Int /\ i - 1 >= 0
      BY <1>0
    <3>2. IsFiniteSet(1..i - 1) /\ Cardinality(1..i - 1) = IF 1 > i - 1 THEN 0 ELSE i - 1 - 1 + 1
      BY <3>1, FS_Interval
    <3> QED BY <1>0, <3>1, <3>2
  <2>3. c <= i - 1
    BY <2>1, <2>2, FS_Subset
  <2> QED BY <1>0, <1>3, <2>3
<1> HIDE DEF c
<1> QED BY <1>0, <1>1, <1>3, <1>4, <1>5

-----------------------------------------------------------------------------
(* What the steps do to the list and to its history *)

\* addTask() gives a time to a task that is in no list, which changes neither
\* the list nor the history nor the time of any task in them.
LEMMA AddKeepsLists ==
  ASSUME IInv, NEW t \in AllTasks, NEW d \in Times, place[t] # "listed", AddTask(t, d)
  PROVE  /\ Listed' /\ Sorted' /\ Arrived' /\ InOrder'
         /\ \A i \in 1..Len(m_tasks) : At(i)' = At(i)
<1> USE DEF AddTask
<1>1. \A i \in 1..Len(m_tasks) : m_tasks[i] \in AllTasks /\ m_tasks[i] # t
  BY DEF IInv, Typed, TypeOK, Listed
<1>2. \A k \in 1..Len(arrivals) : arrivals[k] \in Arrival /\ arrivals[k].task # t
  BY DEF IInv, Typed, Arrived
<1>3. \A s \in AllTasks : s # t => m_timePoint'[s] = m_timePoint[s] /\ place'[s] = place[s]
  BY DEF IInv, Typed, TypeOK
<1>4. place'[t] = "transit" /\ m_tasks' = m_tasks /\ arrivals' = arrivals
  BY DEF IInv, Typed, TypeOK
<1>5. \A i \in 1..Len(m_tasks) : At(i)' = At(i)
  BY <1>1, <1>3, <1>4 DEF At
<1>6. Listed'
  BY <1>1, <1>3, <1>4 DEF IInv, Listed
<1>7. Sorted'
  BY <1>4, <1>5 DEF IInv, Sorted
<1>8. Arrived'
  BY <1>2, <1>3, <1>4 DEF IInv, Arrived, Arrival
<1>9. InOrder'
  BY <1>4, <1>5 DEF IInv, InOrder
<1> QED BY <1>5, <1>6, <1>7, <1>8, <1>9

\* Tasks::insert() keeps the order of the list, and tasks of the same time in
\* their order of arrival.
LEMMA InsertKeepsLists ==
  ASSUME IInv, NEW t \in AllTasks, Insert(t)
  PROVE  /\ m_tasks' \in Seq(AllTasks) /\ Len(m_tasks') = Len(m_tasks) + 1
         /\ arrivals' \in Seq(Arrival)
         /\ Listed' /\ Sorted' /\ Arrived' /\ InOrder'
<1> DEFINE n == Len(m_tasks)
           m == Len(arrivals)
           u == UpperBound(t)
           e == [task |-> t, time |-> m_timePoint[t]]
<1>0. /\ m_tasks \in Seq(AllTasks) /\ n \in Nat /\ arrivals \in Seq(Arrival) /\ m \in Nat
      /\ place \in [AllTasks -> {"user", "transit", "listed", "running", "dead"}]
      /\ m_timePoint \in [AllTasks -> Times] /\ m_timePoint' = m_timePoint
      /\ place[t] = "transit" /\ place' = [place EXCEPT ![t] = "listed"]
  BY DEF IInv, Typed, TypeOK, Insert
<1>1. u \in 1..n + 1 /\ \A i \in 1..n : i < u <=> At(i) <= m_timePoint[t]
  BY UpperBoundSplits DEF IInv
<1> HIDE DEF u
<1>2. /\ m_tasks' \in Seq(AllTasks) /\ Len(m_tasks') = n + 1
      /\ \A i \in 1..n + 1 :
           m_tasks'[i] = IF i < u THEN m_tasks[i] ELSE IF i = u THEN t ELSE m_tasks[i - 1]
  <2>1. m_tasks' = InsertAt(m_tasks, u, t)
    BY DEF Insert, u
  <2>2. InsertAt(m_tasks, u, t) \in Seq(AllTasks) /\ Inserted(InsertAt(m_tasks, u, t), m_tasks, u, t)
    <3>1. u \in 1..Len(m_tasks) + 1 /\ m_tasks \in Seq(AllTasks)
      BY <1>0, <1>1
    <3> QED BY <3>1, InsertAtProperties
  <2> QED BY <2>1, <2>2 DEF Inserted
<1>3. e \in Arrival /\ e.task = t /\ e.time = m_timePoint[t]
  BY <1>0 DEF Arrival
<1> HIDE DEF e
<1>4. /\ arrivals' \in Seq(Arrival) /\ Len(arrivals') = m + 1
      /\ \A k \in 1..m : arrivals'[k] = arrivals[k]
      /\ arrivals'[m + 1] = e
  <2>1. arrivals' = Append(arrivals, e)
    BY DEF Insert, e
  <2> QED BY <1>0, <1>3, <2>1, AppendProperties
<1>5. /\ place'[t] = "listed" /\ \A s \in AllTasks : s # t => place'[s] = place[s]
      /\ \A i \in 1..n : m_tasks[i] \in AllTasks /\ m_tasks[i] # t
      /\ \A k \in 1..m : arrivals[k].task \in AllTasks /\ arrivals[k].task # t
  <2>1. \A i \in 1..n : m_tasks[i] \in AllTasks /\ place[m_tasks[i]] = "listed"
    BY <1>0 DEF IInv, Listed
  <2>2. \A k \in 1..m : arrivals[k] \in Arrival /\ place[arrivals[k].task] = "listed"
    BY <1>0 DEF IInv, Arrived
  <2> QED BY <1>0, <2>1, <2>2 DEF Arrival
<1>6. /\ \A i \in 1..n : At(i) \in Nat
      /\ m_timePoint[t] \in Nat
  BY <1>0, <1>5, TimeAssumption DEF Times, Epoch, At
<1>7. Listed'
  <2>1. ASSUME NEW i \in 1..n + 1 PROVE place'[m_tasks'[i]] = "listed"
    <3>1. m_tasks'[i] = t \/ \E j \in 1..n : m_tasks'[i] = m_tasks[j]
      <4>1. i < u => i \in 1..n
        BY <1>0, <1>1
      <4>2. ~(i < u) /\ i # u => i - 1 \in 1..n
        BY <1>0, <1>1
      <4> QED BY <1>2, <4>1, <4>2
    <3> QED BY <1>5, <3>1 DEF IInv, Listed
  <2>2. ASSUME NEW s \in AllTasks, place'[s] = "listed"
        PROVE  \E i \in 1..n + 1 : m_tasks'[i] = s
    <3>1. CASE s = t
      BY <1>1, <1>2, <3>1
    <3>2. CASE s # t
      <4>1. PICK j \in 1..n : m_tasks[j] = s
        BY <1>5, <2>2, <3>2 DEF IInv, Listed
      <4>2. CASE j < u
        BY <1>0, <1>2, <4>1, <4>2
      <4>3. CASE j >= u
        <5>1. j + 1 \in 1..n + 1 /\ ~(j + 1 < u) /\ j + 1 # u /\ (j + 1) - 1 = j
          BY <1>0, <1>1, <4>3
        <5> QED BY <1>2, <4>1, <5>1
      <4> QED BY <1>0, <1>1, <4>2, <4>3
    <3> QED BY <3>1, <3>2
  <2>3. ASSUME NEW i \in 1..n + 1, NEW j \in 1..n + 1, m_tasks'[i] = m_tasks'[j]
        PROVE  i = j
    <3>1. \A k, l \in 1..n : m_tasks[k] = m_tasks[l] => k = l
      BY DEF IInv, Listed
    <3>2. ASSUME NEW k \in 1..n + 1, k # u
          PROVE  /\ (IF k < u THEN k ELSE k - 1) \in 1..n
                 /\ m_tasks'[k] = m_tasks[IF k < u THEN k ELSE k - 1]
                 /\ m_tasks'[k] # t
      <4>1. CASE k < u
        <5>1. k \in 1..n /\ m_tasks'[k] = m_tasks[k]
          BY <1>0, <1>1, <1>2, <4>1
        <5> QED BY <1>5, <4>1, <5>1
      <4>2. CASE ~(k < u)
        <5>1. k - 1 \in 1..n /\ m_tasks'[k] = m_tasks[k - 1]
          BY <1>0, <1>1, <1>2, <3>2, <4>2
        <5> QED BY <1>5, <4>2, <5>1
      <4> QED BY <4>1, <4>2
    <3>3. m_tasks'[u] = t
      BY <1>0, <1>1, <1>2
    <3>4. CASE i = u \/ j = u
      BY <2>3, <3>2, <3>3, <3>4
    <3>5. CASE i # u /\ j # u
      <4>1. (IF i < u THEN i ELSE i - 1) = (IF j < u THEN j ELSE j - 1)
        BY <2>3, <3>1, <3>2, <3>5
      <4>2. i \in Nat /\ j \in Nat /\ u \in Nat
        BY <1>0, <1>1
      <4> QED BY <3>5, <4>1, <4>2
    <3> QED BY <3>4, <3>5
  <2> QED BY <1>2, <2>1, <2>2, <2>3 DEF Listed
<1>8. \A i \in 1..n + 1 : At(i)' = IF i < u THEN At(i) ELSE IF i = u THEN m_timePoint[t] ELSE At(i - 1)
  BY <1>0, <1>1, <1>2 DEF At
<1>9. Sorted'
  <2>1. ASSUME NEW i \in 1..n + 1, NEW j \in 1..n + 1, i < j PROVE At(i)' <= At(j)'
    <3>0. \A k, l \in 1..n : k < l => At(k) <= At(l)
      BY DEF IInv, Sorted
    <3>1. CASE j < u
      BY <1>0, <1>1, <1>8, <2>1, <3>0, <3>1
    <3>2. CASE j = u
      BY <1>0, <1>1, <1>8, <2>1, <3>2
    <3>3. CASE j > u /\ i < u
      <4>1. i \in 1..n /\ j - 1 \in 1..n /\ ~(j - 1 < u)
        BY <1>0, <1>1, <3>3
      <4>2. At(i) <= m_timePoint[t] /\ m_timePoint[t] <= At(j - 1)
        BY <1>1, <1>6, <3>3, <4>1
      <4> QED BY <1>0, <1>1, <1>6, <1>8, <3>3, <4>1, <4>2
    <3>4. CASE j > u /\ i = u
      <4>1. j - 1 \in 1..n /\ ~(j - 1 < u)
        BY <1>0, <1>1, <3>4
      <4>2. m_timePoint[t] <= At(j - 1)
        BY <1>1, <1>6, <4>1
      <4> QED BY <1>0, <1>1, <1>8, <3>4, <4>2
    <3>5. CASE j > u /\ i > u
      <4>1. i - 1 \in 1..n /\ j - 1 \in 1..n /\ i - 1 < j - 1
        BY <1>0, <1>1, <2>1, <3>5
      <4> QED BY <1>0, <1>1, <1>8, <3>0, <3>5, <4>1
    <3> QED BY <1>0, <1>1, <3>1, <3>2, <3>3, <3>4, <3>5
  <2> QED BY <1>2, <2>1 DEF Sorted
<1>10. Arrived'
  <2>1. ASSUME NEW k \in 1..m + 1
        PROVE  /\ place'[arrivals'[k].task] = "listed"
               /\ arrivals'[k].time = m_timePoint'[arrivals'[k].task]
    <3>1. CASE k = m + 1
      BY <1>0, <1>3, <1>4, <1>5, <3>1
    <3>2. CASE k # m + 1
      <4>1. k \in 1..m
        BY <1>0, <3>2
      <4> QED BY <1>0, <1>4, <1>5, <4>1 DEF IInv, Arrived
    <3> QED BY <3>1, <3>2
  <2>2. ASSUME NEW s \in AllTasks, place'[s] = "listed"
        PROVE  \E k \in 1..m + 1 : arrivals'[k].task = s
    <3>1. CASE s = t
      BY <1>0, <1>3, <1>4, <3>1
    <3>2. CASE s # t
      <4>1. PICK k \in 1..m : arrivals[k].task = s
        BY <1>5, <2>2, <3>2 DEF IInv, Arrived
      <4> QED BY <1>0, <1>4, <4>1
    <3> QED BY <3>1, <3>2
  <2>3. ASSUME NEW k \in 1..m + 1, NEW l \in 1..m + 1, arrivals'[k].task = arrivals'[l].task
        PROVE  k = l
    <3>1. \A i, j \in 1..m : arrivals[i].task = arrivals[j].task => i = j
      BY DEF IInv, Arrived
    <3>2. k \in 1..m \/ k = m + 1
      BY <1>0
    <3>3. l \in 1..m \/ l = m + 1
      BY <1>0
    <3> QED BY <1>3, <1>4, <1>5, <2>3, <3>1, <3>2, <3>3
  <2> QED BY <1>4, <2>1, <2>2, <2>3 DEF Arrived
<1>11. InOrder'
  <2>1. ASSUME NEW i \in 1..n + 1, NEW j \in 1..n + 1, NEW k \in 1..m + 1, NEW l \in 1..m + 1,
               arrivals'[k].task = m_tasks'[i], arrivals'[l].task = m_tasks'[j],
               i < j, At(i)' = At(j)'
        PROVE  k < l
    <3>0. i \in Nat /\ j \in Nat /\ u \in Nat
      BY <1>0, <1>1
    <3>1. CASE i = u
      <4>1. j - 1 \in 1..n /\ ~(j - 1 < u) /\ ~(j < u) /\ j # u
        BY <1>0, <1>1, <2>1, <3>1
      <4>2. At(j - 1) > m_timePoint[t]
        BY <1>1, <1>6, <4>1
      <4>3. At(i)' = m_timePoint[t] /\ At(j)' = At(j - 1)
        BY <1>8, <3>0, <3>1, <4>1
      <4>4. At(j - 1) = m_timePoint[t]
        BY <2>1, <4>3
      <4>5. At(j - 1) \in Nat /\ m_timePoint[t] \in Nat
        BY <1>6, <4>1
      <4> HIDE DEF At
      <4> QED BY <4>2, <4>4, <4>5
    <3>2. CASE j = u
      <4>1. arrivals'[l].task = t
        BY <1>2, <2>1, <3>0, <3>2
      <4>2. l = m + 1
        <5>1. l \in 1..m \/ l = m + 1
          BY <1>0
        <5> QED BY <1>4, <1>5, <4>1, <5>1
      <4>3. k # m + 1
        <5>1. i \in 1..n /\ m_tasks'[i] = m_tasks[i]
          BY <1>0, <1>1, <1>2, <2>1, <3>2
        <5> QED BY <1>3, <1>4, <1>5, <2>1, <5>1
      <4> QED BY <1>0, <4>2, <4>3
    <3>3. CASE i # u /\ j # u
      <4> DEFINE p == IF i < u THEN i ELSE i - 1
                 q == IF j < u THEN j ELSE j - 1
      <4>1. p \in 1..n /\ q \in 1..n /\ p < q
        BY <1>0, <1>1, <2>1, <3>0, <3>3
      <4>2. m_tasks'[i] = m_tasks[p] /\ m_tasks'[j] = m_tasks[q] /\ At(i)' = At(p) /\ At(j)' = At(q)
        BY <1>2, <1>8, <3>0, <3>3
      <4> HIDE DEF p, q
      <4>3. k \in 1..m /\ l \in 1..m
        <5>1. k # m + 1 /\ l # m + 1
          BY <1>3, <1>4, <1>5, <2>1, <4>1, <4>2
        <5> QED BY <1>0, <5>1
      <4>4. arrivals[k].task = m_tasks[p] /\ arrivals[l].task = m_tasks[q] /\ At(p) = At(q)
        BY <1>4, <2>1, <4>2, <4>3
      <4> QED BY <4>1, <4>3, <4>4 DEF IInv, InOrder
    <3> QED BY <3>1, <3>2, <3>3
  <2> QED BY <1>2, <1>4, <2>1 DEF InOrder
<1> QED BY <1>2, <1>4, <1>7, <1>9, <1>10, <1>11
\* takeFirstTask() takes the first task out of the list and out of the history,
\* where it is the earliest, and the first to arrive of those of its time.
LEMMA TakeKeepsLists ==
  ASSUME IInv, m_tasks # <<>>, TakeFirstTask
  PROVE  /\ m_tasks' \in Seq(AllTasks) /\ arrivals' \in Seq(Arrival)
         /\ Head(m_tasks) = m_tasks[1] /\ m_tasks[1] \in AllTasks /\ place[m_tasks[1]] = "listed"
         /\ Listed' /\ Sorted' /\ Arrived' /\ InOrder'
         /\ \E i \in 1..Len(arrivals) :
              /\ arrivals[i].task = m_tasks[1] /\ arrivals[i].time = At(1)
              /\ arrivals' = RemoveAt(arrivals, i)
              /\ \A j \in 1..Len(arrivals) :
                   \/ arrivals[i].time < arrivals[j].time
                   \/ arrivals[i].time = arrivals[j].time /\ i <= j
<1> DEFINE n == Len(m_tasks)
           m == Len(arrivals)
           h == m_tasks[1]
<1>0. /\ m_tasks \in Seq(AllTasks) /\ n \in Nat /\ arrivals \in Seq(Arrival) /\ m \in Nat
      /\ place \in [AllTasks -> {"user", "transit", "listed", "running", "dead"}]
      /\ m_timePoint \in [AllTasks -> Times] /\ m_timePoint' = m_timePoint
      /\ Head(m_tasks) = h /\ place' = [place EXCEPT ![h] = "running"]
      /\ m_tasks' = Tail(m_tasks)
  BY DEF IInv, Typed, TypeOK, TakeFirstTask
<1>1. n >= 1 /\ 1 \in 1..n /\ h \in AllTasks /\ place[h] = "listed"
  <2>1. n >= 1 /\ 1 \in 1..n
    BY <1>0, EmptySeq
  <2> QED BY <1>0, <2>1 DEF IInv, Listed
<1>2. /\ m_tasks' \in Seq(AllTasks) /\ Len(m_tasks') = n - 1
      /\ \A i \in 1..n - 1 : m_tasks'[i] = m_tasks[i + 1]
  BY <1>0, HeadTailProperties
<1>3. /\ place'[h] = "running" /\ \A s \in AllTasks : s # h => place'[s] = place[s]
  BY <1>0, <1>1
<1>4. PICK x \in 1..m : arrivals[x].task = h /\ arrivals' = RemoveAt(arrivals, x)
  <2>1. PICK x \in DOMAIN arrivals : arrivals[x].task = Head(m_tasks) /\ arrivals' = RemoveAt(arrivals, x)
    BY DEF TakeFirstTask
  <2>2. DOMAIN arrivals = 1..m
    BY <1>0
  <2> QED BY <1>0, <2>1, <2>2
<1> DEFINE r(k) == IF k < x THEN k ELSE k + 1
<1>5. /\ arrivals' \in Seq(Arrival) /\ Len(arrivals') = m - 1
      /\ \A k \in 1..m - 1 : arrivals'[k] = arrivals[r(k)]
  BY <1>0, <1>4, RemoveAtProperties
<1>6. /\ \A k \in 1..m - 1 : r(k) \in 1..m /\ r(k) # x
      /\ \A k, l \in 1..m - 1 : (r(k) = r(l) => k = l) /\ (r(k) < r(l) => k < l)
      /\ \A k \in 1..m : k # x => \E l \in 1..m - 1 : r(l) = k
  <2>1. x \in Nat /\ x >= 1 /\ x <= m
    BY <1>0, <1>4
  <2>2. ASSUME NEW k \in 1..m, k # x PROVE \E l \in 1..m - 1 : r(l) = k
    <3>1. CASE k < x
      <4>1. k \in 1..m - 1 /\ r(k) = k
        BY <1>0, <2>1, <3>1
      <4> QED BY <4>1
    <3>2. CASE ~(k < x)
      <4>1. k - 1 \in 1..m - 1 /\ r(k - 1) = k
        BY <1>0, <2>1, <2>2, <3>2
      <4> QED BY <4>1
    <3> QED BY <3>1, <3>2
  <2> QED BY <1>0, <2>1, <2>2
<1> HIDE DEF r
<1>7. /\ \A k, l \in 1..m : arrivals[k].task = arrivals[l].task => k = l
      /\ \A k \in 1..m : /\ arrivals[k].task \in AllTasks
                         /\ place[arrivals[k].task] = "listed"
                         /\ arrivals[k].time = m_timePoint[arrivals[k].task]
      /\ \A i, j \in 1..n : m_tasks[i] = m_tasks[j] => i = j
      /\ \A i \in 1..n : m_tasks[i] \in AllTasks /\ place[m_tasks[i]] = "listed"
  <2>1. \A k \in 1..m : arrivals[k] \in Arrival
    BY <1>0
  <2> QED BY <1>0, <2>1 DEF IInv, Arrived, Listed, Arrival
<1>8. \A i \in 1..n - 1 : At(i)' = At(i + 1)
  BY <1>0, <1>2 DEF At
<1>9. Listed'
  <2>1. ASSUME NEW i \in 1..n - 1 PROVE m_tasks'[i] # h /\ place'[m_tasks'[i]] = "listed"
    <3>1. i + 1 \in 1..n /\ i + 1 # 1
      BY <1>0
    <3>2. m_tasks[i + 1] # m_tasks[1]
      BY <1>1, <1>7, <3>1
    <3>3. m_tasks[i + 1] \in AllTasks /\ place[m_tasks[i + 1]] = "listed"
      BY <1>7, <3>1
    <3> QED BY <1>2, <1>3, <3>2, <3>3
  <2>2. ASSUME NEW s \in AllTasks, place'[s] = "listed"
        PROVE  \E i \in 1..n - 1 : m_tasks'[i] = s
    <3>1. s # h /\ place[s] = "listed"
      BY <1>3, <2>2
    <3>2. PICK j \in 1..n : m_tasks[j] = s
      BY <3>1 DEF IInv, Listed
    <3>3. j - 1 \in 1..n - 1 /\ (j - 1) + 1 = j
      <4>1. j # 1
        BY <3>1, <3>2
      <4> QED BY <1>0, <4>1
    <3> QED BY <1>2, <3>2, <3>3
  <2>3. ASSUME NEW i \in 1..n - 1, NEW j \in 1..n - 1, m_tasks'[i] = m_tasks'[j]
        PROVE  i = j
    <3>1. i + 1 \in 1..n /\ j + 1 \in 1..n
      BY <1>0
    <3>2. m_tasks[i + 1] = m_tasks[j + 1]
      BY <1>2, <2>3
    <3>3. i + 1 = j + 1
      BY <1>7, <3>1, <3>2
    <3> QED BY <1>0, <3>3
  <2> QED BY <1>2, <2>1, <2>2, <2>3 DEF Listed
<1>10. Sorted'
  <2>1. ASSUME NEW i \in 1..n - 1, NEW j \in 1..n - 1, i < j PROVE At(i)' <= At(j)'
    <3>1. i + 1 \in 1..n /\ j + 1 \in 1..n /\ i + 1 < j + 1
      BY <1>0, <2>1
    <3>2. At(i + 1) <= At(j + 1)
      BY <3>1 DEF IInv, Sorted
    <3> QED BY <1>8, <3>2
  <2> QED BY <1>2, <2>1 DEF Sorted
<1>11. Arrived'
  <2>1. ASSUME NEW k \in 1..m - 1
        PROVE  /\ place'[arrivals'[k].task] = "listed"
               /\ arrivals'[k].time = m_timePoint'[arrivals'[k].task]
    <3>1. arrivals'[k] = arrivals[r(k)] /\ r(k) \in 1..m /\ arrivals[r(k)].task # h
      BY <1>4, <1>5, <1>6, <1>7
    <3> QED BY <1>0, <1>3, <1>7, <3>1
  <2>2. ASSUME NEW s \in AllTasks, place'[s] = "listed"
        PROVE  \E k \in 1..m - 1 : arrivals'[k].task = s
    <3>1. s # h /\ place[s] = "listed"
      BY <1>3, <2>2
    <3>2. PICK k \in 1..m : arrivals[k].task = s
      BY <3>1 DEF IInv, Arrived
    <3>3. k # x
      BY <1>4, <3>1, <3>2
    <3>4. PICK l \in 1..m - 1 : r(l) = k
      BY <1>6, <3>3
    <3> QED BY <1>5, <3>2, <3>4
  <2>3. ASSUME NEW k \in 1..m - 1, NEW l \in 1..m - 1, arrivals'[k].task = arrivals'[l].task
        PROVE  k = l
    <3>1. r(k) \in 1..m /\ r(l) \in 1..m /\ arrivals[r(k)].task = arrivals[r(l)].task
      BY <1>5, <1>6, <2>3
    <3>2. r(k) = r(l)
      BY <1>7, <3>1
    <3> QED BY <1>6, <3>2
  <2> QED BY <1>5, <2>1, <2>2, <2>3 DEF Arrived
<1>12. InOrder'
  <2>1. ASSUME NEW i \in 1..n - 1, NEW j \in 1..n - 1, NEW k \in 1..m - 1, NEW l \in 1..m - 1,
               arrivals'[k].task = m_tasks'[i], arrivals'[l].task = m_tasks'[j],
               i < j, At(i)' = At(j)'
        PROVE  k < l
    <3>1. i + 1 \in 1..n /\ j + 1 \in 1..n /\ i + 1 < j + 1
      BY <1>0, <2>1
    <3>2. r(k) \in 1..m /\ r(l) \in 1..m
      BY <1>6
    <3>3. /\ arrivals[r(k)].task = m_tasks[i + 1] /\ arrivals[r(l)].task = m_tasks[j + 1]
          /\ At(i + 1) = At(j + 1)
      BY <1>2, <1>5, <1>8, <2>1
    <3>4. r(k) < r(l)
      BY <3>1, <3>2, <3>3 DEF IInv, InOrder
    <3> QED BY <1>6, <3>4
  <2> QED BY <1>2, <1>5, <2>1 DEF InOrder
<1>13. arrivals[x].time = At(1)
  BY <1>4, <1>7 DEF At
<1>14. ASSUME NEW j \in 1..m
       PROVE  \/ arrivals[x].time < arrivals[j].time
              \/ arrivals[x].time = arrivals[j].time /\ x <= j
  <2>0. At(1) \in Nat /\ x \in Nat /\ j \in Nat
    BY <1>0, <1>1, TimeAssumption DEF At, Times, Epoch
  <2>1. PICK i \in 1..n : m_tasks[i] = arrivals[j].task
    BY <1>7 DEF IInv, Listed
  <2>2. arrivals[j].time = At(i) /\ At(i) \in Nat
    BY <1>0, <1>7, <2>1, TimeAssumption DEF At, Times, Epoch
  <2>3. CASE i = 1
    <3>1. x = j
      BY <1>4, <1>7, <2>1, <2>3
    <3> QED BY <2>0, <3>1
  <2>4. CASE i # 1
    <3>1. 1 < i
      BY <1>0, <2>4
    <3>2. At(1) <= At(i)
      BY <1>1, <3>1 DEF IInv, Sorted
    <3>3. At(1) = At(i) => x < j
      BY <1>1, <1>4, <2>1, <3>1 DEF IInv, InOrder
    <3> HIDE DEF At
    <3> QED BY <1>13, <2>0, <2>2, <3>2, <3>3
  <2> QED BY <2>3, <2>4
<1> QED BY <1>0, <1>1, <1>2, <1>4, <1>5, <1>9, <1>10, <1>11, <1>12, <1>13, <1>14
-----------------------------------------------------------------------------
(* The invariant *)

\* The new thread satisfies the invariant.
LEMMA InitIInv == Init => IInv
<1> SUFFICES ASSUME Init PROVE IInv
  OBVIOUS
<1>0. m_tasks = <<>> /\ arrivals = <<>> /\ Len(m_tasks) = 0 /\ Len(arrivals) = 0
  BY DEF Init
<1>1. Typed
  BY TimeAssumption DEF Init, Typed, TypeOK, Times, Epoch, Never
<1>2. Runs
  BY TasksAssumption DEF Init, Runs, AllTasks
<1>3. Listed /\ Arrived /\ Sorted /\ InOrder
  BY <1>0 DEF Init, Listed, Arrived, Sorted, InOrder
<1>4. SleepsToFirst
  BY DEF Init, SleepsToFirst
<1> QED BY <1>1, <1>2, <1>3, <1>4 DEF IInv

\* The parts of the invariant that speak of the lists only.
ListsInv == Listed /\ Sorted /\ Arrived /\ InOrder

\* A step that changes no list, no time and no membership keeps them.
LEMMA ListsFrame ==
  ASSUME IInv, UNCHANGED <<m_tasks, m_timePoint, arrivals>>,
         \A t \in AllTasks : place'[t] = "listed" <=> place[t] = "listed"
  PROVE  ListsInv' /\ (\A i \in 1..Len(m_tasks) : At(i)' = At(i))
<1>1. /\ \A i \in 1..Len(m_tasks) : m_tasks[i] \in AllTasks
      /\ \A k \in 1..Len(arrivals) : arrivals[k].task \in AllTasks
  <2>1. \A k \in 1..Len(arrivals) : arrivals[k] \in Arrival
    BY DEF IInv, Typed
  <2> QED BY <2>1 DEF IInv, Typed, TypeOK, Arrival
<1>2. \A i : At(i)' = At(i)
  BY DEF At
<1>3. Listed' /\ Arrived'
  BY <1>1 DEF IInv, Listed, Arrived
<1>4. Sorted' /\ InOrder'
  BY <1>2 DEF IInv, Sorted, InOrder
<1> QED BY <1>2, <1>3, <1>4 DEF ListsInv

\* Every step keeps the invariant.
LEMMA StepIInv == IInv /\ [Next]_vars => IInv'
<1> SUFFICES ASSUME IInv, [Next]_vars PROVE IInv'
  OBVIOUS
<1> USE DEF data, thread, control
<1>0. /\ Typed /\ TypeOK /\ Runs /\ Listed /\ SleepsToFirst /\ Len(m_tasks) \in Nat
      /\ StopTask \in AllTasks /\ StopTask \notin Tasks /\ Tasks \subseteq AllTasks
      /\ None \notin AllTasks /\ Reusable \subseteq Tasks
  BY TasksAssumption DEF IInv, Typed, TypeOK, AllTasks
<1>1. ASSUME Tick PROVE IInv'
  <2>1. now \in Nat /\ now' \in Times /\ now' > now
    BY <1>0, <1>1, TimeAssumption DEF Tick, TypeOK, Times, Epoch
  <2>2. ListsInv' /\ \A i \in 1..Len(m_tasks) : At(i)' = At(i)
    BY <1>1, ListsFrame DEF Tick
  <2>3. Typed'
    BY <1>0, <1>1, <2>1 DEF Tick, Typed, TypeOK
  <2>4. Runs'
    BY <1>0, <1>1 DEF Tick, Runs
  <2>5. SleepsToFirst'
    <3>1. m_tasks # <<>> => 1 \in 1..Len(m_tasks) /\ At(1) \in Nat
      BY <1>0, TimeAssumption, EmptySeq DEF TypeOK, At, Times, Epoch
    <3> QED BY <1>0, <1>1, <2>1, <2>2, <3>1 DEF Tick, SleepsToFirst
  <2> QED BY <2>2, <2>3, <2>4, <2>5 DEF IInv, ListsInv
<1>2. ASSUME NEW t \in AllTasks, NEW d \in Times, place[t] \in {"user", "running"},
             AddTask(t, d), UNCHANGED <<now, thread>>,
             t = StopTask => ~m_stopTask' /\ place[t] # "running",
             m_stopTask' = m_stopTask \/ ~m_stopTask', m_stopTask' \in BOOLEAN,
             stopping' \in [Stoppers -> {"idle", "move", "insert"}],
             life' \in {"open", "destroying", "gone"}
      PROVE  IInv'
  <2>1. Listed' /\ Sorted' /\ Arrived' /\ InOrder' /\ \A i \in 1..Len(m_tasks) : At(i)' = At(i)
    BY <1>2, AddKeepsLists
  <2>2. Typed'
    BY <1>0, <1>2 DEF AddTask, Typed, TypeOK
  <2>3. Runs'
    <3>1. place' = [place EXCEPT ![t] = "transit"] /\ runTask' = runTask /\ pc' = pc
      BY <1>2 DEF AddTask
    <3>2. CASE t = StopTask
      BY <1>0, <1>2, <3>1, <3>2 DEF Runs, TypeOK
    <3>3. CASE t # StopTask
      BY <1>0, <1>2, <3>1, <3>3 DEF Runs, TypeOK
    <3> QED BY <3>2, <3>3
  <2>4. SleepsToFirst'
    <3>1. m_tasks' = m_tasks /\ UNCHANGED <<pc, until, now>>
      BY <1>2 DEF AddTask
    <3>2. m_tasks # <<>> => 1 \in 1..Len(m_tasks)
      BY <1>0, EmptySeq DEF TypeOK
    <3> QED BY <1>0, <2>1, <3>1, <3>2 DEF SleepsToFirst
  <2> QED BY <2>1, <2>2, <2>3, <2>4 DEF IInv
<1>3. ASSUME NEW t \in Tasks, UserAdd(t) PROVE IInv'
  <2>1. PICK d \in Times : AddTask(t, d)
    BY <1>3 DEF UserAdd
  <2> QED BY <1>0, <1>2, <1>3, <2>1 DEF UserAdd, TypeOK
<1>4. ASSUME CallbackAdd PROVE IInv'
  <2>1. PICK d \in now .. MaxTime : AddTask(runTask, d)
    BY <1>4 DEF CallbackAdd
  <2>2. d \in Times
    BY <1>0, TimeAssumption DEF TypeOK, Times, Epoch
  <2>3. runTask \in AllTasks /\ runTask # StopTask /\ place[runTask] = "running"
    BY <1>0, <1>4 DEF CallbackAdd
  <2> QED BY <1>0, <1>2, <1>4, <2>1, <2>2, <2>3 DEF CallbackAdd, TypeOK
<1>5. ASSUME NEW s \in Stoppers, StopMove(s) PROVE IInv'
  <2>1. AddTask(StopTask, Epoch) /\ Epoch \in Times /\ place[StopTask] = "user"
    BY <1>0, <1>5, TimeAssumption DEF StopMove, Times, Epoch, Runs
  <2>2. stopping' \in [Stoppers -> {"idle", "move", "insert"}]
    BY <1>0, <1>5 DEF StopMove, TypeOK
  <2> QED BY <1>0, <1>2, <1>5, <2>1, <2>2 DEF StopMove, TypeOK
<1>6. ASSUME NEW t \in AllTasks, Insert(t) PROVE IInv'
  <2>1. /\ m_tasks' \in Seq(AllTasks) /\ arrivals' \in Seq(Arrival)
        /\ Listed' /\ Sorted' /\ Arrived' /\ InOrder'
    BY <1>6, InsertKeepsLists
  <2>2. Typed'
    <3>1. stopping' \in [Stoppers -> {"idle", "move", "insert"}]
      BY <1>0, <1>6 DEF Insert, TypeOK
    <3>2. pc' \in {"look", "expired", "run", "ended"} /\ until' = until /\ runTask' = runTask
      BY <1>0, <1>6 DEF Insert, NotifyOne, TypeOK
    <3>3. place' \in [AllTasks -> {"user", "transit", "listed", "running", "dead"}]
      BY <1>0, <1>6 DEF Insert, TypeOK
    <3> QED BY <1>0, <1>6, <2>1, <3>1, <3>2, <3>3 DEF Insert, Typed, TypeOK
  <2>3. Runs'
    <3>1. place[t] = "transit" /\ place' = [place EXCEPT ![t] = "listed"] /\ UNCHANGED m_stopTask
      BY <1>6 DEF Insert
    <3>2. runTask' = runTask /\ (pc' = "run" <=> pc = "run")
      BY <1>6 DEF Insert, NotifyOne
    <3> QED BY <1>0, <3>1, <3>2 DEF Runs, TypeOK
  <2>4. SleepsToFirst'
    \* Nobody sleeps after notify_one(), and what is due stays in front.
    <3>1. pc' # "sleep" /\ (pc' = "expired" => pc = "expired")
      BY <1>6 DEF Insert, NotifyOne
    <3>2. ASSUME pc = "expired" PROVE m_tasks' # <<>> /\ At(1)' <= now'
      <4>1. m_tasks # <<>> /\ At(1) <= now /\ now' = now /\ now \in Nat
        BY <1>0, <1>6, <3>2, TimeAssumption DEF SleepsToFirst, Insert, TypeOK, Times, Epoch
      <4>2. 1 \in 1..Len(m_tasks) /\ Len(m_tasks') = Len(m_tasks) + 1 /\ 1 \in 1..Len(m_tasks')
        <5>1. Len(m_tasks') = Len(m_tasks) + 1
          BY <1>6, InsertKeepsLists
        <5>2. 1 \in 1..Len(m_tasks)
          BY <1>0, <4>1, EmptySeq DEF TypeOK
        <5> QED BY <1>0, <5>1, <5>2
      <4>3. PICK i \in 1..Len(m_tasks') : m_tasks'[i] = m_tasks[1]
        <5>1. m_tasks[1] \in AllTasks /\ place[m_tasks[1]] = "listed"
          BY <1>0, <4>2 DEF Listed, TypeOK
        <5>2. place'[m_tasks[1]] = "listed"
          BY <1>0, <1>6, <5>1 DEF Insert, TypeOK
        <5> QED BY <2>1, <5>1, <5>2 DEF Listed
      <4>4. At(i)' = At(1)
        BY <1>6, <4>3 DEF At, Insert
      <4>5. At(1)' <= At(i)' /\ At(1)' \in Nat /\ At(i)' \in Nat
        <5>1. \A j \in 1..Len(m_tasks') : At(j)' \in Nat
          BY <2>1, <2>2, TimeAssumption DEF Typed, TypeOK, At, Times, Epoch
        <5>2. i = 1 \/ 1 < i
          BY <4>2
        <5>3. 1 < i => At(1)' <= At(i)'
          BY <2>1, <4>2 DEF Sorted
        <5> QED BY <4>2, <5>1, <5>2, <5>3
      <4>6. m_tasks' # <<>>
        BY <4>2
      <4> QED BY <4>1, <4>4, <4>5, <4>6
    <3> QED BY <3>1, <3>2 DEF SleepsToFirst
  <2> QED BY <2>1, <2>2, <2>3, <2>4 DEF IInv
<1>7. ASSUME m_tasks # <<>>, pc \in {"look", "expired"}, TakeFirstTask,
             UNCHANGED <<now, until, control>>
      PROVE  IInv'
  <2>1. /\ m_tasks' \in Seq(AllTasks) /\ arrivals' \in Seq(Arrival)
        /\ Head(m_tasks) \in AllTasks /\ place[Head(m_tasks)] = "listed"
        /\ Listed' /\ Sorted' /\ Arrived' /\ InOrder'
    BY <1>7, TakeKeepsLists
  <2>2. /\ place' = [place EXCEPT ![Head(m_tasks)] = "running"]
        /\ runTask' = Head(m_tasks) /\ pc' = "run" /\ m_timePoint' = m_timePoint
        /\ m_selfPtr' = m_selfPtr \ {Head(m_tasks)}
    BY <1>7 DEF TakeFirstTask
  <2>3. Typed'
    BY <1>0, <1>7, <2>1, <2>2 DEF Typed, TypeOK
  <2>4. Runs'
    BY <1>0, <1>7, <2>1, <2>2 DEF Runs, TypeOK
  <2>5. SleepsToFirst'
    BY <2>2 DEF SleepsToFirst
  <2> QED BY <2>1, <2>3, <2>4, <2>5 DEF IInv
<1>8. ASSUME UNCHANGED <<now, m_tasks, m_timePoint, m_selfPtr, place, arrivals, m_stopTask, runTask>>,
             pc' \in {"look", "sleep", "expired"}, pc # "run", runTask = None,
             until' \in Times \cup {Never},
             pc' = "sleep" => until' = IF m_tasks = <<>> THEN Never ELSE At(1),
             pc' = "expired" => m_tasks # <<>> /\ At(1) <= now,
             UNCHANGED control
      PROVE  IInv'
  <2>1. ListsInv' /\ \A i \in 1..Len(m_tasks) : At(i)' = At(i)
    BY <1>8, ListsFrame
  <2>2. Typed' /\ Runs'
    BY <1>0, <1>8 DEF Typed, TypeOK, Runs
  <2>3. SleepsToFirst'
    <3>1. m_tasks # <<>> => 1 \in 1..Len(m_tasks)
      BY <1>0, EmptySeq DEF TypeOK
    <3> QED BY <1>8, <2>1, <3>1 DEF SleepsToFirst
  <2> QED BY <2>1, <2>2, <2>3 DEF IInv, ListsInv
<1>9. m_tasks # <<>> => Head(m_tasks) = m_tasks[1] /\ At(1) \in Times
  <2>1. m_tasks # <<>> => 1 \in 1..Len(m_tasks)
    BY <1>0, EmptySeq DEF TypeOK
  <2> QED BY <1>0, <2>1 DEF TypeOK, At
<1>10. ASSUME WaitForAny \/ WaitForFirst \/ SpuriousWakeup \/ TimeOut PROVE IInv'
  <2>1. runTask = None
    BY <1>0, <1>10 DEF WaitForAny, WaitForFirst, SpuriousWakeup, TimeOut, Runs
  <2>2. CASE WaitForAny
    BY <1>0, <1>8, <2>1, <2>2 DEF WaitForAny
  <2>3. CASE WaitForFirst
    BY <1>0, <1>8, <1>9, <2>1, <2>3 DEF WaitForFirst, At
  <2>4. CASE SpuriousWakeup
    BY <1>0, <1>8, <2>1, <2>4 DEF SpuriousWakeup, TypeOK
  <2>5. CASE TimeOut
    <3>1. m_tasks # <<>> /\ At(1) <= now
      <4>1. now \in Times /\ until <= now
        BY <1>0, <2>5 DEF TimeOut, TypeOK
      <4>2. until # Never
        BY <4>1, TimeAssumption DEF Times, Never, Epoch
      <4> QED BY <1>0, <2>5, <4>1, <4>2 DEF TimeOut, SleepsToFirst
    <3> QED BY <1>0, <1>8, <2>1, <2>5, <3>1 DEF TimeOut, TypeOK
  <2> QED BY <1>10, <2>2, <2>3, <2>4, <2>5
<1>11. ASSUME Return \/ ReturnFromRun PROVE IInv'
  <2>1. /\ pc = "run" /\ runTask \in AllTasks /\ runTask' = None /\ pc' \in {"look", "ended"}
        /\ UNCHANGED <<now, m_tasks, m_timePoint, m_selfPtr, arrivals, until, control>>
    BY <1>0, <1>11 DEF Return, ReturnFromRun, Runs, TypeOK
  <2>2. /\ \A t \in AllTasks : t # runTask => place'[t] = place[t]
        /\ place'[runTask] = "listed" <=> place[runTask] = "listed"
        /\ place' \in [AllTasks -> {"user", "transit", "listed", "running", "dead"}]
        /\ m_stopTask => runTask # StopTask
    <3>1. m_stopTask => runTask # StopTask
      BY <1>0 DEF Runs
    <3>2. runTask = StopTask => place[runTask] = "running"
      BY <1>0 DEF Runs
    <3>3. CASE Return
      BY <1>0, <2>1, <3>1, <3>3 DEF Return, TypeOK
    <3>4. CASE ReturnFromRun
      BY <1>0, <2>1, <3>1, <3>2, <3>4 DEF ReturnFromRun, TypeOK
    <3> QED BY <1>11, <3>3, <3>4
  <2>3. ListsInv'
    BY <2>1, <2>2, ListsFrame
  <2>4. Typed'
    BY <1>0, <2>1, <2>2 DEF Typed, TypeOK
  <2>5. Runs'
    BY <1>0, <2>1, <2>2 DEF Runs
  <2>6. SleepsToFirst'
    BY <2>1 DEF SleepsToFirst
  <2> QED BY <2>3, <2>4, <2>5, <2>6 DEF IInv, ListsInv
<1>12. ASSUME UNCHANGED <<now, data, thread, m_stopTask>>,
              stopping' \in [Stoppers -> {"idle", "move", "insert"}],
              life' \in {"open", "destroying", "gone"}
       PROVE  IInv'
  <2>1. ListsInv' /\ \A i \in 1..Len(m_tasks) : At(i)' = At(i)
    BY <1>12, ListsFrame
  <2>2. Typed' /\ Runs'
    BY <1>0, <1>12 DEF Typed, TypeOK, Runs
  <2>3. SleepsToFirst'
    <3>1. m_tasks # <<>> => 1 \in 1..Len(m_tasks)
      BY <1>0, EmptySeq DEF TypeOK
    <3> QED BY <1>0, <1>12, <2>1, <3>1 DEF SleepsToFirst
  <2> QED BY <2>1, <2>2, <2>3 DEF IInv, ListsInv
<1>13. ASSUME NEW s \in Stoppers, StopTest(s)
       PROVE  stopping' \in [Stoppers -> {"idle", "move", "insert"}]
  BY <1>0, <1>13 DEF StopTest, TypeOK
<1>14. ASSUME NEW s \in Stoppers, Stop(s) PROVE IInv'
  BY <1>0, <1>12, <1>13, <1>14 DEF Stop, TypeOK
<1>15. ASSUME Destroy PROVE IInv'
  BY <1>0, <1>12, <1>13, <1>15 DEF Destroy, Stoppers
<1>16. ASSUME Join PROVE IInv'
  <2>1. m_tasks' = <<>> /\ arrivals' = <<>> /\ Len(m_tasks') = 0 /\ Len(arrivals') = 0
    BY <1>16 DEF Join
  <2>2. \A t \in AllTasks : place'[t] # "listed" /\ place'[t] \in {place[t], "dead"}
    <3>1. ASSUME NEW t \in AllTasks, place[t] = "listed" PROVE t \in Range(m_tasks)
      <4>1. PICK i \in 1..Len(m_tasks) : m_tasks[i] = t
        BY <1>0, <3>1 DEF Listed
      <4> QED BY <1>0, <4>1 DEF Range, TypeOK
    <3>2. place' = [t \in AllTasks |-> IF t \in Range(m_tasks) THEN "dead" ELSE place[t]]
      BY <1>16 DEF Join
    <3> QED BY <3>1, <3>2
  <2>3. place' \in [AllTasks -> {"user", "transit", "listed", "running", "dead"}]
    <3>1. place' = [t \in AllTasks |-> IF t \in Range(m_tasks) THEN "dead" ELSE place[t]]
      BY <1>16 DEF Join
    <3> QED BY <1>0, <3>1 DEF TypeOK
  <2>4. Typed'
    <3>1. m_tasks' \in Seq(AllTasks) /\ arrivals' \in Seq(Arrival)
      BY <2>1
    <3> QED BY <1>0, <1>16, <2>3, <3>1 DEF Join, Typed, TypeOK
  <2>5. Runs'
    <3>1. runTask = None /\ UNCHANGED <<runTask, pc, m_stopTask>> /\ pc = "ended"
      BY <1>0, <1>16 DEF Join, Runs
    <3>2. m_stopTask => StopTask \notin Range(m_tasks)
      <4>1. \A t \in Range(m_tasks) : place[t] = "listed"
        BY <1>0 DEF Listed, Range, TypeOK
      <4> QED BY <1>0, <4>1 DEF Runs
    <3> QED BY <1>0, <1>16, <3>1, <3>2 DEF Join, Runs
  <2>6. Listed' /\ Arrived' /\ Sorted' /\ InOrder'
    BY <2>1, <2>2 DEF Listed, Arrived, Sorted, InOrder
  <2>7. SleepsToFirst'
    BY <1>16 DEF Join, SleepsToFirst
  <2> QED BY <2>4, <2>5, <2>6, <2>7 DEF IInv
<1>17. ASSUME UNCHANGED vars PROVE IInv'
  BY <1>0, <1>12, <1>17 DEF vars, TypeOK
<1>18. ASSUME TakeDue \/ TakeExpired PROVE IInv'
  BY <1>0, <1>7, <1>18 DEF TakeDue, TakeExpired, SleepsToFirst
<1> QED
  BY <1>1, <1>3, <1>4, <1>5, <1>6, <1>10, <1>11, <1>14, <1>15, <1>16, <1>17, <1>18
  DEF Next, Run

\* The first task is the earliest, so sleeping to its time is sleeping to none
\* that is later.
LEMMA NeverOversleepsFromIInv == IInv => NeverOversleeps
<1> SUFFICES ASSUME IInv PROVE NeverOversleeps
  OBVIOUS
<1>0. m_tasks \in Seq(AllTasks) /\ (m_tasks # <<>> => 1 \in 1..Len(m_tasks) /\ Head(m_tasks) = m_tasks[1])
  <2>1. m_tasks \in Seq(AllTasks)
    BY DEF IInv, Typed, TypeOK
  <2> QED BY <2>1, EmptySeq
<1>1. ASSUME pc = "sleep", NEW i \in 1..Len(m_tasks) PROVE until <= At(i)
  <2>1. m_tasks # <<>> /\ until = At(1)
    BY <1>0, <1>1 DEF IInv, SleepsToFirst
  <2>2. At(1) \in Nat
    BY <1>0, <2>1, TimeAssumption DEF IInv, Typed, TypeOK, At, Times, Epoch
  <2>3. 1 < i => At(1) <= At(i)
    BY <1>0, <2>1 DEF IInv, Sorted
  <2>4. i = 1 \/ 1 < i
    BY <1>0
  <2> QED BY <2>1, <2>2, <2>3, <2>4
<1> QED BY <1>0, <1>1 DEF NeverOversleeps, IInv, SleepsToFirst, At

\* The thread never sleeps past the time of a task, one added during the sleep
\* included, and when a sleep has run out the first task is due, which run()
\* takes without another look at its time.
THEOREM NeverOversleepsHolds == SafetySpec => []NeverOversleeps
<1>1. SafetySpec => []IInv
  BY InitIInv, StepIInv, PTL DEF SafetySpec
<1> QED BY <1>1, NeverOversleepsFromIInv, PTL
-----------------------------------------------------------------------------
(* TimeoutsThread implements DueQueue *)

\* The new thread is an empty queue.
LEMMA QueueInit == Init => Queue!Init
  BY TimeAssumption DEF Init, Queue!Init, Times, Epoch

\* A step of the code is a step of the queue or leaves the queue as it is.
LEMMA QueueStep == IInv /\ [Next]_vars => [Queue!Next]_(Queue!vars)
<1> SUFFICES ASSUME IInv, [Next]_vars PROVE [Queue!Next]_(Queue!vars)
  OBVIOUS
<1> USE DEF data, thread, control
<1>0. /\ Typed /\ TypeOK /\ Runs /\ SleepsToFirst /\ None \notin AllTasks
  BY TasksAssumption DEF IInv, Typed, AllTasks
<1>1. ASSUME Tick PROVE Queue!Pass
  <2>1. now \in Nat
    BY <1>0, TimeAssumption DEF TypeOK, Times, Epoch
  <2> QED BY <1>1, <2>1 DEF Tick, Queue!Pass
<1>2. ASSUME NEW t \in AllTasks, Insert(t) PROVE Queue!Arrive
  <2>1. m_timePoint[t] \in Times
    BY <1>0 DEF TypeOK
  <2> QED BY <1>2, <2>1 DEF Insert, NotifyOne, Queue!Arrive
<1>3. ASSUME TakeDue \/ TakeExpired PROVE Queue!Start
  <2>1. m_tasks # <<>> /\ TakeFirstTask /\ runTask = None /\ now' = now
    BY <1>0, <1>3 DEF TakeDue, TakeExpired, SleepsToFirst, Runs
  <2>2. At(1) <= now
    <3>1. Head(m_tasks) = m_tasks[1]
      BY <2>1, TakeKeepsLists
    <3> QED BY <1>0, <1>3, <3>1 DEF TakeDue, TakeExpired, SleepsToFirst, At
  <2>3. PICK i \in 1..Len(arrivals) :
          /\ arrivals[i].task = m_tasks[1] /\ arrivals[i].time = At(1)
          /\ arrivals' = RemoveAt(arrivals, i)
          /\ \A j \in 1..Len(arrivals) :
               \/ arrivals[i].time < arrivals[j].time
               \/ arrivals[i].time = arrivals[j].time /\ i <= j
    BY <2>1, TakeKeepsLists
  <2>4. DOMAIN arrivals = 1..Len(arrivals)
    BY <1>0 DEF Typed
  <2>5. Queue!IsNext(i)
    BY <2>3, <2>4 DEF Queue!IsNext
  <2>6. runTask' = arrivals[i].task
    BY <2>1, <2>3, TakeKeepsLists DEF TakeFirstTask
  <2>7. arrivals' = Queue!RemoveAt(arrivals, i)
    BY <2>3 DEF RemoveAt, Queue!RemoveAt
  <2> QED BY <2>1, <2>2, <2>3, <2>4, <2>5, <2>6, <2>7 DEF Queue!Start
<1>4. ASSUME Return \/ ReturnFromRun PROVE Queue!Finish
  BY <1>0, <1>4 DEF Return, ReturnFromRun, Runs, Queue!Finish
<1>5. ASSUME Join PROVE Queue!Drop
  BY <1>0, <1>5 DEF Join, Runs, Queue!Drop
<1>6. ASSUME \/ \E t \in Tasks : UserAdd(t)
             \/ CallbackAdd
             \/ \E s \in Stoppers : Stop(s) \/ StopMove(s)
             \/ Destroy
             \/ WaitForAny \/ WaitForFirst \/ SpuriousWakeup \/ TimeOut
             \/ UNCHANGED vars
      PROVE  UNCHANGED Queue!vars
  BY <1>6 DEF UserAdd, CallbackAdd, AddTask, Stop, StopMove, Destroy, WaitForAny, WaitForFirst,
     SpuriousWakeup, TimeOut, vars, Queue!vars
<1> QED BY <1>1, <1>2, <1>3, <1>4, <1>5, <1>6 DEF Next, Run, Queue!Next

\* TimeoutsThread implements DueQueue: tasks start at their time at the
\* earliest, the earliest first, and in order of arrival among those of the same
\* time, whatever is added while the thread sleeps or executes a task.
THEOREM QueueSpecHolds == SafetySpec => QueueSpec
<1>1. SafetySpec => []IInv
  BY InitIInv, StepIInv, PTL DEF SafetySpec
<1> QED BY <1>1, QueueInit, QueueStep, PTL DEF SafetySpec, QueueSpec, Queue!Spec
=============================================================================
