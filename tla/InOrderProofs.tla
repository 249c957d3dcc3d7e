---------------------------- MODULE InOrderProofs ----------------------------
(* What comes out in the order in which it went in.                          *)
(*                                                                           *)
(* Strands: no two jobs of a strand run in parallel, for every pool size,    *)
(* every set of jobs and every number of callers (the class comment of       *)
(* Strand).  The argument is the uniqueness of the slice: a worker executes  *)
(* a job of the strand only while it holds the slice, and there is one.  On  *)
(* it rest three more: run() finds a job whenever it looks for one, after a  *)
(* join nothing of the strand runs, and a strand is a queue with one worker. *)
(*                                                                           *)
(* Messages and packed structures: what is put together is taken apart       *)
(* again, for every size, item and list of fields.  The bytes of a message   *)
(* are those of its items one after the other, and a reader in step stands   *)
(* between two of them; the fields of a packed structure lie one behind the  *)
(* other, and the sums that say where are computed recursively.  Recursion   *)
(* is reasoned about by the least counterexample of a set of numbers, which  *)
(* needs no induction over a formula.                                        *)
EXTENDS Strand, DataTypes, SequenceTheorems, WellFoundedInduction, TLAPS

-----------------------------------------------------------------------------
(* Strands *)

\* What keeps itself invariant: at most one slice.
AtMostOneSlice ==
    /\ m_sliceTask => ~InPool /\ \A t \in Threads : ~InRun(t)
    /\ InPool => \A t \in Threads : ~InRun(t)
    /\ \A i, k \in DOMAIN poolQueue : poolQueue[i] = Slice /\ poolQueue[k] = Slice => i = k
    /\ \A t, u \in Threads : InRun(t) /\ InRun(u) => t = u

\* Of the type invariant, what the argument needs.
PoolTyped == /\ poolQueue \in Seq(Others \cup {Slice})
             /\ at \in [Threads -> {"none", "start", "job", "after", "return"}]
             /\ \A t \in Threads : at[t] # "none" <=> poolRunning[t] = Slice
             /\ poolRunning \in [Threads -> Others \cup {Slice, None}]
             /\ m_sliceTask \in BOOLEAN

IInv == PoolTyped /\ AtMostOneSlice

\* Appending a job to a queue keeps the others where they are.
LEMMA Appended ==
  ASSUME NEW S, NEW q \in Seq(S), NEW x \in S
  PROVE  /\ Append(q, x) \in Seq(S)
         /\ DOMAIN Append(q, x) = DOMAIN q \cup {Len(q) + 1}
         /\ Len(q) + 1 \notin DOMAIN q
         /\ Append(q, x)[Len(q) + 1] = x
         /\ \A i \in DOMAIN q : Append(q, x)[i] = q[i]
  BY AppendProperties, LenProperties

\* Taking the head of a queue moves the others forward by one.
LEMMA Taken ==
  ASSUME NEW S, NEW q \in Seq(S), q # <<>>
  PROVE  /\ Tail(q) \in Seq(S)
         /\ Head(q) = q[1]
         /\ 1 \in DOMAIN q
         /\ \A i \in DOMAIN Tail(q) : i + 1 \in DOMAIN q /\ i + 1 # 1 /\ Tail(q)[i] = q[i + 1]
         /\ \A i \in DOMAIN Tail(q) : i \in Int
  BY HeadTailProperties, LenProperties, EmptySeq

\* There is no slice at the start, but with the strand.
LEMMA InitIInv == Init => IInv
  BY SliceAssumption DEF Init, Pool!Init, IInv, PoolTyped, AtMostOneSlice, InPool, InRun

\* Putting the slice on the queue when no other slice is about.
LEMMA SliceSubmitted ==
  ASSUME IInv, Pool!Submit(Slice), ~InPool,
         m_sliceTask' = FALSE,
         at' \in [Threads -> {"none", "start", "job", "after", "return"}],
         \A t \in Threads : ~InRun(t)',
         \A t \in Threads : at'[t] # "none" <=> poolRunning[t] = Slice
  PROVE  IInv'
<1>1. poolQueue' = Append(poolQueue, Slice) /\ poolRunning' = poolRunning
  BY DEF Pool!Submit
<1>2. poolQueue \in Seq(Others \cup {Slice})
  BY DEF IInv, PoolTyped
<1>3. /\ poolQueue' \in Seq(Others \cup {Slice})
      /\ DOMAIN poolQueue' = DOMAIN poolQueue \cup {Len(poolQueue) + 1}
      /\ \A i \in DOMAIN poolQueue : poolQueue'[i] = poolQueue[i]
  BY <1>1, <1>2, Appended
<1>4. \A i, k \in DOMAIN poolQueue' : poolQueue'[i] = Slice /\ poolQueue'[k] = Slice => i = k
  BY <1>3 DEF InPool
<1>5. PoolTyped'
  BY <1>1, <1>3 DEF IInv, PoolTyped
<1> QED BY <1>4, <1>5 DEF IInv, AtMostOneSlice

\* Steps that leave the queue of the pool and what its workers run alone.
LEMMA PoolUntouched ==
  ASSUME IInv, UNCHANGED <<poolQueue, poolRunning>>,
         at' \in [Threads -> {"none", "start", "job", "after", "return"}],
         m_sliceTask' \in BOOLEAN,
         \A t \in Threads : at'[t] = "none" <=> at[t] = "none",
         \A t \in Threads : InRun(t)' => InRun(t),
         m_sliceTask' => m_sliceTask \/ (~InPool /\ \A t \in Threads : ~InRun(t)')
  PROVE  IInv'
  BY DEF IInv, PoolTyped, AtMostOneSlice, InPool

\* submit(): the slice leaves m_sliceTask for the queue, or nothing happens.
LEMMA SubmitStep ==
  ASSUME IInv, NEW j \in Jobs, Submit(j)
  PROVE  IInv'
<1>1. CASE m_sliceTask /\ m_threadPool
  <2>1. Pool!Submit(Slice) /\ m_sliceTask' = FALSE /\ at' = at
    BY <1>1 DEF Submit
  <2>2. ~InPool /\ \A t \in Threads : ~InRun(t)
    BY <1>1 DEF IInv, AtMostOneSlice
  <2> QED BY <2>1, <2>2, SliceSubmitted DEF IInv, PoolTyped, InRun
<1>2. CASE ~(m_sliceTask /\ m_threadPool)
  <2>1. UNCHANGED <<poolQueue, poolRunning, m_sliceTask, at>>
    BY <1>2 DEF Submit, pool
  <2> QED BY <2>1, PoolUntouched DEF IInv, PoolTyped, InRun
<1> QED BY <1>1, <1>2

\* A worker takes the front of the queue, which may be the slice.
LEMMA TakeStep ==
  ASSUME IInv, NEW t \in Threads, Take(t)
  PROVE  IInv'
<1>1. /\ poolQueue \in Seq(Others \cup {Slice})
      /\ poolQueue # <<>>
      /\ poolQueue' = Tail(poolQueue)
      /\ poolRunning[t] = None
      /\ poolRunning' = [poolRunning EXCEPT ![t] = Head(poolQueue)]
      /\ m_sliceTask' = m_sliceTask
      /\ at' = [at EXCEPT ![t] = IF Head(poolQueue) = Slice THEN "start" ELSE "none"]
  BY DEF Take, Pool!Take, IInv, PoolTyped
<1>2. /\ poolQueue' \in Seq(Others \cup {Slice})
      /\ Head(poolQueue) = poolQueue[1]
      /\ 1 \in DOMAIN poolQueue
      /\ \A i \in DOMAIN poolQueue' :
            i + 1 \in DOMAIN poolQueue /\ i + 1 # 1 /\ poolQueue'[i] = poolQueue[i + 1]
      /\ \A i \in DOMAIN poolQueue' : i \in Int
  BY <1>1, Taken
<1>3. Head(poolQueue) \in Others \cup {Slice}
  BY <1>1, HeadTailProperties
<1>4. PoolTyped'
  BY <1>1, <1>2, <1>3, SliceAssumption DEF IInv, PoolTyped
<1>5. \A i, k \in DOMAIN poolQueue' : poolQueue'[i] = Slice /\ poolQueue'[k] = Slice => i = k
  BY <1>2 DEF IInv, AtMostOneSlice
<1>6. InPool' => InPool
  BY <1>2 DEF InPool
<1>7. CASE poolQueue[1] = Slice
  <2>1. InPool /\ ~m_sliceTask /\ \A u \in Threads : ~InRun(u)
    BY <1>2, <1>7 DEF InPool, IInv, AtMostOneSlice
  <2>2. ~InPool'
    BY <1>2, <1>7 DEF InPool, IInv, AtMostOneSlice
  <2>3. \A u \in Threads : InRun(u)' => u = t
    BY <1>1, <2>1 DEF InRun, IInv, PoolTyped
  <2> QED BY <1>1, <1>4, <1>5, <2>1, <2>2, <2>3 DEF IInv, AtMostOneSlice
<1>8. CASE poolQueue[1] # Slice
  <2>1. at[t] = "none"
    BY <1>1, SliceAssumption DEF IInv, PoolTyped
  <2>2. \A u \in Threads : InRun(u)' <=> InRun(u)
    BY <1>1, <1>2, <1>8, <2>1 DEF InRun, IInv, PoolTyped
  <2> QED BY <1>1, <1>4, <1>5, <1>6, <2>2 DEF IInv, AtMostOneSlice
<1> QED BY <1>7, <1>8

\* run(): from the slice to the job and back to the queue or to m_sliceTask.
LEMMA RunStep ==
  ASSUME IInv, NEW t \in Threads, Run(t)
  PROVE  IInv'
<1>0. /\ at \in [Threads -> {"none", "start", "job", "after", "return"}]
      /\ m_sliceTask \in BOOLEAN
  BY DEF IInv, PoolTyped
<1>1. CASE RunJob(t) \/ JobReturns(t)
  <2>1. /\ UNCHANGED <<poolQueue, poolRunning, m_sliceTask>>
        /\ at' = [at EXCEPT ![t] = "job"] \/ at' = [at EXCEPT ![t] = "after"]
        /\ at[t] \in {"start", "job"}
    BY <1>1 DEF RunJob, JobReturns, pool
  <2> QED BY <1>0, <2>1, PoolUntouched DEF InRun
<1>2. CASE RunDetached(t) \/ RunPark(t)
  <2>1. /\ UNCHANGED <<poolQueue, poolRunning>>
        /\ m_sliceTask' = TRUE
        /\ at' = [at EXCEPT ![t] = "return"]
        /\ at[t] \in {"start", "after"}
    BY <1>2 DEF RunDetached, RunPark, Park, pool
  <2>2. ~InPool /\ \A u \in Threads : InRun(u) => u = t
    BY <2>1 DEF IInv, AtMostOneSlice, InRun
  <2>3. \A u \in Threads : ~InRun(u)'
    BY <1>0, <2>1, <2>2 DEF InRun
  <2>4. \A u \in Threads : at'[u] = "none" <=> at[u] = "none"
    BY <1>0, <2>1
  <2> QED BY <1>0, <2>1, <2>2, <2>3, <2>4, PoolUntouched
<1>3. CASE RunAgain(t)
  <2>1. Pool!Submit(Slice) /\ at' = [at EXCEPT ![t] = "return"] /\ at[t] = "after"
        /\ m_sliceTask' = m_sliceTask
    BY <1>3 DEF RunAgain
  <2>2. ~InPool /\ ~m_sliceTask /\ \A u \in Threads : InRun(u) => u = t
    BY <2>1 DEF IInv, AtMostOneSlice, InRun
  <2>3. \A u \in Threads : ~InRun(u)'
    BY <1>0, <2>1, <2>2 DEF InRun
  <2>4. \A u \in Threads : at'[u] # "none" <=> poolRunning[u] = Slice
    BY <1>0, <2>1 DEF IInv, PoolTyped
  <2> QED BY <1>0, <2>1, <2>2, <2>3, <2>4, SliceSubmitted
<1> QED BY <1>1, <1>2, <1>3 DEF Run

\* A worker that is done with a task holds no slice.
LEMMA FinishStep ==
  ASSUME IInv, NEW t \in Threads, Finish(t)
  PROVE  IInv'
<1>1. /\ UNCHANGED <<poolQueue, m_sliceTask>>
      /\ poolRunning' = [poolRunning EXCEPT ![t] = None]
      /\ at' = [at EXCEPT ![t] = "none"]
      /\ at[t] \in {"none", "return"}
  BY DEF Finish, Pool!Finish
<1>2. PoolTyped'
  BY <1>1, SliceAssumption DEF IInv, PoolTyped
<1>3. \A u \in Threads : InRun(u)' <=> InRun(u)
  BY <1>1 DEF InRun, IInv, PoolTyped
<1> QED BY <1>1, <1>2, <1>3 DEF IInv, AtMostOneSlice, InPool

\* Other users of the pool append tasks that are not the slice.
LEMMA PoolSubmitStep ==
  ASSUME IInv, NEW o \in Others, PoolSubmit(o)
  PROVE  IInv'
<1>1. /\ poolQueue' = Append(poolQueue, o)
      /\ UNCHANGED <<poolRunning, m_sliceTask, at>>
      /\ poolQueue \in Seq(Others \cup {Slice})
      /\ o # Slice
  BY SliceAssumption DEF PoolSubmit, Pool!Submit, IInv, PoolTyped
<1>2. /\ poolQueue' \in Seq(Others \cup {Slice})
      /\ DOMAIN poolQueue' = DOMAIN poolQueue \cup {Len(poolQueue) + 1}
      /\ poolQueue'[Len(poolQueue) + 1] = o
      /\ \A i \in DOMAIN poolQueue : poolQueue'[i] = poolQueue[i]
  BY <1>1, Appended
<1>3. InPool' <=> InPool
  BY <1>1, <1>2 DEF InPool
<1>4. \A i, k \in DOMAIN poolQueue' : poolQueue'[i] = Slice /\ poolQueue'[k] = Slice => i = k
  BY <1>1, <1>2 DEF IInv, AtMostOneSlice
<1>5. PoolTyped'
  BY <1>1, <1>2 DEF IInv, PoolTyped
<1>6. \A t \in Threads : InRun(t)' <=> InRun(t)
  BY <1>1 DEF InRun
<1> QED BY <1>1, <1>3, <1>4, <1>5, <1>6 DEF IInv, AtMostOneSlice

\* Every step keeps the slice unique.
LEMMA StepPreserves == IInv /\ [Next]_vars => IInv'
<1> SUFFICES ASSUME IInv, [Next]_vars PROVE IInv'
  OBVIOUS
<1>1. ASSUME NEW c \in Callers, StopAndJoin(c) \/ JoinTest(c) PROVE IInv'
  <2>1. UNCHANGED <<poolQueue, poolRunning, m_sliceTask, at>>
    BY <1>1 DEF StopAndJoin, JoinTest, pool
  <2> QED BY <2>1, PoolUntouched DEF IInv, PoolTyped, InRun
<1>2. ASSUME NEW t \in Threads, StopFromJob(t) PROVE IInv'
  <2>1. UNCHANGED <<poolQueue, poolRunning, m_sliceTask, at>>
    BY <1>2 DEF StopFromJob, pool
  <2> QED BY <2>1, PoolUntouched DEF IInv, PoolTyped, InRun
<1>3. CASE PoolStop
  <2>1. UNCHANGED <<poolQueue, poolRunning, m_sliceTask, at>>
    BY <1>3 DEF PoolStop, Pool!Stop
  <2> QED BY <2>1, PoolUntouched DEF IInv, PoolTyped, InRun
<1>4. CASE UNCHANGED vars
  <2>1. UNCHANGED <<poolQueue, poolRunning, m_sliceTask, at>>
    BY <1>4 DEF vars, pool
  <2> QED BY <2>1, PoolUntouched DEF IInv, PoolTyped, InRun
<1> QED BY <1>1, <1>2, <1>3, <1>4, SubmitStep, TakeStep, RunStep, FinishStep,
           PoolSubmitStep DEF Next

\* There is at most one slice, wherever it is.
THEOREM SliceIsUnique == Spec => []IInv
  BY InitIInv, StepPreserves, PTL DEF Spec

\* No two jobs of a strand are executed at the same time.
THEOREM NoParallelJobsHolds == Spec => []NoParallelJobs
<1>1. IInv => NoParallelJobs
  BY DEF IInv, AtMostOneSlice, NoParallelJobs, InRun
<1> QED BY SliceIsUnique, <1>1, PTL
-----------------------------------------------------------------------------
\* submit() and the end of run() put the slice on the pool only with a job in
\* the list, and only the holder of the slice takes jobs out.
SliceInv == IInv /\ jobs \in Seq(Jobs) /\ SliceHasWork

\* Steps after which there is no more slice about and no fewer jobs than before.
LEMMA WorkKept ==
  ASSUME SliceHasWork, jobs' = jobs, m_threadPool' => m_threadPool,
         InPool' => InPool \/ \E t \in Threads : at[t] = "start",
         \A t \in Threads : at'[t] = "start" => at[t] = "start" \/ InPool
  PROVE  SliceHasWork'
  BY DEF SliceHasWork

\* Nothing appears on the queue of the pool when its front is taken.
LEMMA InPoolTaken ==
  ASSUME poolQueue \in Seq(Others \cup {Slice}), poolQueue # <<>>,
         poolQueue' = Tail(poolQueue)
  PROVE  InPool' => InPool
  BY Taken DEF InPool

\* Another user's task on the queue is no slice.
LEMMA InPoolAppended ==
  ASSUME poolQueue \in Seq(Others \cup {Slice}), NEW o \in Others,
         poolQueue' = Append(poolQueue, o)
  PROVE  InPool' => InPool
<1>1. o # Slice
  BY SliceAssumption
<1>2. o \in Others \cup {Slice}
  OBVIOUS
<1>3. /\ DOMAIN poolQueue' = DOMAIN poolQueue \cup {Len(poolQueue) + 1}
      /\ poolQueue'[Len(poolQueue) + 1] = o
      /\ \A i \in DOMAIN poolQueue : poolQueue'[i] = poolQueue[i]
  BY <1>2, Appended
<1> QED BY <1>1, <1>3 DEF InPool

\* The steps of run(), one by one.
LEMMA RunKeepsWork ==
  ASSUME SliceInv, NEW t \in Threads, Run(t)
  PROVE  jobs' \in Seq(Jobs) /\ SliceHasWork'
<1>0. /\ at \in [Threads -> {"none", "start", "job", "after", "return"}]
      /\ jobs \in Seq(Jobs) /\ SliceHasWork
  BY DEF SliceInv, IInv, PoolTyped
<1>1. CASE RunDetached(t) \/ RunPark(t) \/ JobReturns(t)
  <2>1. /\ UNCHANGED <<poolQueue, jobs, m_threadPool>>
        /\ at' = [at EXCEPT ![t] = "return"] \/ at' = [at EXCEPT ![t] = "after"]
    BY <1>1 DEF RunDetached, RunPark, Park, JobReturns, pool
  <2> QED BY <1>0, <2>1, WorkKept DEF InPool
<1>2. CASE RunJob(t)
  <2>1. /\ at[t] = "start" /\ m_threadPool /\ jobs' = Tail(jobs)
        /\ UNCHANGED <<poolQueue, m_threadPool>> /\ at' = [at EXCEPT ![t] = "job"]
    BY <1>2 DEF RunJob, pool
  <2>2. ~InPool /\ \A u \in Threads : InRun(u) => u = t
    BY <2>1 DEF SliceInv, IInv, AtMostOneSlice, InRun
  <2>3. ~InPool' /\ \A u \in Threads : at'[u] # "start"
    BY <1>0, <2>1, <2>2 DEF InPool, InRun
  <2>4. jobs # <<>>
    BY <1>0, <2>1 DEF SliceHasWork
  <2> QED BY <1>0, <2>1, <2>3, <2>4, HeadTailProperties DEF SliceHasWork
<1>3. CASE RunAgain(t)
  <2>1. jobs' = jobs /\ jobs # <<>>
    BY <1>3 DEF RunAgain
  <2> QED BY <1>0, <2>1 DEF SliceHasWork
<1> QED BY <1>1, <1>2, <1>3 DEF Run

\* Every step keeps a job in the list of a strand whose slice is about.
LEMMA StepKeepsWork == SliceInv /\ [Next]_vars => SliceInv'
<1> SUFFICES ASSUME SliceInv, [Next]_vars PROVE jobs' \in Seq(Jobs) /\ SliceHasWork'
  BY StepPreserves DEF SliceInv
<1>0. /\ at \in [Threads -> {"none", "start", "job", "after", "return"}]
      /\ poolQueue \in Seq(Others \cup {Slice})
      /\ jobs \in Seq(Jobs) /\ SliceHasWork
  BY DEF SliceInv, IInv, PoolTyped
<1>1. ASSUME NEW j \in Jobs, Submit(j) PROVE jobs' \in Seq(Jobs) /\ SliceHasWork'
  <2>1. jobs' = Append(jobs, j)
    BY <1>1 DEF Submit
  <2> QED BY <1>0, <2>1, AppendProperties DEF SliceHasWork
<1>2. ASSUME NEW t \in Threads, Take(t) PROVE jobs' \in Seq(Jobs) /\ SliceHasWork'
  <2>1. /\ poolQueue # <<>> /\ poolQueue' = Tail(poolQueue)
        /\ UNCHANGED <<jobs, m_threadPool>>
        /\ at' = [at EXCEPT ![t] = IF Head(poolQueue) = Slice THEN "start" ELSE "none"]
    BY <1>2 DEF Take, Pool!Take
  <2>2. InPool' => InPool
    BY <1>0, <2>1, InPoolTaken
  <2>3. Head(poolQueue) = Slice => InPool
    BY <1>0, <2>1, Taken DEF InPool
  <2>4. \A u \in Threads : at'[u] = "start" => at[u] = "start" \/ InPool
    BY <1>0, <2>1, <2>3
  <2> QED BY <1>0, <2>1, <2>2, <2>4, WorkKept
<1>3. ASSUME NEW t \in Threads, Finish(t) PROVE jobs' \in Seq(Jobs) /\ SliceHasWork'
  <2>1. UNCHANGED <<poolQueue, jobs, m_threadPool>> /\ at' = [at EXCEPT ![t] = "none"]
    BY <1>3 DEF Finish, Pool!Finish
  <2> QED BY <1>0, <2>1, WorkKept DEF InPool
<1>4. ASSUME NEW o \in Others, PoolSubmit(o) PROVE jobs' \in Seq(Jobs) /\ SliceHasWork'
  <2>1. UNCHANGED <<jobs, m_threadPool, at>> /\ poolQueue' = Append(poolQueue, o)
    BY <1>4 DEF PoolSubmit, Pool!Submit
  <2>2. InPool' => InPool
    BY <1>0, <2>1, InPoolAppended
  <2> QED BY <1>0, <2>1, <2>2, WorkKept
<1>5. ASSUME NEW c \in Callers, StopAndJoin(c) \/ JoinTest(c)
      PROVE  jobs' \in Seq(Jobs) /\ SliceHasWork'
  <2>1. UNCHANGED <<poolQueue, jobs, at>> /\ (m_threadPool' => m_threadPool)
    BY <1>5 DEF StopAndJoin, JoinTest, pool
  <2> QED BY <1>0, <2>1, WorkKept DEF InPool
<1>6. ASSUME NEW t \in Threads, StopFromJob(t) PROVE jobs' \in Seq(Jobs) /\ SliceHasWork'
  <2>1. UNCHANGED <<poolQueue, jobs, at>> /\ (m_threadPool' => m_threadPool)
    BY <1>6 DEF StopFromJob, pool
  <2> QED BY <1>0, <2>1, WorkKept DEF InPool
<1>7. CASE PoolStop \/ UNCHANGED vars
  <2>1. UNCHANGED <<poolQueue, jobs, at, m_threadPool>>
    BY <1>7 DEF PoolStop, Pool!Stop, vars, pool
  <2> QED BY <1>0, <2>1, WorkKept DEF InPool
<1> QED BY <1>1, <1>2, <1>3, <1>4, <1>5, <1>6, <1>7, RunKeepsWork DEF Next

\* run() of a live strand finds a job in the list.
THEOREM SliceHasWorkHolds == Spec => []SliceHasWork
<1>1. Init => SliceInv
  BY InitIInv, EmptySeq DEF Init, Pool!Init, SliceInv, SliceHasWork, InPool
<1>2. SliceInv => SliceHasWork
  BY DEF SliceInv
<1> QED BY <1>1, <1>2, StepKeepsWork, PTL DEF Spec

-----------------------------------------------------------------------------
\* A caller past its first section has detached the pool, for good; one that
\* has joined saw the slice parked, and only a live strand takes it out again.
JoinInv == /\ caller \in [Callers -> {"idle", "test", "asleep", "joined"}]
           /\ \A c \in Callers : caller[c] # "idle" => ~m_threadPool
           /\ \A c \in Callers : caller[c] = "joined" => m_sliceTask

\* Steps that leave the callers and the pool's reference alone.
LEMMA JoinKept ==
  ASSUME JoinInv, caller' = caller, m_threadPool' => m_threadPool,
         m_sliceTask' = m_sliceTask
  PROVE  JoinInv'
  BY DEF JoinInv

\* Every step keeps what a join has found.
LEMMA StepKeepsJoin == JoinInv /\ [Next]_vars => JoinInv'
<1> SUFFICES ASSUME JoinInv, [Next]_vars PROVE JoinInv'
  OBVIOUS
<1>1. ASSUME NEW j \in Jobs, Submit(j) PROVE JoinInv'
  BY <1>1 DEF Submit, JoinInv
<1>2. ASSUME NEW t \in Threads, Take(t) \/ Finish(t) \/ StopFromJob(t) PROVE JoinInv'
  BY <1>2, JoinKept DEF Take, Finish, StopFromJob
<1>3. ASSUME NEW t \in Threads, Run(t) PROVE JoinInv'
  <2>1. CASE RunDetached(t) \/ RunPark(t)
    <3>1. /\ m_sliceTask' = TRUE /\ m_threadPool' = m_threadPool
          /\ caller' = [c \in Callers |-> IF caller[c] = "asleep" THEN "test" ELSE caller[c]]
      BY <2>1 DEF RunDetached, RunPark, Park
    <3> QED BY <3>1 DEF JoinInv
  <2>2. CASE RunJob(t) \/ JobReturns(t) \/ RunAgain(t)
    BY <2>2, JoinKept DEF RunJob, JobReturns, RunAgain
  <2> QED BY <1>3, <2>1, <2>2 DEF Run
<1>4. ASSUME NEW c \in Callers, StopAndJoin(c) \/ JoinTest(c) PROVE JoinInv'
  BY <1>4 DEF StopAndJoin, JoinTest, JoinInv
<1>5. ASSUME NEW o \in Others, PoolSubmit(o) PROVE JoinInv'
  BY <1>5, JoinKept DEF PoolSubmit
<1>6. CASE PoolStop \/ UNCHANGED vars
  BY <1>6, JoinKept DEF PoolStop, vars
<1> QED BY <1>1, <1>2, <1>3, <1>4, <1>5, <1>6 DEF Next

\* After a join that returned, the slice is nowhere but in the strand.
THEOREM JoinedIsQuietHolds == Spec => []JoinedIsQuiet
<1>1. Init => JoinInv
  BY DEF Init, JoinInv
<1>2. Spec => []JoinInv
  BY <1>1, StepKeepsJoin, PTL DEF Spec
<1>3. IInv /\ JoinInv => JoinedIsQuiet
  BY DEF IInv, AtMostOneSlice, JoinInv, JoinedIsQuiet
<1> QED BY <1>2, <1>3, SliceIsUnique, PTL
-----------------------------------------------------------------------------
(* The strand is a queue with one worker *)

\* A worker that executes a job of the strand has one.
CurrentIsJob == /\ current \in [Threads -> Jobs \cup {None}]
                /\ \A t \in Threads : at[t] = "job" => current[t] \in Jobs

SerialInv == SliceInv /\ CurrentIsJob

\* The job executed, with at most one thread that executes one.
LEMMA ExecutedIs ==
  ASSUME \A t, u \in Threads : at[t] = "job" /\ at[u] = "job" => t = u
  PROVE  /\ \A t \in Threads : at[t] = "job" => Executed = current[t]
         /\ (\A t \in Threads : at[t] # "job") => Executed = None
  BY DEF Executed

\* The same for the state after a step.
LEMMA ExecutedBecomes ==
  ASSUME \A t, u \in Threads : at'[t] = "job" /\ at'[u] = "job" => t = u
  PROVE  /\ \A t \in Threads : at'[t] = "job" => Executed' = current'[t]
         /\ (\A t \in Threads : at'[t] # "job") => Executed' = None
  BY DEF Executed

\* A step that moves no thread into a job or out of one leaves the job executed.
LEMMA ExecutedKept ==
  ASSUME SerialInv, SerialInv', current' = current,
         \A t \in Threads : at'[t] = "job" <=> at[t] = "job"
  PROVE  Executed' = Executed
<1>1. /\ \A t, u \in Threads : at[t] = "job" /\ at[u] = "job" => t = u
      /\ \A t, u \in Threads : at'[t] = "job" /\ at'[u] = "job" => t = u
  BY DEF SerialInv, SliceInv, IInv, AtMostOneSlice, InRun
<1> QED BY <1>1, ExecutedIs, ExecutedBecomes

\* Every step keeps the executed job with the thread that holds the slice.
LEMMA StepKeepsCurrent == SerialInv /\ [Next]_vars => SerialInv'
<1> SUFFICES ASSUME SerialInv, [Next]_vars PROVE CurrentIsJob'
  BY StepKeepsWork DEF SerialInv
<1>0. /\ at \in [Threads -> {"none", "start", "job", "after", "return"}]
      /\ jobs \in Seq(Jobs) /\ SliceHasWork /\ CurrentIsJob
  BY DEF SerialInv, SliceInv, IInv, PoolTyped
<1>1. ASSUME NEW t \in Threads, RunJob(t) PROVE CurrentIsJob'
  <2>1. jobs # <<>>
    BY <1>0, <1>1 DEF RunJob, SliceHasWork
  <2>2. Head(jobs) \in Jobs
    BY <1>0, <2>1, HeadTailProperties
  <2> QED BY <1>0, <1>1, <2>2 DEF RunJob, CurrentIsJob
<1>2. ASSUME NEW t \in Threads, JobReturns(t) PROVE CurrentIsJob'
  BY <1>0, <1>2 DEF JobReturns, CurrentIsJob
<1>3. ASSUME current' = current, NEW t \in Threads,
             at' = at \/ \E s \in {"none", "start", "after", "return"} : at' = [at EXCEPT ![t] = s]
      PROVE  CurrentIsJob'
  BY <1>0, <1>3 DEF CurrentIsJob
<1>4. ASSUME NEW t \in Threads, Take(t) \/ Finish(t) \/ StopFromJob(t) PROVE CurrentIsJob'
  BY <1>3, <1>4 DEF Take, Finish, StopFromJob
<1>5. ASSUME NEW t \in Threads, RunDetached(t) \/ RunAgain(t) \/ RunPark(t) PROVE CurrentIsJob'
  BY <1>3, <1>5 DEF RunDetached, RunAgain, RunPark
<1>6. ASSUME \/ \E j \in Jobs : Submit(j)
             \/ \E c \in Callers : StopAndJoin(c) \/ JoinTest(c)
             \/ \E o \in Others : PoolSubmit(o)
             \/ PoolStop
             \/ UNCHANGED vars
      PROVE  CurrentIsJob'
  BY <1>0, <1>6 DEF Submit, StopAndJoin, JoinTest, PoolSubmit, PoolStop, vars, CurrentIsJob
<1> QED BY <1>1, <1>2, <1>4, <1>5, <1>6 DEF Next, Run

\* A step of the code is a step of the queue or leaves it as it is.
LEMMA SerialStep == SerialInv /\ SerialInv' /\ [Next]_vars => [Serial!Next]_(Serial!vars)
<1> SUFFICES ASSUME SerialInv, SerialInv', [Next]_vars PROVE [Serial!Next]_(Serial!vars)
  OBVIOUS
<1>0. /\ at \in [Threads -> {"none", "start", "job", "after", "return"}]
      /\ jobs \in Seq(Jobs) /\ SliceHasWork /\ CurrentIsJob
      /\ \A t, u \in Threads : InRun(t) /\ InRun(u) => t = u
      /\ \A t, u \in Threads : at[t] = "job" /\ at[u] = "job" => t = u
      /\ \A t, u \in Threads : at'[t] = "job" /\ at'[u] = "job" => t = u
      /\ None \notin Jobs
  BY SliceAssumption DEF SerialInv, SliceInv, IInv, PoolTyped, AtMostOneSlice, InRun
<1>1. ASSUME NEW j \in Jobs, Submit(j) PROVE Serial!Submit(j)
  <2>1. Executed' = Executed
    BY <1>1, ExecutedKept DEF Submit
  <2>2. j \notin Serial!Queued
    BY <1>1 DEF Submit, Serial!Queued
  <2> QED BY <1>1, <2>1, <2>2 DEF Submit, Serial!Submit
<1>2. ASSUME NEW t \in Threads, RunJob(t) PROVE Serial!Take(Slice)
  <2>1. jobs # <<>>
    BY <1>0, <1>2 DEF RunJob, SliceHasWork
  <2>2. Executed = None
    <3>1. \A u \in Threads : at[u] # "job"
      BY <1>0, <1>2 DEF RunJob, InRun
    <3> QED BY <1>0, <3>1, ExecutedIs
  <2>3. Executed' = Head(jobs)
    <3>1. at'[t] = "job" /\ current'[t] = Head(jobs)
      BY <1>0, <1>2 DEF RunJob, CurrentIsJob
    <3> QED BY <1>0, <3>1, ExecutedBecomes
  <2>4. [s \in {Slice} |-> Executed'] = [[s \in {Slice} |-> Executed] EXCEPT ![Slice] = Head(jobs)]
    BY <2>3
  <2> QED BY <1>2, <2>1, <2>2, <2>4 DEF RunJob, Serial!Take
<1>3. ASSUME NEW t \in Threads, JobReturns(t) PROVE Serial!Finish(Slice)
  <2>1. Executed # None
    <3>1. at[t] = "job" /\ current[t] \in Jobs
      BY <1>0, <1>3 DEF JobReturns, CurrentIsJob
    <3>2. Executed = current[t]
      BY <1>0, <3>1, ExecutedIs
    <3> QED BY <1>0, <3>1, <3>2
  <2>2. Executed' = None
    <3>1. \A u \in Threads : at'[u] # "job"
      BY <1>0, <1>3 DEF JobReturns
    <3> QED BY <1>0, <3>1, ExecutedBecomes
  <2>3. [s \in {Slice} |-> Executed'] = [[s \in {Slice} |-> Executed] EXCEPT ![Slice] = None]
    BY <2>2
  <2> QED BY <1>3, <2>1, <2>3 DEF JobReturns, Serial!Finish
<1>4. ASSUME \/ \E c \in Callers : StopAndJoin(c)
             \/ \E t \in Threads : StopFromJob(t)
      PROVE  Serial!Stop
  <2>1. Executed' = Executed
    BY <1>4, ExecutedKept DEF StopAndJoin, StopFromJob
  <2> QED BY <1>4, <2>1 DEF StopAndJoin, StopFromJob, Serial!Stop
<1>5. ASSUME UNCHANGED <<jobs, m_threadPool, current>>,
             \A t \in Threads : at'[t] = "job" <=> at[t] = "job"
      PROVE  UNCHANGED Serial!vars
  <2>1. Executed' = Executed
    BY <1>5, ExecutedKept
  <2> QED BY <1>5, <2>1 DEF Serial!vars
<1>6. ASSUME NEW t \in Threads, Take(t) \/ Finish(t) PROVE UNCHANGED Serial!vars
  <2>1. at[t] # "job"
    <3>1. CASE Take(t)
      <4>1. poolRunning[t] = None /\ None # Slice
        BY <3>1, SliceAssumption DEF Take, Pool!Take
      <4> QED BY <4>1 DEF SerialInv, SliceInv, IInv, PoolTyped
    <3>2. CASE Finish(t)
      BY <3>2 DEF Finish
    <3> QED BY <1>6, <3>1, <3>2
  <2>2. PICK s \in {"none", "start"} : at' = [at EXCEPT ![t] = s]
    BY <1>6 DEF Take, Finish
  <2>3. \A u \in Threads : at'[u] = "job" <=> at[u] = "job"
    BY <1>0, <2>1, <2>2
  <2> QED BY <1>5, <1>6, <2>3 DEF Take, Finish
<1>7. ASSUME NEW t \in Threads, RunDetached(t) \/ RunAgain(t) \/ RunPark(t)
      PROVE  UNCHANGED Serial!vars
  <2>1. at[t] # "job" /\ at' = [at EXCEPT ![t] = "return"]
    BY <1>7 DEF RunDetached, RunAgain, RunPark
  <2>2. \A u \in Threads : at'[u] = "job" <=> at[u] = "job"
    BY <1>0, <2>1
  <2> QED BY <1>5, <1>7, <2>2 DEF RunDetached, RunAgain, RunPark
<1>8. ASSUME \/ \E c \in Callers : JoinTest(c)
             \/ \E o \in Others : PoolSubmit(o)
             \/ PoolStop
             \/ UNCHANGED vars
      PROVE  UNCHANGED Serial!vars
  BY <1>5, <1>8 DEF JoinTest, PoolSubmit, PoolStop, vars
<1> QED BY <1>1, <1>2, <1>3, <1>4, <1>6, <1>7, <1>8 DEF Next, Run, Serial!Next

\* A strand implements TaskQueue with one worker: jobs are executed one at a
\* time, each once, in the order of their submission, whichever threads of the
\* pool execute the slices, and none is begun after a stop.
THEOREM SerialQueueHolds == Spec => ImplementsSerialQueue
<1>1. Init => SerialInv /\ Serial!Init
  <2>1. Init => SliceInv
    BY InitIInv, EmptySeq DEF Init, Pool!Init, SliceInv, SliceHasWork, InPool
  <2>2. Init => CurrentIsJob
    BY DEF Init, CurrentIsJob
  <2>3. Init => Executed = None
    BY DEF Init, Executed
  <2> QED BY <2>1, <2>2, <2>3 DEF Init, SerialInv, Serial!Init
<1> QED BY <1>1, StepKeepsCurrent, SerialStep, PTL DEF Spec, ImplementsSerialQueue, Serial!Spec

-----------------------------------------------------------------------------
(* Induction and recursion on the natural numbers *)

\* A set of numbers that is not empty has a least one.
LEMMA Least ==
  ASSUME NEW T \in SUBSET Nat, T # {}
  PROVE  \E x \in T : \A y \in T : x <= y
<1> DEFINE R == OpToRel(<, Nat)
<1>1. IsWellFoundedOn(R, Nat)
  BY NatLessThanWellFounded
<1>2. \A x, y \in Nat : x < y => <<x, y>> \in R
  BY DEF OpToRel
<1> HIDE DEF R
<1>3. PICK x \in T : \A y \in T : ~ (<<y, x>> \in R)
  BY <1>1, WFMin
<1>4. ASSUME NEW y \in T PROVE x <= y
  <2>1. x \in Nat /\ y \in Nat /\ ~(y < x)
    BY <1>2, <1>3
  <2> QED BY <2>1
<1> QED BY <1>4

\* Induction for a set of numbers
LEMMA Induction ==
  ASSUME NEW S, 0 \in S, \A n \in Nat : n \in S => n + 1 \in S
  PROVE  \A n \in Nat : n \in S
<1> DEFINE T == {n \in Nat : n \notin S}
<1>1. SUFFICES ASSUME T # {} PROVE FALSE
  OBVIOUS
<1>2. PICK m \in T : \A y \in T : m <= y
  BY <1>1, Least
<1>3. m # 0
  OBVIOUS
<1>4. m - 1 \in Nat /\ m - 1 \notin T
  BY <1>2, <1>3
<1> QED BY <1>4

\* The same up to a bound
LEMMA InductionTo ==
  ASSUME NEW S, NEW m \in Nat, 0 \in S, \A n \in 0 .. m-1 : n \in S => n + 1 \in S
  PROVE  \A n \in 0..m : n \in S
<1> DEFINE T == {n \in Nat : n <= m => n \in S}
<1>1. 0 \in T
  OBVIOUS
<1>2. ASSUME NEW n \in Nat, n \in T PROVE n + 1 \in T
  BY <1>2
<1> HIDE DEF T
<1>3. \A n \in Nat : n \in T
  BY <1>1, <1>2, Induction
<1> QED BY <1>3 DEF T

\* A function is defined by its first value and by each from the one before.
Follows(h, S, s0, F) == h \in [Nat -> S] /\ h[0] = s0 /\ \A n \in Nat : h[n+1] = F[n][h[n]]

\* Definition by recursion: for each first value and each step there is the sequence of
\* values that they give.
LEMMA Recursion ==
  ASSUME NEW S, NEW s0 \in S, NEW F \in [Nat -> [S -> S]]
  PROVE  \E h : Follows(h, S, s0, F)
<1> DEFINE Good(n, h) == h[0] = s0 /\ \A k \in 0 .. n-1 : h[k+1] = F[k][h[k]]
           T == {n \in Nat : \E h \in [0..n -> S] : Good(n, h)}
<1>1. 0 \in T
  <2>1. [k \in 0..0 |-> s0] \in [0..0 -> S] /\ Good(0, [k \in 0..0 |-> s0])
    OBVIOUS
  <2> QED BY <2>1
<1>2. ASSUME NEW n \in Nat, n \in T PROVE n + 1 \in T
  <2>1. PICK h \in [0..n -> S] : Good(n, h)
    BY <1>2
  <2> DEFINE g == [k \in 0 .. n+1 |-> IF k = n + 1 THEN F[n][h[n]] ELSE h[k]]
  <2>2. g \in [0 .. n+1 -> S]
    OBVIOUS
  <2>3. g[0] = s0
    BY <2>1
  <2>4. ASSUME NEW k \in 0 .. (n+1)-1 PROVE g[k+1] = F[k][g[k]]
    <3>1. CASE k = n
      <4>1. g[n+1] = F[n][h[n]] /\ g[n] = h[n]
        OBVIOUS
      <4> HIDE DEF g
      <4> QED BY <3>1, <4>1
    <3>2. CASE k # n
      <4>1. k \in 0 .. n-1 /\ k + 1 # n + 1 /\ k # n + 1 /\ k + 1 \in 0 .. n+1 /\ k \in 0 .. n+1
        BY <3>2
      <4>2. g[k+1] = h[k+1] /\ g[k] = h[k]
        BY <4>1
      <4> HIDE DEF g
      <4> QED BY <2>1, <4>1, <4>2
    <3> QED BY <3>1, <3>2
  <2> HIDE DEF g
  <2>5. Good(n + 1, g)
    BY <2>3, <2>4
  <2> QED BY <2>2, <2>5
<1> HIDE DEF T
<1>3. \A n \in Nat : n \in T
  BY <1>1, <1>2, Induction
<1> DEFINE H == [n \in Nat |-> CHOOSE h \in [0..n -> S] : Good(n, h)]
<1>4. \A n \in Nat : H[n] \in [0..n -> S] /\ Good(n, H[n])
  BY <1>3 DEF T
<1> HIDE DEF H
<1>5. ASSUME NEW n \in Nat PROVE H[n+1][n] = H[n][n]
  <2> DEFINE A == {k \in Nat : k <= n => H[n+1][k] = H[n][k]}
  <2>1. 0 \in A
    BY <1>4
  <2>2. ASSUME NEW k \in Nat, k \in A PROVE k + 1 \in A
    <3>1. SUFFICES ASSUME k + 1 <= n PROVE H[n+1][k+1] = H[n][k+1]
      OBVIOUS
    <3>2. H[n+1][k] = H[n][k]
      BY <2>2, <3>1
    <3>3. k \in 0 .. n-1 /\ k \in 0 .. (n+1)-1
      BY <3>1
    <3>4. H[n+1][k+1] = F[k][H[n+1][k]] /\ H[n][k+1] = F[k][H[n][k]]
      <4>1. n + 1 \in Nat
        OBVIOUS
      <4>2. Good(n+1, H[n+1])
        BY <1>4, <4>1
      <4>3. Good(n, H[n])
        BY <1>4
      <4> QED BY <3>3, <4>2, <4>3
    <3> QED BY <3>2, <3>4
  <2> HIDE DEF A
  <2>3. n \in A
    BY <2>1, <2>2, Induction
  <2> QED BY <2>3 DEF A
<1> DEFINE f == [n \in Nat |-> H[n][n]]
<1>6. f \in [Nat -> S]
  BY <1>4
<1>7. f[0] = s0
  BY <1>4
<1>8. ASSUME NEW n \in Nat PROVE f[n+1] = F[n][f[n]]
  <2>1. n \in 0 .. (n+1)-1
    OBVIOUS
  <2>2. H[n+1][n+1] = F[n][H[n+1][n]]
    BY <1>4, <2>1
  <2> QED BY <1>5, <2>2
<1> HIDE DEF f
<1>9. Follows(f, S, s0, F)
  BY <1>6, <1>7, <1>8 DEF Follows
<1> QED BY <1>9

-----------------------------------------------------------------------------
(* Sums *)

\* What Sum computes: nothing of no numbers, and each number is added.
LEMMA SumIs ==
  ASSUME NEW f, NEW n \in Nat, \A k \in 1..n : f[k] \in Nat
  PROVE  /\ Pack!Sum(f, 0) = 0
         /\ \A k \in 0..n : Pack!Sum(f, k) \in Nat
         /\ \A k \in 1..n : Pack!Sum(f, k) = Pack!Sum(f, k-1) + f[k]
<1> DEFINE F == [k \in Nat |-> [x \in Nat |-> IF k < n THEN x + f[k+1] ELSE x]]
<1>1. 0 \in Nat /\ F \in [Nat -> [Nat -> Nat]]
  OBVIOUS
<1>2. \A k \in Nat, x \in Nat : F[k][x] = IF k < n THEN x + f[k+1] ELSE x
  OBVIOUS
<1> HIDE DEF F
<1>3. PICK h \in [Nat -> Nat] : h[0] = 0 /\ \A k \in Nat : h[k+1] = F[k][h[k]]
  <2>1. PICK h : Follows(h, Nat, 0, F)
    BY <1>1, Recursion
  <2> QED BY <2>1 DEF Follows
<1>4. ASSUME NEW k \in 1..n PROVE h[k] = h[k-1] + f[k]
  <2>1. k - 1 \in Nat /\ k - 1 < n /\ (k - 1) + 1 = k
    OBVIOUS
  <2>2. h[(k-1) + 1] = F[k - 1][h[k-1]]
    BY <1>3, <2>1
  <2>3. F[k-1][h[k-1]] = h[k-1] + f[(k-1) + 1]
    BY <1>2, <2>1
  <2> QED BY <2>1, <2>2, <2>3
<1>5. ASSUME NEW m \in 0..n PROVE Pack!Sum(f, m) = h[m]
  <2> DEFINE Def(g) == g = [k \in 0..m |-> IF k = 0 THEN 0 ELSE g[k-1] + f[k]]
             g0 == [k \in 0..m |-> h[k]]
  <2>1. Def(g0)
    <3>1. ASSUME NEW k \in 0..m PROVE g0[k] = IF k = 0 THEN 0 ELSE g0[k-1] + f[k]
      <4>1. CASE k = 0
        BY <1>3, <4>1
      <4>2. CASE k # 0
        <5>1. k \in 1..n /\ k - 1 \in 0..m
          BY <4>2
        <5> QED BY <1>4, <4>2, <5>1
      <4> QED BY <4>1, <4>2
    <3> QED BY <3>1
  <2> DEFINE s == CHOOSE g : Def(g)
  <2>2. Def(s)
    BY <2>1
  <2>3. Pack!Sum(f, m) = s[m]
    BY DEF Pack!Sum
  <2>4. \A k \in 0..m : s[k] = IF k = 0 THEN 0 ELSE s[k-1] + f[k]
    BY <2>2
  <2> HIDE DEF s
  <2> DEFINE A == {k \in Nat : s[k] = h[k]}
  <2>5. 0 \in A
    BY <1>3, <2>4
  <2>6. ASSUME NEW k \in 0 .. m-1, k \in A PROVE k + 1 \in A
    <3>1. k + 1 \in 1..n /\ k + 1 \in 0..m /\ (k + 1) - 1 = k
      OBVIOUS
    <3> QED BY <1>4, <2>4, <2>6, <3>1
  <2> HIDE DEF A
  <2>7. \A k \in 0..m : k \in A
    BY <2>5, <2>6, InductionTo
  <2> QED BY <2>3, <2>7 DEF A
<1> HIDE DEF F
<1>6. 0 \in 0..n /\ \A k \in 1..n : k \in 0..n /\ k - 1 \in 0..n
  OBVIOUS
<1>7. \A k \in 0..n : Pack!Sum(f, k) = h[k] /\ h[k] \in Nat
  BY <1>3, <1>5
<1> QED BY <1>3, <1>4, <1>6, <1>7

\* Sums of the same numbers are the same.
LEMMA SumSame ==
  ASSUME NEW n \in Nat, NEW f, NEW g, \A k \in 1..n : f[k] \in Nat /\ g[k] = f[k]
  PROVE  Pack!Sum(g, n) = Pack!Sum(f, n)
<1> DEFINE A == {k \in Nat : Pack!Sum(g, k) = Pack!Sum(f, k)}
<1>1. /\ Pack!Sum(f, 0) = 0 /\ Pack!Sum(g, 0) = 0
      /\ \A k \in 1..n : /\ Pack!Sum(f, k) = Pack!Sum(f, k-1) + f[k]
                         /\ Pack!Sum(g, k) = Pack!Sum(g, k-1) + g[k]
  BY SumIs
<1>2. 0 \in A
  BY <1>1
<1>3. ASSUME NEW k \in 0 .. n-1, k \in A PROVE k + 1 \in A
  <2>1. k + 1 \in 1..n /\ (k + 1) - 1 = k
    OBVIOUS
  <2> QED BY <1>1, <1>3, <2>1
<1> HIDE DEF A
<1>4. \A k \in 0..n : k \in A
  BY <1>2, <1>3, InductionTo
<1> QED BY <1>4 DEF A

\* The sum of what comes later
LEMMA SumAfter ==
  ASSUME NEW m \in Nat, NEW n \in Nat, NEW f, NEW g,
         \A k \in 1 .. m+n : f[k] \in Nat, \A k \in 1..n : g[k] = f[m + k]
  PROVE  Pack!Sum(f, m + n) = Pack!Sum(f, m) + Pack!Sum(g, n)
<1> DEFINE A == {k \in Nat : Pack!Sum(f, m + k) = Pack!Sum(f, m) + Pack!Sum(g, k)}
<1>1. /\ Pack!Sum(g, 0) = 0 /\ \A k \in 0..n : Pack!Sum(g, k) \in Nat
      /\ \A k \in 1..n : Pack!Sum(g, k) = Pack!Sum(g, k-1) + g[k]
  <2>1. \A k \in 1..n : g[k] \in Nat
    OBVIOUS
  <2> QED BY <2>1, SumIs
<1>2. /\ \A k \in 0 .. m+n : Pack!Sum(f, k) \in Nat
      /\ \A k \in 1 .. m+n : Pack!Sum(f, k) = Pack!Sum(f, k-1) + f[k]
  BY SumIs
<1>3. 0 \in A
  BY <1>1, <1>2
<1>4. ASSUME NEW k \in 0 .. n-1, k \in A PROVE k + 1 \in A
  <2>1. /\ k + 1 \in 1..n /\ (k + 1) - 1 = k /\ k \in 0..n
        /\ m + (k + 1) \in 1 .. m+n /\ (m + (k + 1)) - 1 = m + k
    OBVIOUS
  <2>2. /\ Pack!Sum(g, k+1) = Pack!Sum(g, k) + f[m + (k+1)]
        /\ Pack!Sum(f, m + (k+1)) = Pack!Sum(f, m + k) + f[m + (k+1)]
    BY <1>1, <1>2, <2>1
  <2>3. /\ Pack!Sum(g, k) \in Nat /\ Pack!Sum(f, m) \in Nat /\ f[m + (k+1)] \in Nat
    BY <1>1, <1>2, <2>1
  <2>4. Pack!Sum(f, m + k) = Pack!Sum(f, m) + Pack!Sum(g, k)
    BY <1>4
  <2>5. Pack!Sum(f, m + (k+1)) = Pack!Sum(f, m) + Pack!Sum(g, k+1)
    BY <2>2, <2>3, <2>4
  <2> QED BY <2>5
<1> HIDE DEF A
<1>5. \A k \in 0..n : k \in A
  BY <1>3, <1>4, InductionTo
<1> QED BY <1>5 DEF A

-----------------------------------------------------------------------------
(* Fields *)

Field == [isStatic : BOOLEAN, size : Nat \ {0}, min : Nat, max : Nat]
\* How many of the first k fields are dynamic, and their sizes together
Counted(fs, k) == Pack!Sum([i \in DOMAIN fs |-> IF fs[i].isStatic THEN 0 ELSE 1], k)
Sized(fs, k) == Pack!Sum([i \in DOMAIN fs |-> fs[i].size], k)

\* The counts of the dynamic fields grow by one at each of them.
LEMMA CountedIs ==
  ASSUME NEW fs \in Seq(Field)
  PROVE  /\ Counted(fs, 0) = 0 /\ \A k \in 0..Len(fs) : Counted(fs, k) \in Nat
         /\ \A k \in 1..Len(fs) : Counted(fs, k) = Counted(fs, k-1) + IF fs[k].isStatic THEN 0 ELSE 1
<1> DEFINE f == [i \in DOMAIN fs |-> IF fs[i].isStatic THEN 0 ELSE 1]
<1>1. \A k \in 1..Len(fs) : f[k] \in Nat /\ f[k] = IF fs[k].isStatic THEN 0 ELSE 1
  OBVIOUS
<1>2. \A k : Counted(fs, k) = Pack!Sum(f, k)
  BY DEF Counted
<1> HIDE DEF f
<1>3. Len(fs) \in Nat
  OBVIOUS
<1>4. /\ Pack!Sum(f, 0) = 0 /\ \A k \in 0..Len(fs) : Pack!Sum(f, k) \in Nat
      /\ \A k \in 1..Len(fs) : Pack!Sum(f, k) = Pack!Sum(f, k-1) + f[k]
  BY <1>1, <1>3, SumIs
<1> QED BY <1>1, <1>2, <1>4

\* The sums of the sizes grow by the size of each field.
LEMMA SizedIs ==
  ASSUME NEW fs \in Seq(Field)
  PROVE  /\ Sized(fs, 0) = 0 /\ \A k \in 0..Len(fs) : Sized(fs, k) \in Nat
         /\ \A k \in 1..Len(fs) : Sized(fs, k) = Sized(fs, k-1) + fs[k].size
<1> DEFINE f == [i \in DOMAIN fs |-> fs[i].size]
<1>1. \A k \in 1..Len(fs) : f[k] \in Nat /\ f[k] = fs[k].size
  <2>1. \A k \in 1..Len(fs) : k \in DOMAIN fs /\ fs[k] \in Field
    OBVIOUS
  <2> QED BY <2>1 DEF Field
<1>2. \A k : Sized(fs, k) = Pack!Sum(f, k)
  BY DEF Sized
<1> HIDE DEF f
<1>3. Len(fs) \in Nat
  OBVIOUS
<1>4. /\ Pack!Sum(f, 0) = 0 /\ \A k \in 0..Len(fs) : Pack!Sum(f, k) \in Nat
      /\ \A k \in 1..Len(fs) : Pack!Sum(f, k) = Pack!Sum(f, k-1) + f[k]
  BY <1>1, <1>3, SumIs
<1> QED BY <1>1, <1>2, <1>4

\* The fields before and behind a place
LEMMA PartOfFields ==
  ASSUME NEW fs \in Seq(Field), NEW m \in 0..Len(fs), NEW k \in m..Len(fs)
  PROVE  /\ SubSeq(fs, m+1, k) \in Seq(Field) /\ Len(SubSeq(fs, m+1, k)) = k - m
         /\ \A i \in 1 .. k-m : SubSeq(fs, m+1, k)[i] = fs[m+i]
         /\ Pack!Count(SubSeq(fs, m+1, k)) = Counted(fs, k) - Counted(fs, m)
         /\ Pack!SizeOfTypes(SubSeq(fs, m+1, k)) = Sized(fs, k) - Sized(fs, m)
<1> DEFINE g == SubSeq(fs, m+1, k)
           n == k - m
<1>1. n \in Nat /\ m \in Nat /\ m + n = k /\ k <= Len(fs) /\ Len(fs) \in Nat
  OBVIOUS
<1>2. g \in Seq(Field) /\ Len(g) = n /\ \A i \in 1..n : g[i] = fs[m+i]
  <2>1. m + 1 \in Nat /\ k \in Nat
    OBVIOUS
  <2> QED BY <2>1
<1> HIDE DEF g, n
<1> DEFINE c == [i \in DOMAIN fs |-> IF fs[i].isStatic THEN 0 ELSE 1]
           cg == [i \in DOMAIN g |-> IF g[i].isStatic THEN 0 ELSE 1]
           z == [i \in DOMAIN fs |-> fs[i].size]
           zg == [i \in DOMAIN g |-> g[i].size]
<1>3. \A i \in 1 .. m+n : c[i] \in Nat /\ z[i] \in Nat
  <2>1. \A i \in 1 .. m+n : i \in DOMAIN fs /\ fs[i] \in Field
    BY <1>1
  <2> QED BY <2>1 DEF Field
<1>4. \A i \in 1..n : cg[i] = c[m+i] /\ zg[i] = z[m+i]
  <2>1. \A i \in 1..n : i \in DOMAIN g /\ m+i \in DOMAIN fs
    BY <1>1, <1>2
  <2> QED BY <1>2, <2>1
<1>5. /\ Pack!Count(g) = Pack!Sum(cg, n) /\ Pack!SizeOfTypes(g) = Pack!Sum(zg, n)
      /\ \A j : Counted(fs, j) = Pack!Sum(c, j) /\ Sized(fs, j) = Pack!Sum(z, j)
  BY <1>2 DEF Counted, Sized, Pack!Count, Pack!SizeOfTypes
<1>6. \A i \in 1..n : cg[i] \in Nat /\ zg[i] \in Nat
  <2>1. \A i \in 1..n : m+i \in 1 .. m+n
    BY <1>1
  <2> HIDE DEF c, cg, z, zg
  <2> QED BY <1>3, <1>4, <2>1
<1> HIDE DEF c, cg, z, zg
<1>7. Pack!Sum(c, m + n) = Pack!Sum(c, m) + Pack!Sum(cg, n)
  BY <1>1, <1>3, <1>4, SumAfter
<1>8. Pack!Sum(z, m + n) = Pack!Sum(z, m) + Pack!Sum(zg, n)
  BY <1>1, <1>3, <1>4, SumAfter
<1>9. /\ Pack!Sum(cg, n) \in Nat /\ Pack!Sum(zg, n) \in Nat
  <2>1. n \in 0..n
    BY <1>1
  <2> QED BY <1>1, <1>6, <2>1, SumIs
<1>10. /\ Pack!Sum(c, m) \in Nat /\ Pack!Sum(z, m) \in Nat
  <2>1. m \in 0..m /\ \A i \in 1..m : c[i] \in Nat /\ z[i] \in Nat
    BY <1>1, <1>3
  <2> QED BY <1>1, <2>1, SumIs
<1>11. Pack!Count(g) = Counted(fs, k) - Counted(fs, m)
  <2> DEFINE x == Pack!Sum(c, m)
             y == Pack!Sum(cg, n)
  <2>1. Counted(fs, k) = x + y /\ Counted(fs, m) = x /\ Pack!Count(g) = y
    BY <1>1, <1>5, <1>7
  <2>2. x \in Nat /\ y \in Nat
    BY <1>9, <1>10
  <2> HIDE DEF x, y
  <2> QED BY <2>1, <2>2
<1>12. Pack!SizeOfTypes(g) = Sized(fs, k) - Sized(fs, m)
  <2> DEFINE x == Pack!Sum(z, m)
             y == Pack!Sum(zg, n)
  <2>1. Sized(fs, k) = x + y /\ Sized(fs, m) = x /\ Pack!SizeOfTypes(g) = y
    BY <1>1, <1>5, <1>8
  <2>2. x \in Nat /\ y \in Nat
    BY <1>9, <1>10
  <2> HIDE DEF x, y
  <2> QED BY <2>1, <2>2
<1> QED BY <1>2, <1>11, <1>12 DEF g, n

\* Counts do not get less, and stay while there are static fields only.
LEMMA CountedGrows ==
  ASSUME NEW fs \in Seq(Field), NEW j \in 0..Len(fs), NEW k \in j..Len(fs)
  PROVE  Counted(fs, j) <= Counted(fs, k)
<1> DEFINE A == {i \in Nat : Counted(fs, j) <= Counted(fs, j + i)}
           m == k - j
<1>1. m \in Nat /\ j \in Nat /\ j + m = k /\ k <= Len(fs) /\ Len(fs) \in Nat
  OBVIOUS
<1>2. 0 \in A
  BY CountedIs, <1>1
<1>3. ASSUME NEW i \in 0 .. m-1, i \in A PROVE i + 1 \in A
  <2>1. j + (i+1) \in 1..Len(fs) /\ (j + (i+1)) - 1 = j + i /\ j + i \in 0..Len(fs)
    BY <1>1
  <2>2. Counted(fs, j + i) <= Counted(fs, j + (i+1))
    BY <2>1, CountedIs
  <2> QED BY <1>1, <1>3, <2>1, <2>2, CountedIs
<1> HIDE DEF A
<1>4. \A i \in 0..m : i \in A
  BY <1>1, <1>2, <1>3, InductionTo
<1> QED BY <1>1, <1>4 DEF A

\* The elements of a field, and the bytes of the first k fields
Elems(fs, i, args) == IF fs[i].isStatic THEN 1 ELSE args[Counted(fs, i-1) + 1]
Off(fs, k, args) == Pack!Sum([i \in DOMAIN fs |-> fs[i].size * Elems(fs, i, args)], k)
Sizes(fs, args) == \A d \in 1..Counted(fs, Len(fs)) : args[d] \in Nat

\* A field has a number of elements.
LEMMA ElemsIs ==
  ASSUME NEW fs \in Seq(Field), NEW args, Sizes(fs, args), NEW i \in 1..Len(fs)
  PROVE  Elems(fs, i, args) \in Nat
<1>1. CASE fs[i].isStatic
  BY <1>1 DEF Elems
<1>2. CASE ~fs[i].isStatic
  <2>1. i - 1 \in 0..Len(fs) /\ Len(fs) \in i..Len(fs) /\ i \in 0..Len(fs)
    OBVIOUS
  <2>2. /\ Counted(fs, i) = Counted(fs, i-1) + 1 /\ Counted(fs, i-1) \in Nat
        /\ Counted(fs, i) <= Counted(fs, Len(fs)) /\ Counted(fs, Len(fs)) \in Nat
    BY <1>2, <2>1, CountedIs, CountedGrows
  <2>3. Counted(fs, i-1) + 1 \in 1..Counted(fs, Len(fs))
    BY <2>2
  <2> QED BY <1>2, <2>3 DEF Elems, Sizes
<1> QED BY <1>1, <1>2

\* The offsets of fields grow by what each field takes.
LEMMA OffIs ==
  ASSUME NEW fs \in Seq(Field), NEW args, Sizes(fs, args)
  PROVE  /\ Off(fs, 0, args) = 0 /\ \A k \in 0..Len(fs) : Off(fs, k, args) \in Nat
         /\ \A k \in 1..Len(fs) : Off(fs, k, args) = Off(fs, k-1, args) + fs[k].size * Elems(fs, k, args)
<1> DEFINE f == [i \in DOMAIN fs |-> fs[i].size * Elems(fs, i, args)]
<1>1. ASSUME NEW k \in 1..Len(fs) PROVE f[k] \in Nat /\ f[k] = fs[k].size * Elems(fs, k, args)
  <2>1. k \in DOMAIN fs /\ fs[k] \in Field
    OBVIOUS
  <2>2. fs[k].size \in Nat /\ Elems(fs, k, args) \in Nat
    BY <2>1, ElemsIs DEF Field
  <2>3. fs[k].size * Elems(fs, k, args) \in Nat
    BY <2>2
  <2> QED BY <2>1, <2>3
<1>2. \A k : Off(fs, k, args) = Pack!Sum(f, k)
  BY DEF Off
<1> HIDE DEF f
<1>3. Len(fs) \in Nat
  OBVIOUS
<1>4. /\ Pack!Sum(f, 0) = 0 /\ \A k \in 0..Len(fs) : Pack!Sum(f, k) \in Nat
      /\ \A k \in 1..Len(fs) : Pack!Sum(f, k) = Pack!Sum(f, k-1) + f[k]
  BY <1>1, <1>3, SumIs
<1> QED BY <1>1, <1>2, <1>4

\* The bytes of fields among which none is dynamic are their sizes.
LEMMA StaticBytes ==
  ASSUME NEW fs \in Seq(Field), NEW args, Sizes(fs, args),
         NEW j \in 0..Len(fs), NEW k \in j..Len(fs), Counted(fs, j) = Counted(fs, k)
  PROVE  Off(fs, k, args) - Off(fs, j, args) = Sized(fs, k) - Sized(fs, j)
<1> DEFINE A == {i \in Nat : Off(fs, j+i, args) - Off(fs, j, args) = Sized(fs, j+i) - Sized(fs, j)}
           m == k - j
<1>1. m \in Nat /\ j \in Nat /\ j + m = k /\ k <= Len(fs) /\ Len(fs) \in Nat
  OBVIOUS
<1>2. 0 \in A
  BY <1>1, OffIs, SizedIs
<1>3. ASSUME NEW i \in 0 .. m-1, i \in A PROVE i + 1 \in A
  <2> DEFINE l == j + (i+1)
  <2>1. l \in 1..Len(fs) /\ l - 1 = j + i /\ l-1 \in 0..Len(fs) /\ l-1 \in j..Len(fs) /\ k \in l..Len(fs) /\ l \in 0..Len(fs)
    BY <1>1
  <2> HIDE DEF l
  <2>2. Counted(fs, j) <= Counted(fs, l-1) /\ Counted(fs, l) <= Counted(fs, k)
    BY <2>1, CountedGrows
  <2>3. fs[l].isStatic
    BY <2>1, <2>2, CountedIs
  <2>4. fs[l].size \in Nat
    <3>1. fs[l] \in Field
      BY <2>1
    <3> QED BY <3>1 DEF Field
  <2>5. Off(fs, l, args) = Off(fs, l-1, args) + fs[l].size
    <3>1. Elems(fs, l, args) = 1
      BY <2>3 DEF Elems
    <3>2. fs[l].size * 1 = fs[l].size
      BY <2>4
    <3> QED BY <2>1, <3>1, <3>2, OffIs
  <2>6. Sized(fs, l) = Sized(fs, l-1) + fs[l].size
    BY <2>1, SizedIs
  <2>7. Off(fs, l-1, args) - Off(fs, j, args) = Sized(fs, l-1) - Sized(fs, j)
    BY <1>3, <2>1
  <2>8. /\ Off(fs, l-1, args) \in Nat /\ Off(fs, j, args) \in Nat /\ Sized(fs, l-1) \in Nat /\ Sized(fs, j) \in Nat
    BY <2>1, OffIs, SizedIs
  <2>9. Off(fs, l, args) - Off(fs, j, args) = Sized(fs, l) - Sized(fs, j)
    <3> DEFINE a == Off(fs, l-1, args)
               b == Off(fs, j, args)
               c == Sized(fs, l-1)
               d == Sized(fs, j)
               x == fs[l].size
    <3>1. a \in Nat /\ b \in Nat /\ c \in Nat /\ d \in Nat /\ x \in Nat /\ a - b = c - d
      BY <2>4, <2>7, <2>8
    <3>2. Off(fs, l, args) = a + x /\ Sized(fs, l) = c + x
      BY <2>5, <2>6
    <3> HIDE DEF a, b, c, d, x
    <3>3. (a + x) - b = (c + x) - d
      BY <3>1
    <3> QED BY <3>2, <3>3 DEF b, d
  <2> QED BY <2>9 DEF l
<1> HIDE DEF A
<1>4. \A i \in 0..m : i \in A
  BY <1>1, <1>2, <1>3, InductionTo
<1>5. m \in A
  BY <1>1, <1>4
<1> QED BY <1>1, <1>5 DEF A

\* StaticTailSize: the sizes behind the last dynamic field, the end of which is found
\* by the count of them.
LEMMA TailIs ==
  ASSUME NEW fs \in Seq(Field), NEW args, Sizes(fs, args),
         NEW n \in 0..Len(fs), Counted(fs, n) > 0
  PROVE  /\ Pack!StaticTailSize(SubSeq(fs, 1, n)) \in Int
         /\ \E e \in 1..n : /\ ~fs[e].isStatic /\ Counted(fs, e) = Counted(fs, n)
                            /\ Off(fs, n, args) = Off(fs, e, args) + Pack!StaticTailSize(SubSeq(fs, 1, n))
<1> DEFINE g == SubSeq(fs, 1, n)
<1>1. n \in Nat /\ n <= Len(fs) /\ Len(fs) \in Nat /\ Len(g) = n /\ n # 0 /\ g # <<>> /\ DOMAIN g = 1..n
  <2>1. 0 \in 0..Len(fs) /\ n \in 0..Len(fs) /\ n = n - 0 /\ 1 = 0 + 1
    OBVIOUS
  <2>2. g \in Seq(Field) /\ Len(g) = n
    BY <2>1, PartOfFields
  <2>3. n # 0
    BY CountedIs
  <2> QED BY <2>2, <2>3
<1>2. ASSUME NEW j \in 1..n
      PROVE  /\ Pack!Count(Pack!Suffix(g, j)) = Counted(fs, n) - Counted(fs, j)
             /\ Pack!SizeOfTypes(Pack!Suffix(g, j)) = Sized(fs, n) - Sized(fs, j)
  <2>1. Pack!Suffix(g, j) = SubSeq(fs, j+1, n)
    <3> DEFINE a == SubSeq(g, j+1, n)
               b == SubSeq(fs, j+1, n)
    <3>1. /\ 0 \in 0..Len(fs) /\ n \in 0..Len(fs) /\ n \in j..Len(fs) /\ j \in 0..Len(fs)
          /\ j \in Nat /\ j <= n
      BY <1>1
    <3>2. g \in Seq(Field) /\ \A i \in 1..n : g[i] = fs[i]
      BY <1>1, <3>1, PartOfFields
    <3>3. a \in Seq(Field) /\ Len(a) = n - j /\ \A i \in 1..n-j : a[i] = g[j+i]
      <4>1. g \in Seq(Field) /\ j \in 0..Len(g) /\ n \in j..Len(g)
        BY <1>1, <3>1, <3>2
      <4> HIDE DEF g
      <4>2. /\ SubSeq(g, j+1, n) \in Seq(Field) /\ Len(SubSeq(g, j+1, n)) = n - j
            /\ \A i \in 1 .. n-j : SubSeq(g, j+1, n)[i] = g[j+i]
        BY <4>1, PartOfFields
      <4> QED BY <4>2
    <3>4. b \in Seq(Field) /\ Len(b) = n - j /\ \A i \in 1..n-j : b[i] = fs[j+i]
      BY <3>1, PartOfFields
    <3> HIDE DEF a, b
    <3>5. \A i \in 1..n-j : a[i] = b[i]
      <4>1. \A i \in 1..n-j : j+i \in 1..n
        BY <1>1, <3>1
      <4> QED BY <3>2, <3>3, <3>4, <4>1
    <3>6. a = b
      BY <3>3, <3>4, <3>5
    <3> QED BY <1>1, <3>6 DEF a, b, Pack!Suffix
  <2>2. j \in 0..Len(fs) /\ n \in j..Len(fs)
    BY <1>1
  <2> QED BY <2>1, <2>2, PartOfFields
<1> DEFINE T == {j \in DOMAIN g : Pack!Count(Pack!Suffix(g, j)) = 0}
<1>3. T = {j \in 1..n : Counted(fs, j) = Counted(fs, n)}
  <2>1. \A j \in 1..n : Counted(fs, j) \in Nat /\ Counted(fs, n) \in Nat
    BY <1>1, CountedIs
  <2> QED BY <1>1, <1>2, <2>1
<1>4. n \in T /\ T \in SUBSET Nat
  BY <1>1, <1>3
<1>5. Pack!Min(T) \in T /\ \A y \in T : Pack!Min(T) <= y
  BY <1>4, Least DEF Pack!Min
<1> DEFINE e == Pack!Min(T)
<1>6. Pack!StaticTailSize(g) = Pack!SizeOfTypes(Pack!Suffix(g, e))
  BY <1>1 DEF Pack!StaticTailSize
<1> HIDE DEF e, T
<1>7. e \in 1..n /\ Counted(fs, e) = Counted(fs, n)
  BY <1>3, <1>5 DEF e
<1>8. ~fs[e].isStatic
  <2>1. SUFFICES ASSUME fs[e].isStatic PROVE FALSE
    OBVIOUS
  <2>2. Counted(fs, e-1) = Counted(fs, e)
    BY <1>1, <1>7, <2>1, CountedIs
  <2>3. CASE e = 1
    BY <1>7, <2>2, <2>3, CountedIs
  <2>4. CASE e # 1
    <3>1. e - 1 \in 1..n
      BY <1>7, <2>4
    <3>2. e - 1 \in T
      BY <1>3, <1>7, <2>2, <3>1
    <3> QED BY <1>5, <1>7, <3>2 DEF e
  <2> QED BY <2>3, <2>4
<1>9. Off(fs, n, args) - Off(fs, e, args) = Sized(fs, n) - Sized(fs, e)
  <2>1. e \in 0..Len(fs) /\ n \in e..Len(fs)
    BY <1>1, <1>7
  <2> QED BY <1>7, <2>1, StaticBytes
<1>10. Off(fs, n, args) \in Nat /\ Off(fs, e, args) \in Nat /\ Sized(fs, n) \in Nat /\ Sized(fs, e) \in Nat
  BY <1>1, <1>7, OffIs, SizedIs
<1>11. Pack!StaticTailSize(g) = Sized(fs, n) - Sized(fs, e)
  BY <1>2, <1>6, <1>7
<1>12. Off(fs, n, args) = Off(fs, e, args) + Pack!StaticTailSize(g)
  BY <1>9, <1>10, <1>11
<1> HIDE DEF g
<1>13. Pack!StaticTailSize(g) \in Int
  BY <1>10, <1>11
<1> QED BY <1>7, <1>8, <1>12, <1>13 DEF g

\* AccumVecPopulator finds the end of each dynamic field.
LEMMA AccumVecIs ==
  ASSUME NEW fs \in Seq(Field), fs = Ts, NEW args,
         NEW e \in 1..Len(fs), ~fs[e].isStatic
  PROVE  Pack!AccumVec(args)[Counted(fs, e)] = Off(fs, e, args)
<1> DEFINE d == Counted(fs, e)
           Is(i) == ~Ts[i].isStatic /\ Pack!Count(Pack!Prefix(i)) = d - 1
           c == CHOOSE i \in DOMAIN Ts : Is(i)
<1>1. DOMAIN Ts = 1..Len(fs) /\ Len(fs) \in Nat
  OBVIOUS
<1>2. ASSUME NEW i \in 1..Len(fs) PROVE Pack!Count(Pack!Prefix(i)) = Counted(fs, i-1)
  <2>1. 0 \in 0..Len(fs) /\ i-1 \in 0..Len(fs) /\ 1 = 0 + 1
    OBVIOUS
  <2>2. Pack!Count(SubSeq(fs, 1, i-1)) = Counted(fs, i-1) - Counted(fs, 0)
    BY <2>1, PartOfFields
  <2>3. Counted(fs, i-1) \in Nat /\ Counted(fs, 0) = 0
    BY <2>1, CountedIs
  <2> QED BY <2>2, <2>3 DEF Pack!Prefix
<1>3. d = Counted(fs, e-1) + 1 /\ d \in Nat /\ Counted(fs, e-1) \in Nat
  BY CountedIs
<1>4. Is(e)
  BY <1>2, <1>3
<1>5. c \in DOMAIN Ts /\ Is(c)
  BY <1>1, <1>4
<1> HIDE DEF c
<1>6. c \in 1..Len(fs) /\ ~fs[c].isStatic /\ Counted(fs, c-1) = Counted(fs, e-1)
  <2>1. c \in 1..Len(fs) /\ Pack!Count(Pack!Prefix(c)) = Counted(fs, c-1)
    BY <1>1, <1>2, <1>5
  <2> QED BY <1>3, <1>5, <2>1
<1>7. Counted(fs, c) = Counted(fs, c-1) + 1
  BY <1>6, CountedIs
<1>8. c = e
  <2>1. ASSUME c < e PROVE FALSE
    <3>1. c \in 0..Len(fs) /\ e-1 \in c..Len(fs)
      BY <1>6, <2>1
    <3>2. Counted(fs, c) <= Counted(fs, e-1)
      BY <3>1, CountedGrows
    <3> QED BY <1>3, <1>6, <1>7, <3>2
  <2>2. ASSUME e < c PROVE FALSE
    <3>1. e \in 0..Len(fs) /\ c-1 \in e..Len(fs)
      BY <1>6, <2>2
    <3>2. Counted(fs, e) <= Counted(fs, c-1)
      BY <3>1, CountedGrows
    <3> QED BY <1>3, <1>6, <1>7, <3>2
  <2> QED BY <1>6, <2>1, <2>2
<1>9. Pack!Count(Ts) = Counted(fs, Len(fs))
  BY DEF Pack!Count, Counted
<1>10. d \in 1..Pack!Count(Ts)
  <2>1. e \in 0..Len(fs) /\ Len(fs) \in e..Len(fs) /\ Len(fs) \in 0..Len(fs)
    OBVIOUS
  <2>2. d <= Counted(fs, Len(fs)) /\ Counted(fs, Len(fs)) \in Nat
    BY <2>1, CountedIs, CountedGrows
  <2> QED BY <1>3, <1>9, <2>2
<1>11. Pack!BytesUpTo(e, args) = Off(fs, e, args)
  <2> DEFINE f == [i \in DOMAIN Ts |-> Pack!Bytes(i, args)]
             g == [i \in DOMAIN fs |-> fs[i].size * Elems(fs, i, args)]
  <2>1. \A i \in DOMAIN Ts : f[i] = g[i]
    BY <1>1, <1>2 DEF Pack!Bytes, Pack!Elements, Elems
  <2>2. f = g
    BY <2>1
  <2> QED BY <2>2 DEF Pack!BytesUpTo, Off
<1>12. Pack!AccumVec(args)[d] = Pack!BytesUpTo(c, args)
  BY <1>10 DEF Pack!AccumVec, c
<1> QED BY <1>8, <1>11, <1>12

\* A vector has the end of each dynamic field.
Ends(fs, accum, args) == \A e \in 1..Len(fs) : ~fs[e].isStatic => accum[Counted(fs, e)] = Off(fs, e, args)

\* The model's operators, by those of this module
LEMMA PackIs ==
  ASSUME NEW fs \in Seq(Field), fs = Ts, NEW args, Sizes(fs, args),
         NEW accum, Counted(fs, Len(fs)) > 0 => Ends(fs, accum, args)
  PROVE  /\ Pack!Count(Ts) = Counted(fs, Len(fs))
         /\ \A i \in 1..Len(fs) : Pack!Elements(i, args) = Elems(fs, i, args)
         /\ Pack!AccumSize(args) = Off(fs, Len(fs), args)
         /\ \A i \in 1..Len(fs) : Pack!elemOffset(i, accum) = Off(fs, i-1, args)
         /\ Pack!Count(Ts) = 0 => \A i \in 1..Len(fs) : /\ Elems(fs, i, args) = 1
                                                        /\ Pack!ElemOffset(i) = Off(fs, i-1, args)
         /\ Pack!Count(Ts) = 0 => Pack!staticSize = Off(fs, Len(fs), args)
         /\ Pack!Count(Ts) > 0 => Pack!StaticTailSize(Ts) + accum[Pack!Count(Ts)] = Off(fs, Len(fs), args)
<1>1. DOMAIN Ts = 1..Len(fs) /\ Len(fs) \in Nat
  OBVIOUS
<1>2. ASSUME NEW i \in 1..Len(fs)
      PROVE  /\ Pack!Count(Pack!Prefix(i)) = Counted(fs, i-1)
             /\ Pack!ElemOffset(i) = Sized(fs, i-1)
  <2>1. 0 \in 0..Len(fs) /\ i-1 \in 0..Len(fs) /\ 1 = 0 + 1
    OBVIOUS
  <2>2. /\ Pack!Count(SubSeq(fs, 1, i-1)) = Counted(fs, i-1) - Counted(fs, 0)
        /\ Pack!SizeOfTypes(SubSeq(fs, 1, i-1)) = Sized(fs, i-1) - Sized(fs, 0)
    BY <2>1, PartOfFields
  <2>3. Counted(fs, i-1) \in Nat /\ Counted(fs, 0) = 0 /\ Sized(fs, i-1) \in Nat /\ Sized(fs, 0) = 0
    BY <2>1, CountedIs, SizedIs
  <2> QED BY <2>2, <2>3 DEF Pack!Prefix, Pack!ElemOffset
<1>3. Pack!Count(Ts) = Counted(fs, Len(fs)) /\ Pack!staticSize = Sized(fs, Len(fs))
  BY DEF Pack!Count, Counted, Sized, Pack!staticSize, Pack!SizeOfTypes
<1>4. \A i \in 1..Len(fs) : Pack!Elements(i, args) = Elems(fs, i, args)
  BY <1>2 DEF Pack!Elements, Elems
<1>5. Pack!AccumSize(args) = Off(fs, Len(fs), args)
  <2> DEFINE f == [i \in DOMAIN Ts |-> Pack!Bytes(i, args)]
             g == [i \in DOMAIN fs |-> fs[i].size * Elems(fs, i, args)]
  <2>1. \A i \in DOMAIN Ts : f[i] = g[i]
    BY <1>1, <1>4 DEF Pack!Bytes
  <2>2. f = g
    BY <2>1
  <2> QED BY <2>2 DEF Pack!BytesUpTo, Off, Pack!AccumSize
<1>6. ASSUME NEW k \in 0..Len(fs), Counted(fs, k) = 0
      PROVE  Off(fs, k, args) = Sized(fs, k)
  <2>1. 0 \in 0..Len(fs) /\ k \in 0..Len(fs) /\ Counted(fs, 0) = Counted(fs, k)
    BY <1>6, CountedIs
  <2>2. Off(fs, k, args) - Off(fs, 0, args) = Sized(fs, k) - Sized(fs, 0)
    BY <2>1, StaticBytes
  <2>3. /\ Off(fs, k, args) \in Nat /\ Off(fs, 0, args) = 0 /\ Sized(fs, k) \in Nat /\ Sized(fs, 0) = 0
    BY OffIs, SizedIs
  <2> QED BY <2>2, <2>3
<1>7. ASSUME NEW n \in 0..Len(fs), Counted(fs, n) > 0
      PROVE  accum[Counted(fs, n)] + Pack!StaticTailSize(SubSeq(fs, 1, n)) = Off(fs, n, args)
  <2>1. PICK e \in 1..n : /\ ~fs[e].isStatic /\ Counted(fs, e) = Counted(fs, n)
                          /\ Off(fs, n, args) = Off(fs, e, args) + Pack!StaticTailSize(SubSeq(fs, 1, n))
    BY <1>7, TailIs
  <2>2. e \in 1..Len(fs)
    OBVIOUS
  <2>4. Counted(fs, Len(fs)) > 0
    <3>1. n \in 0..Len(fs) /\ Len(fs) \in n..Len(fs) /\ Len(fs) \in 0..Len(fs)
      OBVIOUS
    <3> QED BY <1>7, <3>1, CountedIs, CountedGrows
  <2>3. accum[Counted(fs, e)] = Off(fs, e, args)
    BY <2>1, <2>2, <2>4 DEF Ends
  <2> QED BY <2>1, <2>3
<1>8. ASSUME NEW i \in 1..Len(fs)
      PROVE  Pack!elemOffset(i, accum) = Off(fs, i-1, args)
  <2>1. i-1 \in 0..Len(fs) /\ Counted(fs, i-1) \in Nat
    BY CountedIs
  <2>2. CASE Counted(fs, i-1) = 0
    BY <1>2, <1>6, <2>1, <2>2 DEF Pack!elemOffset
  <2>3. CASE Counted(fs, i-1) > 0
    BY <1>2, <1>7, <2>1, <2>3 DEF Pack!elemOffset, Pack!Prefix
  <2> QED BY <2>1, <2>2, <2>3
<1>9. ASSUME Pack!Count(Ts) = 0, NEW i \in 1..Len(fs)
      PROVE  /\ Elems(fs, i, args) = 1
             /\ Pack!ElemOffset(i) = Off(fs, i-1, args)
  <2>1. i-1 \in 0..Len(fs) /\ Len(fs) \in i-1..Len(fs) /\ Counted(fs, i-1) \in Nat /\ i \in 0..Len(fs) /\ Len(fs) \in i..Len(fs) /\ Counted(fs, i) \in Nat
    BY CountedIs
  <2>2. Counted(fs, i-1) = 0 /\ Counted(fs, i) = 0
    <3>1. Counted(fs, i-1) <= Counted(fs, Len(fs)) /\ Counted(fs, i) <= Counted(fs, Len(fs))
      BY <2>1, CountedGrows
    <3> QED BY <1>3, <1>9, <2>1, <3>1
  <2>3. fs[i].isStatic
    BY <2>2, CountedIs
  <2>4. Off(fs, i-1, args) = Sized(fs, i-1)
    BY <1>6, <2>1, <2>2
  <2> QED BY <1>2, <2>2, <2>3, <2>4 DEF Elems
<1>10. Pack!Count(Ts) = 0 => Pack!staticSize = Off(fs, Len(fs), args)
  <2>1. Len(fs) \in 0..Len(fs)
    OBVIOUS
  <2> QED BY <1>3, <1>6, <2>1
<1>11. ASSUME Pack!Count(Ts) > 0
       PROVE  Pack!StaticTailSize(Ts) + accum[Pack!Count(Ts)] = Off(fs, Len(fs), args)
  <2>1. Len(fs) \in 0..Len(fs) /\ Counted(fs, Len(fs)) > 0
    BY <1>3, <1>11
  <2>2. PICK e \in 1..Len(fs) : /\ ~fs[e].isStatic /\ Counted(fs, e) = Counted(fs, Len(fs))
                          /\ Off(fs, Len(fs), args) = Off(fs, e, args) + Pack!StaticTailSize(SubSeq(fs, 1, Len(fs)))
    BY <2>1, TailIs
  <2>3. SubSeq(fs, 1, Len(fs)) = Ts
    BY <1>1
  <2>4. accum[Counted(fs, e)] = Off(fs, e, args) /\ Off(fs, e, args) \in Nat /\ Off(fs, Len(fs), args) \in Nat
    BY <2>1, <2>2, OffIs DEF Ends
  <2> DEFINE tail == Pack!StaticTailSize(Ts)
  <2>5. tail \in Int
    BY <2>1, <2>3, TailIs
  <2>6. Off(fs, Len(fs), args) = Off(fs, e, args) + tail
    BY <2>2, <2>3
  <2> HIDE DEF tail
  <2>7. accum[Pack!Count(Ts)] = Off(fs, e, args)
    BY <1>3, <2>2, <2>4
  <2> QED BY <2>4, <2>5, <2>6, <2>7 DEF tail
<1> QED BY <1>3, <1>4, <1>5, <1>8, <1>9, <1>10, <1>11

-----------------------------------------------------------------------------
(* Places *)

Start(fs, i, e, args) == Off(fs, i-1, args) + fs[i].size * e
Places(fs, i, e, args) == Start(fs, i, e, args) .. Start(fs, i, e, args) + fs[i].size - 1

\* A later field is not at a smaller offset.
LEMMA OffGrows ==
  ASSUME NEW fs \in Seq(Field), NEW args, Sizes(fs, args), NEW j \in 0..Len(fs), NEW k \in j..Len(fs)
  PROVE  Off(fs, j, args) <= Off(fs, k, args)
<1> DEFINE A == {i \in Nat : Off(fs, j, args) <= Off(fs, j + i, args)}
           m == k - j
<1>1. m \in Nat /\ j \in Nat /\ j + m = k /\ k <= Len(fs) /\ Len(fs) \in Nat
  OBVIOUS
<1>2. 0 \in A
  BY OffIs, <1>1
<1>3. ASSUME NEW i \in 0 .. m-1, i \in A PROVE i + 1 \in A
  <2> DEFINE l == j + (i+1)
  <2>1. l \in 1..Len(fs) /\ l - 1 = j + i /\ l-1 \in 0..Len(fs) /\ l \in 0..Len(fs)
    BY <1>1
  <2> HIDE DEF l
  <2>2. fs[l].size \in Nat /\ Elems(fs, l, args) \in Nat
    <3>1. fs[l] \in Field
      BY <2>1
    <3> QED BY <2>1, <3>1, ElemsIs DEF Field
  <2>3. fs[l].size * Elems(fs, l, args) \in Nat
    BY <2>2
  <2>4. Off(fs, l, args) = Off(fs, l-1, args) + fs[l].size * Elems(fs, l, args)
    BY <2>1, OffIs
  <2>5. Off(fs, j, args) <= Off(fs, l-1, args)
    BY <1>3, <2>1
  <2>6. Off(fs, j, args) \in Nat /\ Off(fs, l-1, args) \in Nat
    BY <2>1, OffIs
  <2> DEFINE a == Off(fs, l-1, args)
             b == Off(fs, j, args)
             c == fs[l].size * Elems(fs, l, args)
  <2>7. a \in Nat /\ b \in Nat /\ c \in Nat /\ b <= a /\ Off(fs, l, args) = a + c
    BY <2>3, <2>4, <2>5, <2>6
  <2> HIDE DEF a, b, c
  <2>8. b <= Off(fs, l, args)
    BY <2>7
  <2> QED BY <2>8 DEF b, l
<1> HIDE DEF A
<1>4. \A i \in 0..m : i \in A
  BY <1>1, <1>2, <1>3, InductionTo
<1>5. m \in A
  BY <1>1, <1>4
<1> QED BY <1>1, <1>5 DEF A

\* An element is inside its field.
LEMMA StartIs ==
  ASSUME NEW fs \in Seq(Field), NEW args, Sizes(fs, args), NEW i \in 1..Len(fs), NEW e \in Nat, e < Elems(fs, i, args)
  PROVE  /\ Start(fs, i, e, args) \in Nat /\ fs[i].size \in Nat \ {0}
         /\ Off(fs, i-1, args) <= Start(fs, i, e, args)
         /\ Start(fs, i, e, args) + fs[i].size <= Off(fs, i, args)
<1> DEFINE a == Off(fs, i-1, args)
           z == fs[i].size
           n == Elems(fs, i, args)
<1>1. a \in Nat /\ z \in Nat \ {0} /\ n \in Nat /\ e \in Nat /\ e < n
  <2>1. i-1 \in 0..Len(fs) /\ fs[i] \in Field
    OBVIOUS
  <2> QED BY <2>1, OffIs, ElemsIs DEF Field
<1>2. Off(fs, i, args) = a + z * n /\ Start(fs, i, e, args) = a + z * e
  BY OffIs DEF Start
<1> HIDE DEF a, z, n
<1>3. z * e \in Nat /\ z * e + z <= z * n
  <2>1. z * (e + 1) <= z * n
    BY <1>1
  <2>2. z * (e + 1) = z * e + z
    BY <1>1
  <2> QED BY <1>1, <2>1, <2>2
<1>4. z * n \in Nat
  BY <1>1
<1>5. a + z * e \in Nat /\ a <= a + z * e /\ (a + z * e) + z <= a + z * n
  BY <1>1, <1>3, <1>4
<1> QED BY <1>1, <1>2, <1>5 DEF a, z

\* Every element of a field lies inside the data.
LEMMA PlacesInside ==
  ASSUME NEW fs \in Seq(Field), NEW args, Sizes(fs, args), NEW i \in 1..Len(fs), NEW e \in Nat, e < Elems(fs, i, args)
  PROVE  Places(fs, i, e, args) \subseteq 0 .. Off(fs, Len(fs), args) - 1
<1>1. i \in 0..Len(fs) /\ Len(fs) \in i..Len(fs) /\ Len(fs) \in 0..Len(fs)
  OBVIOUS
<1>2. Off(fs, i, args) <= Off(fs, Len(fs), args) /\ Off(fs, i, args) \in Nat /\ Off(fs, Len(fs), args) \in Nat
  BY <1>1, OffGrows, OffIs
<1>3. /\ Start(fs, i, e, args) \in Nat /\ fs[i].size \in Nat
      /\ Start(fs, i, e, args) + fs[i].size <= Off(fs, i, args)
  BY StartIs
<1> QED BY <1>2, <1>3 DEF Places

\* No byte belongs to two elements.
LEMMA PlacesApart ==
  ASSUME NEW fs \in Seq(Field), NEW args, Sizes(fs, args),
         NEW i \in 1..Len(fs), NEW e \in Nat, e < Elems(fs, i, args),
         NEW j \in 1..Len(fs), NEW f \in Nat, f < Elems(fs, j, args),
         NEW b \in Places(fs, i, e, args), b \in Places(fs, j, f, args)
  PROVE  i = j /\ e = f
<1>1. /\ Start(fs, i, e, args) \in Nat /\ fs[i].size \in Nat \ {0} /\ Off(fs, i-1, args) <= Start(fs, i, e, args)
      /\ Start(fs, i, e, args) + fs[i].size <= Off(fs, i, args)
      /\ Start(fs, j, f, args) \in Nat /\ fs[j].size \in Nat \ {0} /\ Off(fs, j-1, args) <= Start(fs, j, f, args)
      /\ Start(fs, j, f, args) + fs[j].size <= Off(fs, j, args)
  BY StartIs
<1>2. /\ b \in Int /\ Start(fs, i, e, args) <= b /\ b < Start(fs, i, e, args) + fs[i].size
      /\ Start(fs, j, f, args) <= b /\ b < Start(fs, j, f, args) + fs[j].size
  <2>1. \A a, z \in Nat : \A x \in a .. a + z - 1 : x \in Int /\ a <= x /\ x < a + z
    OBVIOUS
  <2>2. fs[i].size \in Nat /\ fs[j].size \in Nat
    BY <1>1
  <2>3. b \in Int /\ Start(fs, i, e, args) <= b /\ b < Start(fs, i, e, args) + fs[i].size
    BY <1>1, <2>1, <2>2 DEF Places
  <2>4. Start(fs, j, f, args) <= b /\ b < Start(fs, j, f, args) + fs[j].size
    BY <1>1, <2>1, <2>2 DEF Places
  <2> QED BY <2>3, <2>4
<1>3. /\ i \in 0..Len(fs) /\ i-1 \in 0..Len(fs) /\ j \in 0..Len(fs) /\ j-1 \in 0..Len(fs)
  OBVIOUS
<1>4. /\ Off(fs, i, args) \in Nat /\ Off(fs, i-1, args) \in Nat /\ Off(fs, j, args) \in Nat /\ Off(fs, j-1, args) \in Nat
  BY <1>3, OffIs
<1>5. /\ Off(fs, i-1, args) <= b /\ b < Off(fs, i, args) /\ Off(fs, j-1, args) <= b /\ b < Off(fs, j, args)
  <2> DEFINE si == Start(fs, i, e, args)
             sj == Start(fs, j, f, args)
             zi == fs[i].size
             zj == fs[j].size
             oi == Off(fs, i, args)
             oj == Off(fs, j, args)
             pi == Off(fs, i-1, args)
             pj == Off(fs, j-1, args)
  <2>1. /\ si \in Nat /\ sj \in Nat /\ zi \in Nat /\ zj \in Nat /\ oi \in Nat /\ oj \in Nat /\ pi \in Nat /\ pj \in Nat
        /\ pi <= si /\ si + zi <= oi /\ pj <= sj /\ sj + zj <= oj
        /\ b \in Int /\ si <= b /\ b < si + zi /\ sj <= b /\ b < sj + zj
    BY <1>1, <1>2, <1>4
  <2> HIDE DEF si, sj, zi, zj, oi, oj, pi, pj
  <2>2. pi <= b /\ b < oi /\ pj <= b /\ b < oj
    BY <2>1
  <2> QED BY <2>2 DEF oi, oj, pi, pj
<1>6. i = j
  <2>1. ASSUME i < j PROVE FALSE
    <3>1. j-1 \in i..Len(fs)
      BY <1>3, <2>1
    <3>2. Off(fs, i, args) <= Off(fs, j-1, args)
      BY <1>3, <3>1, OffGrows
    <3> QED BY <1>2, <1>4, <1>5, <3>2
  <2>2. ASSUME j < i PROVE FALSE
    <3>1. i-1 \in j..Len(fs)
      BY <1>3, <2>2
    <3>2. Off(fs, j, args) <= Off(fs, i-1, args)
      BY <1>3, <3>1, OffGrows
    <3> QED BY <1>2, <1>4, <1>5, <3>2
  <2> QED BY <2>1, <2>2
<1>7. e = f
  <2> DEFINE a == Off(fs, i-1, args)
             z == fs[i].size
  <2>1. /\ a \in Nat /\ z \in Nat \ {0} /\ e \in Nat /\ f \in Nat /\ b \in Int
        /\ a + z * e <= b /\ b < (a + z * e) + z /\ a + z * f <= b /\ b < (a + z * f) + z
    BY <1>1, <1>2, <1>4, <1>6 DEF Start
  <2> HIDE DEF a, z
  <2>2. ASSUME NEW x \in Nat, NEW y \in Nat, x < y, a + z * y <= b, b < (a + z * x) + z PROVE FALSE
    <3>1. z * (x + 1) <= z * y
      BY <2>1, <2>2
    <3>2. z * (x + 1) = z * x + z
      BY <2>1
    <3>3. z * x \in Nat /\ z * y \in Nat
      BY <2>1
    <3> QED BY <2>1, <2>2, <3>1, <3>2, <3>3
  <2> QED BY <2>1, <2>2
<1> QED BY <1>6, <1>7

\* Every byte belongs to an element.
LEMMA PlacesCover ==
  ASSUME NEW fs \in Seq(Field), NEW args, Sizes(fs, args), NEW b \in 0 .. Off(fs, Len(fs), args) - 1
  PROVE  \E i \in 1..Len(fs), e \in Nat : e < Elems(fs, i, args) /\ b \in Places(fs, i, e, args)
<1> DEFINE T == {k \in Nat : k <= Len(fs) /\ b < Off(fs, k, args)}
<1>1. Len(fs) \in Nat /\ Off(fs, Len(fs), args) \in Nat
  <2>1. Len(fs) \in 0..Len(fs)
    OBVIOUS
  <2> QED BY <2>1, OffIs
<1>2. b \in Nat /\ b < Off(fs, Len(fs), args)
  BY <1>1
<1>3. T \in SUBSET Nat /\ T # {}
  BY <1>1, <1>2
<1>4. PICK i \in T : \A y \in T : i <= y
  BY <1>3, Least
<1>5. i # 0
  BY <1>2, <1>4, OffIs
<1>6. i \in 1..Len(fs) /\ i-1 \in 0..Len(fs) /\ i-1 \in Nat /\ i-1 \notin T
  BY <1>1, <1>4, <1>5
<1> DEFINE a == Off(fs, i-1, args)
           z == fs[i].size
           n == Elems(fs, i, args)
           e == (b - a) \div z
<1>7. a \in Nat /\ z \in Nat \ {0} /\ n \in Nat
  <2>1. fs[i] \in Field
    BY <1>6
  <2> QED BY <1>6, <2>1, OffIs, ElemsIs DEF Field
<1>8. Off(fs, i, args) = a + z * n
  BY <1>6, OffIs
<1>9. a <= b
  BY <1>2, <1>6, <1>7
<1>10. b < a + z * n
  BY <1>4, <1>8
<1> HIDE DEF a, z, n, T
<1>11. e \in Nat /\ z * e <= b - a /\ b - a < z * e + z
  <2> DEFINE x == b - a
  <2>1. x \in Nat
    BY <1>2, <1>7, <1>9
  <2> HIDE DEF x
  <2>2. x \div z \in Nat /\ z * (x \div z) <= x /\ x < z * (x \div z) + z
    BY <1>7, <2>1
  <2> QED BY <2>2 DEF x
<1> HIDE DEF e
<1>12. e < n
  <2>1. SUFFICES ASSUME n <= e PROVE FALSE
    BY <1>7, <1>11
  <2>2. z * n <= z * e
    BY <1>7, <1>11, <2>1
  <2>3. z * n \in Nat /\ z * e \in Nat
    BY <1>7, <1>11
  <2> QED BY <1>2, <1>7, <1>10, <1>11, <2>2, <2>3
<1>13. b \in (a + z * e) .. (a + z * e) + z - 1
  <2>1. z * e \in Nat
    BY <1>7, <1>11
  <2> QED BY <1>2, <1>7, <1>11, <2>1
<1>14. b \in Places(fs, i, e, args) /\ e < Elems(fs, i, args)
  BY <1>12, <1>13 DEF Places, Start, a, z, n
<1> QED BY <1>6, <1>11, <1>14

-----------------------------------------------------------------------------
(* Packed structures *)

\* Bytes d hold the elements w, and nothing else, when the sizes are args.
Holds(fs, d, args, w) ==
    /\ Sizes(fs, args)
    /\ DOMAIN d = 0 .. Off(fs, Len(fs), args) - 1
    /\ \A x \in w : \E i \in 1..Len(fs), e \in Nat : e < Elems(fs, i, args) /\ x = <<i, e>>
    /\ \A i \in 1..Len(fs), e \in Nat : e < Elems(fs, i, args) =>
         \A b \in Places(fs, i, e, args) : d[b] = IF <<i, e>> \in w THEN <<i, e>> ELSE Pack!Raw

\* New data holds nothing yet.
LEMMA HoldsNew ==
  ASSUME NEW fs \in Seq(Field), NEW args, Sizes(fs, args)
  PROVE  Holds(fs, [b \in 0 .. Off(fs, Len(fs), args) - 1 |-> Pack!Raw], args, {})
  BY PlacesInside DEF Holds

\* Writing an element keeps the others.
LEMMA HoldsSet ==
  ASSUME NEW fs \in Seq(Field), NEW d, NEW args, NEW w, Holds(fs, d, args, w),
         NEW i \in 1..Len(fs), NEW e \in Nat, e < Elems(fs, i, args),
         NEW g, DOMAIN g = DOMAIN d \cup Places(fs, i, e, args),
         \A b \in DOMAIN g : g[b] = IF b \in Places(fs, i, e, args) THEN <<i, e>> ELSE d[b]
  PROVE  Holds(fs, g, args, w \cup {<<i, e>>})
<1> DEFINE v == w \cup {<<i, e>>}
<1>1. Sizes(fs, args) /\ DOMAIN d = 0 .. Off(fs, Len(fs), args) - 1
  BY DEF Holds
<1>2. Places(fs, i, e, args) \subseteq DOMAIN d
  BY <1>1, PlacesInside
<1>3. DOMAIN g = 0 .. Off(fs, Len(fs), args) - 1
  BY <1>1, <1>2
<1>4. \A x \in v : \E j \in 1..Len(fs), f \in Nat : f < Elems(fs, j, args) /\ x = <<j, f>>
  BY DEF Holds
<1>5. ASSUME NEW j \in 1..Len(fs), NEW f \in Nat, f < Elems(fs, j, args),
             NEW b \in Places(fs, j, f, args)
      PROVE  g[b] = IF <<j, f>> \in v THEN <<j, f>> ELSE Pack!Raw
  <2>1. b \in DOMAIN d
    BY <1>1, <1>5, PlacesInside
  <2>2. CASE j = i /\ f = e
    <3>1. b \in Places(fs, i, e, args)
      BY <2>2
    <3> QED BY <2>2, <3>1
  <2>3. CASE ~(j = i /\ f = e)
    <3>1. b \notin Places(fs, i, e, args)
      BY <1>1, <1>5, <2>3, PlacesApart
    <3>2. g[b] = d[b]
      BY <2>1, <3>1
    <3>3. d[b] = IF <<j, f>> \in w THEN <<j, f>> ELSE Pack!Raw
      BY <1>5 DEF Holds
    <3>4. <<j, f>> \in v <=> <<j, f>> \in w
      <4>1. <<j, f>> # <<i, e>>
        BY <2>3
      <4> QED BY <4>1
    <3> HIDE DEF v
    <3> QED BY <3>2, <3>3, <3>4
  <2> QED BY <2>2, <2>3
<1> HIDE DEF v
<1>6. Holds(fs, g, args, v)
  BY <1>1, <1>3, <1>4, <1>5 DEF Holds
<1> QED BY <1>6 DEF v

\* Of static fields alone the sizes do not matter.
LEMMA HoldsStatic ==
  ASSUME NEW fs \in Seq(Field), NEW d, NEW args, NEW w, Holds(fs, d, args, w), Counted(fs, Len(fs)) = 0
  PROVE  Holds(fs, d, <<>>, w)
<1>1. Sizes(fs, args) /\ Sizes(fs, <<>>)
  BY DEF Holds, Sizes
<1>2. ASSUME NEW i \in 1..Len(fs) PROVE fs[i].isStatic
  <2>1. i-1 \in 0..Len(fs) /\ i \in 0..Len(fs) /\ Len(fs) \in i..Len(fs) /\ Len(fs) \in i-1..Len(fs)
    OBVIOUS
  <2>2. Counted(fs, i-1) = 0 /\ Counted(fs, i) = 0
    BY <2>1, CountedIs, CountedGrows
  <2> QED BY <2>2, CountedIs
<1>3. \A i \in 1..Len(fs) : Elems(fs, i, args) = 1 /\ Elems(fs, i, <<>>) = 1
  BY <1>2 DEF Elems
<1>4. \A k : Off(fs, k, args) = Off(fs, k, <<>>)
  <2> DEFINE f == [i \in DOMAIN fs |-> fs[i].size * Elems(fs, i, args)]
             g == [i \in DOMAIN fs |-> fs[i].size * Elems(fs, i, <<>>)]
  <2>1. \A i \in DOMAIN fs : Elems(fs, i, args) = Elems(fs, i, <<>>)
    BY <1>3
  <2>2. f = g
    BY <2>1
  <2> QED BY <2>2 DEF Off
<1>5. \A i, e : Places(fs, i, e, args) = Places(fs, i, e, <<>>)
  BY <1>4 DEF Places, Start
<1> QED BY <1>1, <1>3, <1>4, <1>5 DEF Holds

\* A copy holds what the original holds.
LEMMA HoldsCopy ==
  ASSUME NEW fs \in Seq(Field), NEW d, NEW args, NEW w, Holds(fs, d, args, w)
  PROVE  Holds(fs, [b \in 0 .. Off(fs, Len(fs), args) - 1 |-> d[b]], args, w)
<1> DEFINE g == [b \in 0 .. Off(fs, Len(fs), args) - 1 |-> d[b]]
<1>1. Sizes(fs, args)
  BY DEF Holds
<1>2. ASSUME NEW j \in 1..Len(fs), NEW f \in Nat, f < Elems(fs, j, args),
             NEW b \in Places(fs, j, f, args)
      PROVE  g[b] = d[b]
  BY <1>1, <1>2, PlacesInside
<1>3. DOMAIN g = 0 .. Off(fs, Len(fs), args) - 1
  OBVIOUS
<1> HIDE DEF g
<1>4. Holds(fs, g, args, w)
  BY <1>2, <1>3 DEF Holds
<1> QED BY <1>4 DEF g

\* Structures of the same sizes have the same bytes when they have the same elements.
LEMMA HoldsEqual ==
  ASSUME NEW fs \in Seq(Field), NEW d, NEW c, NEW args, NEW w, NEW v,
         Holds(fs, d, args, w), Holds(fs, c, args, v)
  PROVE  (\A b \in 0 .. Off(fs, Len(fs), args) - 1 : d[b] = c[b]) <=> w = v
<1>1. Sizes(fs, args)
  BY DEF Holds
<1>2. ASSUME w = v, NEW b \in 0 .. Off(fs, Len(fs), args) - 1 PROVE d[b] = c[b]
  <2>1. PICK i \in 1..Len(fs), e \in Nat : e < Elems(fs, i, args) /\ b \in Places(fs, i, e, args)
    BY <1>1, PlacesCover
  <2>2. /\ d[b] = IF <<i, e>> \in w THEN <<i, e>> ELSE Pack!Raw
        /\ c[b] = IF <<i, e>> \in v THEN <<i, e>> ELSE Pack!Raw
    BY <2>1 DEF Holds
  <2> QED BY <1>2, <2>2
<1>3. ASSUME \A b \in 0 .. Off(fs, Len(fs), args) - 1 : d[b] = c[b]
      PROVE  \A x : x \in w <=> x \in v
  <2>1. ASSUME NEW i \in 1..Len(fs), NEW e \in Nat, e < Elems(fs, i, args)
        PROVE  <<i, e>> \in w <=> <<i, e>> \in v
    <3> DEFINE b == Start(fs, i, e, args)
    <3>1. b \in Places(fs, i, e, args)
      <4>1. b \in Nat /\ fs[i].size \in Nat \ {0}
        BY <1>1, <2>1, StartIs
      <4> QED BY <4>1 DEF Places
    <3>2. d[b] = c[b]
      BY <1>1, <1>3, <2>1, <3>1, PlacesInside
    <3>3. /\ d[b] = IF <<i, e>> \in w THEN <<i, e>> ELSE Pack!Raw
          /\ c[b] = IF <<i, e>> \in v THEN <<i, e>> ELSE Pack!Raw
      BY <2>1, <3>1 DEF Holds
    <3>4. <<i, e>> # Pack!Raw
      BY DEF Pack!Raw
    <3> DEFINE x == <<i, e>>
    <3> HIDE DEF b, x
    <3>5. CASE x \in w /\ x \notin v
      BY <3>2, <3>3, <3>4, <3>5 DEF x
    <3>6. CASE x \notin w /\ x \in v
      BY <3>2, <3>3, <3>4, <3>6 DEF x
    <3> QED BY <3>5, <3>6 DEF x
  <2> QED BY <2>1 DEF Holds
<1>4. ASSUME \A x : x \in w <=> x \in v PROVE w = v
  BY <1>4
<1> QED BY <1>2, <1>3, <1>4

-----------------------------------------------------------------------------
(* The inductive invariant of packed structures *)

PackInv ==
    /\ Ts \in Seq(Field)
    /\ DOMAIN m_data = Structs /\ DOMAIN m_sizes = Structs /\ DOMAIN sizes = Structs /\ DOMAIN written = Structs
    /\ \A s \in Structs : m_data[s] # Pack!NoData =>
         /\ Holds(Ts, m_data[s], sizes[s], written[s])
         /\ Counted(Ts, Len(Ts)) > 0 => Ends(Ts, m_sizes[s], sizes[s])

\* There are no data at the start.
LEMMA PackInit == Pack!Init => PackInv
<1>1. SUFFICES ASSUME Pack!Init PROVE PackInv
  OBVIOUS
<1>2. Ts \in Seq(Field)
  BY <1>1, FieldAssumption DEF Pack!Init, Field
<1> QED BY <1>1, <1>2 DEF Pack!Init, PackInv

\* What is true of every structure in PackInv
LEMMA LivingIs ==
  ASSUME PackInv, NEW s \in Structs, m_data[s] # Pack!NoData
  PROVE  /\ Sizes(Ts, sizes[s])
         /\ Pack!size(s) = Off(Ts, Len(Ts), sizes[s])
         /\ \A i \in 1..Len(Ts), e \in Nat : Pack!Place(s, i, e) = Places(Ts, i, e, sizes[s])
         /\ \A i \in 1..Len(Ts) : Pack!Elements(i, sizes[s]) = Elems(Ts, i, sizes[s])
<1>1. /\ Ts \in Seq(Field) /\ Sizes(Ts, sizes[s])
      /\ Counted(Ts, Len(Ts)) > 0 => Ends(Ts, m_sizes[s], sizes[s])
  BY DEF PackInv, Holds
<1>2. Pack!Count(Ts) \in Nat
  <2>1. Len(Ts) \in 0..Len(Ts)
    BY <1>1
  <2>2. Pack!Count(Ts) = Counted(Ts, Len(Ts))
    BY <1>1, PackIs
  <2> QED BY <1>1, <2>1, <2>2, CountedIs
<1>3. /\ \A i \in 1..Len(Ts) : Pack!Elements(i, sizes[s]) = Elems(Ts, i, sizes[s])
      /\ \A i \in 1..Len(Ts) : Pack!elemOffset(i, m_sizes[s]) = Off(Ts, i-1, sizes[s])
      /\ Pack!Count(Ts) = 0 => Pack!staticSize = Off(Ts, Len(Ts), sizes[s])
      /\ Pack!Count(Ts) > 0 => Pack!StaticTailSize(Ts) + m_sizes[s][Pack!Count(Ts)] = Off(Ts, Len(Ts), sizes[s])
  BY <1>1, PackIs
<1>4. Pack!size(s) = Off(Ts, Len(Ts), sizes[s])
  BY <1>2, <1>3 DEF Pack!size
<1> QED BY <1>1, <1>3, <1>4 DEF Pack!Place, Places, Start

\* Whatever gives a structure new data keeps the invariant when they hold what was written.
LEMMA BecomesStep ==
  ASSUME PackInv, NEW s \in Structs, NEW d, NEW accum, NEW args, NEW w,
         Pack!Becomes(s, d, accum, args, w),
         Holds(Ts, d, args, w), Counted(Ts, Len(Ts)) > 0 => Ends(Ts, accum, args)
  PROVE  PackInv'
<1>1. /\ Ts' = Ts /\ m_data' = [m_data EXCEPT ![s] = d] /\ m_sizes' = [m_sizes EXCEPT ![s] = accum]
      /\ sizes' = [sizes EXCEPT ![s] = args] /\ written' = [written EXCEPT ![s] = w]
  BY DEF Pack!Becomes
<1>2. /\ Ts' \in Seq(Field)
      /\ DOMAIN m_data' = Structs /\ DOMAIN m_sizes' = Structs /\ DOMAIN sizes' = Structs /\ DOMAIN written' = Structs
  BY <1>1 DEF PackInv
<1>3. ASSUME NEW t \in Structs, m_data'[t] # Pack!NoData
      PROVE  /\ Holds(Ts, m_data'[t], sizes'[t], written'[t])
             /\ Counted(Ts, Len(Ts)) > 0 => Ends(Ts, m_sizes'[t], sizes'[t])
  <2>1. CASE t = s
    <3>1. m_data'[t] = d /\ sizes'[t] = args /\ written'[t] = w /\ m_sizes'[t] = accum
      BY <1>1, <2>1 DEF PackInv
    <3> QED BY <3>1
  <2>2. CASE t # s
    <3>1. m_data'[t] = m_data[t] /\ sizes'[t] = sizes[t] /\ written'[t] = written[t] /\ m_sizes'[t] = m_sizes[t]
      BY <1>1, <2>2 DEF PackInv
    <3> QED BY <1>3, <3>1 DEF PackInv
  <2> QED BY <2>1, <2>2
<1> QED BY <1>1, <1>2, <1>3 DEF PackInv

\* Every operation on packed structures keeps the invariant.
LEMMA PackStep == PackInv /\ Pack!Next => PackInv'
<1> SUFFICES ASSUME PackInv, Pack!Next PROVE PackInv'
  OBVIOUS
<1>1. /\ Ts \in Seq(Field) /\ DOMAIN Ts = 1..Len(Ts) /\ Len(Ts) \in Nat
      /\ Pack!Count(Ts) = Counted(Ts, Len(Ts)) /\ Counted(Ts, Len(Ts)) \in Nat
  <2>1. Ts \in Seq(Field) /\ Len(Ts) \in 0..Len(Ts)
    BY DEF PackInv
  <2> QED BY <2>1, CountedIs DEF Pack!Count, Counted
<1>2. ASSUME NEW s \in Structs, NEW args \in [1..Pack!Count(Ts) -> 0..MaxSize], Pack!Construct(s, args)
      PROVE  PackInv'
  <2>1. Sizes(Ts, args)
    BY <1>1, <1>2, MaxSizeAssumption DEF Sizes
  <2>2. Ends(Ts, Pack!AccumVec(args), args)
    BY <1>1, AccumVecIs DEF Ends
  <2> DEFINE accum == Pack!AccumVec(args)
             d == [b \in 0 .. Off(Ts, Len(Ts), args) - 1 |-> Pack!Raw]
  <2>3. Pack!AccumSize(args) = Off(Ts, Len(Ts), args)
    BY <1>1, <2>1, <2>2, PackIs
  <2>4. Pack!Becomes(s, d, accum, args, {})
    BY <1>2, <2>3 DEF Pack!Construct
  <2>5. Holds(Ts, d, args, {})
    BY <1>1, <2>1, HoldsNew
  <2> HIDE DEF d, accum
  <2> QED BY <2>2, <2>4, <2>5, BecomesStep DEF accum
<1>3. ASSUME NEW s \in Structs, NEW i \in DOMAIN Ts, NEW e \in 0..MaxSize, Pack!Set(s, i, e)
      PROVE  PackInv'
  <2>1. m_data[s] # Pack!NoData /\ e < Pack!Elements(i, sizes[s]) /\ i \in 1..Len(Ts) /\ e \in Nat
    BY <1>1, <1>3, MaxSizeAssumption DEF Pack!Set
  <2>2. Pack!Place(s, i, e) = Places(Ts, i, e, sizes[s]) /\ e < Elems(Ts, i, sizes[s])
    BY <2>1, LivingIs
  <2> DEFINE d == [b \in DOMAIN m_data[s] \cup Places(Ts, i, e, sizes[s]) |->
                      IF b \in Places(Ts, i, e, sizes[s]) THEN <<i, e>> ELSE m_data[s][b]]
             w == written[s] \cup {<<i, e>>}
             accum == m_sizes[s]
             args == sizes[s]
  <2>3. Pack!Becomes(s, d, accum, args, w)
    BY <1>3, <2>2 DEF Pack!Set
  <2>4. Holds(Ts, m_data[s], sizes[s], written[s]) /\ (Counted(Ts, Len(Ts)) > 0 => Ends(Ts, accum, args))
    BY <2>1 DEF PackInv
  <2>5. Holds(Ts, d, args, w)
    BY <1>1, <2>1, <2>2, <2>4, HoldsSet
  <2> HIDE DEF d, w, accum, args
  <2> QED BY <2>3, <2>4, <2>5, BecomesStep
<1>4. ASSUME NEW s \in Structs, NEW t \in Structs, Pack!Copy(s, t)
      PROVE  PackInv'
  <2> DEFINE args == sizes[t]
             d == [b \in 0 .. Off(Ts, Len(Ts), args) - 1 |-> m_data[t][b]]
             w == written[t]
             accum == m_sizes[t]
  <2>1. m_data[t] # Pack!NoData
    BY <1>4 DEF Pack!Copy
  <2>2. Pack!size(t) = Off(Ts, Len(Ts), args)
    BY <2>1, LivingIs
  <2>3. Pack!Becomes(s, d, accum, args, w)
    BY <1>4, <2>2 DEF Pack!Copy
  <2>4. Holds(Ts, m_data[t], args, w) /\ (Counted(Ts, Len(Ts)) > 0 => Ends(Ts, accum, args))
    BY <2>1 DEF PackInv
  <2>5. Holds(Ts, d, args, w)
    BY <1>1, <2>4, HoldsCopy
  <2> HIDE DEF d, w, accum, args
  <2> QED BY <2>3, <2>4, <2>5, BecomesStep
<1>5. ASSUME NEW s \in Structs, NEW t \in Structs, Pack!Move(s, t)
      PROVE  PackInv'
  <2>1. /\ m_data[t] # Pack!NoData /\ s # t /\ Ts' = Ts
        /\ m_data' = [m_data EXCEPT ![s] = m_data[t], ![t] = Pack!NoData]
        /\ m_sizes' = [m_sizes EXCEPT ![s] = m_sizes[t]]
        /\ sizes' = [sizes EXCEPT ![s] = sizes[t]]
        /\ written' = [written EXCEPT ![s] = written[t], ![t] = {}]
    BY <1>5 DEF Pack!Move
  <2>2. /\ Ts' \in Seq(Field)
        /\ DOMAIN m_data' = Structs /\ DOMAIN m_sizes' = Structs /\ DOMAIN sizes' = Structs /\ DOMAIN written' = Structs
    BY <2>1 DEF PackInv
  <2>3. ASSUME NEW r \in Structs, m_data'[r] # Pack!NoData
        PROVE  /\ Holds(Ts, m_data'[r], sizes'[r], written'[r])
               /\ Counted(Ts, Len(Ts)) > 0 => Ends(Ts, m_sizes'[r], sizes'[r])
    <3>1. CASE r = s
      <4>1. m_data'[r] = m_data[t] /\ sizes'[r] = sizes[t] /\ written'[r] = written[t] /\ m_sizes'[r] = m_sizes[t]
        BY <2>1, <3>1 DEF PackInv
      <4> QED BY <2>1, <4>1 DEF PackInv
    <3>2. CASE r # s /\ r # t
      <4>1. m_data'[r] = m_data[r] /\ sizes'[r] = sizes[r] /\ written'[r] = written[r] /\ m_sizes'[r] = m_sizes[r]
        BY <2>1, <3>2 DEF PackInv
      <4> QED BY <2>3, <4>1 DEF PackInv
    <3>3. CASE r = t
      <4>1. m_data'[r] = Pack!NoData
        BY <2>1, <3>3 DEF PackInv
      <4> QED BY <2>3, <4>1
    <3> QED BY <3>1, <3>2, <3>3
  <2> QED BY <2>1, <2>2, <2>3 DEF PackInv
<1>6. ASSUME NEW s \in Structs, Pack!ConstructPacked(s)
      PROVE  PackInv'
  <2> DEFINE args == <<>>
             d == [b \in 0 .. Off(Ts, Len(Ts), args) - 1 |-> Pack!Raw]
  <2>1. Pack!Count(Ts) = 0 /\ ~(Counted(Ts, Len(Ts)) > 0) /\ Sizes(Ts, args)
    BY <1>1, <1>6 DEF Pack!ConstructPacked, Sizes
  <2>2. Pack!staticSize = Off(Ts, Len(Ts), args)
    BY <1>1, <2>1, PackIs
  <2>3. Pack!Becomes(s, d, <<>>, args, {})
    BY <1>6, <2>2 DEF Pack!ConstructPacked
  <2>4. Holds(Ts, d, args, {})
    BY <1>1, <2>1, HoldsNew
  <2> HIDE DEF d, args
  <2> QED BY <2>1, <2>3, <2>4, BecomesStep
<1>7. ASSUME NEW s \in Structs, NEW t \in Structs, Pack!CopyPacked(s, t)
      PROVE  PackInv'
  <2>1. Pack!Count(Ts) = 0 /\ ~(Counted(Ts, Len(Ts)) > 0) /\ m_data[t] # Pack!NoData
    BY <1>1, <1>7 DEF Pack!CopyPacked
  <2> DEFINE args == <<>>
             d == m_data[t]
             w == written[t]
  <2>2. Pack!Becomes(s, d, <<>>, args, w)
    BY <1>7 DEF Pack!CopyPacked
  <2>3. Holds(Ts, d, sizes[t], w)
    BY <2>1 DEF PackInv
  <2>4. Holds(Ts, d, args, w)
    BY <1>1, <2>1, <2>3, HoldsStatic
  <2> HIDE DEF d, w, args
  <2> QED BY <2>1, <2>2, <2>4, BecomesStep
<1>8. ASSUME NEW s \in Structs, NEW i \in DOMAIN Ts, Pack!SetPacked(s, i)
      PROVE  PackInv'
  <2>1. Pack!Count(Ts) = 0 /\ ~(Counted(Ts, Len(Ts)) > 0) /\ m_data[s] # Pack!NoData /\ i \in 1..Len(Ts)
    BY <1>1, <1>8 DEF Pack!SetPacked
  <2> DEFINE args == <<>>
  <2>2. Holds(Ts, m_data[s], sizes[s], written[s])
    BY <2>1 DEF PackInv
  <2>3. Holds(Ts, m_data[s], args, written[s])
    BY <1>1, <2>1, <2>2, HoldsStatic
  <2>4. Sizes(Ts, args)
    BY <2>3 DEF Holds
  <2>5. Elems(Ts, i, args) = 1 /\ Pack!ElemOffset(i) = Off(Ts, i-1, args)
    BY <1>1, <2>1, <2>4, PackIs
  <2>6. Pack!ElemOffset(i) .. Pack!ElemOffset(i) + Ts[i].size - 1 = Places(Ts, i, 0, args)
    <3>1. i-1 \in 0..Len(Ts) /\ Ts[i] \in Field
      BY <1>1, <2>1
    <3>2. Off(Ts, i-1, args) \in Nat /\ Ts[i].size \in Nat
      BY <1>1, <2>4, <3>1, OffIs DEF Field
    <3>3. Ts[i].size * 0 = 0 /\ Off(Ts, i-1, args) + 0 = Off(Ts, i-1, args)
      BY <3>2
    <3> QED BY <2>5, <3>3 DEF Places, Start
  <2> DEFINE d == [b \in DOMAIN m_data[s] \cup Places(Ts, i, 0, args) |->
                      IF b \in Places(Ts, i, 0, args) THEN <<i, 0>> ELSE m_data[s][b]]
             w == written[s] \cup {<<i, 0>>}
  <2>7. Pack!Becomes(s, d, <<>>, args, w)
    BY <1>8, <2>6 DEF Pack!SetPacked
  <2>8. Holds(Ts, d, args, w)
    <3>1. /\ DOMAIN d = DOMAIN m_data[s] \cup Places(Ts, i, 0, args)
          /\ \A b \in DOMAIN d : d[b] = IF b \in Places(Ts, i, 0, args) THEN <<i, 0>> ELSE m_data[s][b]
          /\ 0 \in Nat /\ 0 < Elems(Ts, i, args)
      BY <2>5
    <3> HIDE DEF d, args
    <3> QED BY <1>1, <2>1, <2>3, <3>1, HoldsSet
  <2> HIDE DEF d, w, args
  <2> QED BY <2>1, <2>7, <2>8, BecomesStep
<1> QED BY <1>2, <1>3, <1>4, <1>5, <1>6, <1>7, <1>8 DEF Pack!Next

\* From the invariant follows what the run checks of packed structures.
LEMMA PackSound == PackInv => Pack!LayoutSound
<1> SUFFICES ASSUME PackInv PROVE Pack!LayoutSound
  OBVIOUS
<1>1. /\ Ts \in Seq(Field) /\ DOMAIN Ts = 1..Len(Ts) /\ Len(Ts) \in Nat
      /\ Pack!Count(Ts) = Counted(Ts, Len(Ts)) /\ Counted(Ts, Len(Ts)) \in Nat
  <2>1. Ts \in Seq(Field) /\ Len(Ts) \in 0..Len(Ts)
    BY DEF PackInv
  <2> QED BY <2>1, CountedIs DEF Pack!Count, Counted
<1>2. ASSUME NEW s \in Pack!Living
      PROVE  /\ s \in Structs /\ m_data[s] # Pack!NoData
             /\ Holds(Ts, m_data[s], sizes[s], written[s])
             /\ Counted(Ts, Len(Ts)) > 0 => Ends(Ts, m_sizes[s], sizes[s])
  BY DEF Pack!Living, PackInv
<1>3. Pack!LayoutFits
  <2> SUFFICES ASSUME NEW s \in Pack!Living
               PROVE  /\ DOMAIN m_data[s] = 0 .. Pack!size(s) - 1
                      /\ DOMAIN m_data[s] = UNION {UNION {Pack!Place(s, i, e) : e \in 0 .. Pack!Elements(i, sizes[s]) - 1} : i \in DOMAIN Ts}
                      /\ Pack!size(s) = Pack!AccumSize(sizes[s])
    BY DEF Pack!LayoutFits
  <2> DEFINE n == Off(Ts, Len(Ts), sizes[s])
  <2>1. /\ Sizes(Ts, sizes[s]) /\ Pack!size(s) = n
        /\ \A i \in 1..Len(Ts), e \in Nat : Pack!Place(s, i, e) = Places(Ts, i, e, sizes[s])
        /\ \A i \in 1..Len(Ts) : Pack!Elements(i, sizes[s]) = Elems(Ts, i, sizes[s])
    BY <1>2, LivingIs
  <2>2. DOMAIN m_data[s] = 0 .. n - 1
    BY <1>2 DEF Holds
  <2>3. Pack!AccumSize(sizes[s]) = n
    BY <1>1, <1>2, <2>1, PackIs
  <2> DEFINE In(i) == UNION {Pack!Place(s, i, e) : e \in 0 .. Pack!Elements(i, sizes[s]) - 1}
             All == UNION {In(i) : i \in DOMAIN Ts}
  <2>4. ASSUME NEW b PROVE b \in 0 .. n - 1 <=> \E i \in 1..Len(Ts), e \in Nat : e < Elems(Ts, i, sizes[s]) /\ b \in Places(Ts, i, e, sizes[s])
    BY <1>1, <2>1, PlacesCover, PlacesInside
  <2>5. ASSUME NEW b PROVE b \in All <=> \E i \in 1..Len(Ts), e \in Nat : e < Elems(Ts, i, sizes[s]) /\ b \in Places(Ts, i, e, sizes[s])
    <3>1. ASSUME NEW i \in 1..Len(Ts)
          PROVE b \in In(i) <=> \E e \in Nat : e < Elems(Ts, i, sizes[s]) /\ b \in Places(Ts, i, e, sizes[s])
      <4>1. Elems(Ts, i, sizes[s]) \in Nat /\ Pack!Elements(i, sizes[s]) = Elems(Ts, i, sizes[s])
        BY <1>1, <2>1, ElemsIs
      <4>2. \A e : e \in 0 .. Pack!Elements(i, sizes[s]) - 1 <=> e \in Nat /\ e < Elems(Ts, i, sizes[s])
        BY <4>1
      <4>3. \A e \in Nat : Pack!Place(s, i, e) = Places(Ts, i, e, sizes[s])
        BY <2>1
      <4>4. b \in In(i) <=> \E e \in 0 .. Pack!Elements(i, sizes[s]) - 1 : b \in Pack!Place(s, i, e)
        OBVIOUS
      <4> QED BY <4>2, <4>3, <4>4
    <3>2. b \in All <=> \E i \in DOMAIN Ts : b \in In(i)
      OBVIOUS
    <3> HIDE DEF In, All
    <3> QED BY <1>1, <3>1, <3>2
  <2>6. 0 .. n - 1 = All
    BY <2>4, <2>5
  <2> QED BY <2>1, <2>2, <2>3, <2>6
<1>4. Pack!FieldsKeepTheirValues
  <2> SUFFICES ASSUME NEW s \in Pack!Living, NEW x \in written[s], NEW b \in Pack!Place(s, x[1], x[2])
               PROVE  m_data[s][b] = x
    BY DEF Pack!FieldsKeepTheirValues
  <2>1. PICK i \in 1..Len(Ts), e \in Nat : e < Elems(Ts, i, sizes[s]) /\ x = <<i, e>>
    BY <1>2 DEF Holds
  <2>2. b \in Places(Ts, i, e, sizes[s])
    BY <1>2, <2>1, LivingIs
  <2> QED BY <1>2, <2>1, <2>2 DEF Holds
<1>5. Pack!EqualComparesElements
  <2> SUFFICES ASSUME NEW s \in Pack!Living, NEW t \in Pack!Living, sizes[s] = sizes[t]
               PROVE  (IF Pack!Count(Ts) > 0 THEN Pack!Equal(s, t) ELSE Pack!PackedEqual(s, t)) <=> written[s] = written[t]
    BY DEF Pack!EqualComparesElements
  <2> DEFINE n == Off(Ts, Len(Ts), sizes[s])
  <2>1. Pack!size(s) = n /\ Pack!size(t) = n /\ Sizes(Ts, sizes[s])
    BY <1>2, LivingIs
  <2>2. Pack!Count(Ts) > 0 \/ Pack!staticSize = n
    BY <1>1, <1>2, <2>1, PackIs
  <2>3. Pack!SameBytes(s, t, n) <=> written[s] = written[t]
    <3> DEFINE d == m_data[s]
               c == m_data[t]
               w == written[s]
               v == written[t]
    <3>1. Holds(Ts, d, sizes[s], w) /\ Holds(Ts, c, sizes[s], v)
      BY <1>2
    <3> HIDE DEF d, c, w, v
    <3>2. (\A b \in 0 .. n - 1 : d[b] = c[b]) <=> w = v
      BY <1>1, <3>1, HoldsEqual
    <3> QED BY <3>2 DEF d, c, w, v, Pack!SameBytes
  <2> HIDE DEF n
  <2> QED BY <2>1, <2>2, <2>3 DEF Pack!Equal, Pack!PackedEqual
<1> QED BY <1>3, <1>4, <1>5 DEF Pack!LayoutSound

-----------------------------------------------------------------------------
(* Numbers in messages *)

\* What Power computes.
LEMMA PowerIs ==
  /\ Msg!Power[0] = 1 /\ \A n \in Nat : Msg!Power[n] \in Nat \ {0}
  /\ \A n \in Nat : Msg!Power[n+1] = Base * Msg!Power[n]
<1>1. Base \in Nat \ {0}
  BY MessageAssumption
<1> DEFINE F == [n \in Nat |-> [x \in Nat \ {0} |-> Base * x]]
           Def(g) == g = [n \in Nat |-> IF n = 0 THEN 1 ELSE Base * g[n-1]]
<1>2. 1 \in Nat \ {0} /\ F \in [Nat -> [Nat \ {0} -> Nat \ {0}]]
  BY <1>1
<1>3. \A n \in Nat, x \in Nat \ {0} : F[n][x] = Base * x
  OBVIOUS
<1> HIDE DEF F
<1>4. PICK h : Follows(h, Nat \ {0}, 1, F)
  BY <1>2, Recursion
<1>5. h \in [Nat -> Nat \ {0}] /\ h[0] = 1 /\ \A n \in Nat : h[n+1] = Base * h[n]
  BY <1>3, <1>4 DEF Follows
<1> DEFINE g0 == [n \in Nat |-> h[n]]
<1>6. Def(g0)
  <2>1. ASSUME NEW n \in Nat PROVE g0[n] = IF n = 0 THEN 1 ELSE Base * g0[n-1]
    <3>1. CASE n = 0
      BY <1>5, <3>1
    <3>2. CASE n # 0
      <4>1. n - 1 \in Nat /\ (n - 1) + 1 = n
        BY <3>2
      <4>2. h[(n-1) + 1] = Base * h[n-1]
        BY <1>5, <4>1
      <4> QED BY <3>2, <4>1, <4>2
    <3> QED BY <3>1, <3>2
  <2> QED BY <2>1
<1> HIDE DEF g0
<1> DEFINE s == CHOOSE g : Def(g)
<1>7. Def(s)
  BY <1>6
<1>8. Msg!Power = s
  BY DEF Msg!Power
<1>9. \A n \in Nat : s[n] = IF n = 0 THEN 1 ELSE Base * s[n-1]
  BY <1>7
<1> HIDE DEF s
<1>10. \A n \in Nat : s[n+1] = Base * s[n]
  <2>1. \A n \in Nat : n + 1 \in Nat /\ n + 1 # 0 /\ (n + 1) - 1 = n
    OBVIOUS
  <2> QED BY <1>9, <2>1
<1> DEFINE A == {n \in Nat : s[n] \in Nat \ {0}}
<1>11. 0 \in A
  BY <1>9
<1>12. ASSUME NEW n \in Nat, n \in A PROVE n + 1 \in A
  BY <1>1, <1>10, <1>12
<1> HIDE DEF A
<1>13. \A n \in Nat : n \in A
  BY <1>11, <1>12, Induction
<1> QED BY <1>8, <1>9, <1>10, <1>13 DEF A

\* The value of the first k digits, and that of all
LEMMA ValueIs ==
  ASSUME NEW d \in Seq(Nat)
  PROVE  \E v : /\ v \in [0..Len(d) -> Nat] /\ v[0] = 0 /\ Msg!ValueOf(d) = v[Len(d)]
                /\ \A k \in 1..Len(d) : v[k] = v[k-1] * Base + d[k]
<1>1. Base \in Nat /\ Len(d) \in Nat
  BY MessageAssumption
<1> DEFINE m == Len(d)
           F == [n \in Nat |-> [x \in Nat |-> IF n < m THEN x * Base + d[n+1] ELSE x]]
           Def(g) == g = [k \in 0..m |-> IF k = 0 THEN 0 ELSE g[k-1] * Base + d[k]]
<1>2. 0 \in Nat /\ F \in [Nat -> [Nat -> Nat]]
  <2>1. ASSUME NEW n \in Nat, NEW x \in Nat, n < m PROVE x * Base + d[n+1] \in Nat
    <3>1. n + 1 \in 1..m
      BY <1>1, <2>1
    <3>2. d[n+1] \in Nat /\ x * Base \in Nat
      BY <1>1, <3>1
    <3> QED BY <3>2
  <2> QED BY <2>1
<1>3. \A n \in Nat, x \in Nat : F[n][x] = IF n < m THEN x * Base + d[n+1] ELSE x
  OBVIOUS
<1> HIDE DEF F
<1>4. PICK h : Follows(h, Nat, 0, F)
  BY <1>2, Recursion
<1>5. h \in [Nat -> Nat] /\ h[0] = 0 /\ \A n \in Nat : h[n+1] = F[n][h[n]]
  BY <1>4 DEF Follows
<1>6. ASSUME NEW k \in 1..m PROVE h[k] = h[k-1] * Base + d[k]
  <2>1. k - 1 \in Nat /\ k - 1 < m /\ (k - 1) + 1 = k
    BY <1>1
  <2>2. h[(k-1) + 1] = F[k-1][h[k-1]] /\ h[k-1] \in Nat
    BY <1>5, <2>1
  <2>3. F[k-1][h[k-1]] = h[k-1] * Base + d[(k-1) + 1]
    BY <1>3, <2>1, <2>2
  <2> QED BY <2>1, <2>2, <2>3
<1> DEFINE g0 == [k \in 0..m |-> h[k]]
<1>7. Def(g0)
  <2>1. ASSUME NEW k \in 0..m PROVE g0[k] = IF k = 0 THEN 0 ELSE g0[k-1] * Base + d[k]
    <3>1. CASE k = 0
      BY <1>5, <3>1
    <3>2. CASE k # 0
      <4>1. k \in 1..m /\ k - 1 \in 0..m
        BY <1>1, <3>2
      <4> QED BY <1>6, <3>2, <4>1
    <3> QED BY <3>1, <3>2
  <2> QED BY <2>1
<1> HIDE DEF g0
<1> DEFINE s == CHOOSE g : Def(g)
<1>8. Def(s)
  BY <1>7
<1>9. Msg!ValueOf(d) = s[m]
  BY DEF Msg!ValueOf
<1>10. DOMAIN s = 0..m /\ \A k \in 0..m : s[k] = IF k = 0 THEN 0 ELSE s[k-1] * Base + d[k]
  BY <1>8
<1> HIDE DEF s
<1>11. s[0] = 0 /\ \A k \in 1..m : s[k] = s[k-1] * Base + d[k]
  <2>1. 0 \in 0..m /\ \A k \in 1..m : k \in 0..m /\ k # 0
    BY <1>1
  <2> QED BY <1>10, <2>1
<1> DEFINE A == {k \in Nat : s[k] \in Nat}
<1>12. 0 \in A
  BY <1>11
<1>13. ASSUME NEW k \in 0 .. m-1, k \in A PROVE k + 1 \in A
  <2>1. k + 1 \in 1..m /\ (k + 1) - 1 = k
    BY <1>1
  <2>2. d[k+1] \in Nat /\ s[k] \in Nat
    BY <1>13, <2>1
  <2>3. s[k] * Base \in Nat
    BY <1>1, <2>2
  <2> QED BY <1>11, <2>1, <2>2, <2>3
<1> HIDE DEF A
<1>14. \A k \in 0..m : k \in A
  BY <1>1, <1>12, <1>13, InductionTo
<1>15. [k \in 0..m |-> s[k]] \in [0..m -> Nat]
  BY <1>14 DEF A
<1> DEFINE v == [k \in 0..m |-> s[k]]
<1>16. /\ v \in [0..m -> Nat] /\ v[0] = 0 /\ Msg!ValueOf(d) = v[m]
       /\ \A k \in 1..m : v[k] = v[k-1] * Base + d[k]
  <2>1. 0 \in 0..m /\ m \in 0..m /\ \A k \in 1..m : k \in 0..m /\ k-1 \in 0..m
    BY <1>1
  <2> QED BY <1>9, <1>11, <1>15, <2>1
<1> QED BY <1>16

\* Digits make a number.
LEMMA ValueOfNat == ASSUME NEW d \in Seq(Nat) PROVE Msg!ValueOf(d) \in Nat
<1>1. Len(d) \in 0..Len(d)
  OBVIOUS
<1> QED BY <1>1, ValueIs

\* What is written as a size is read as it.
LEMMA DivIs ==
  ASSUME NEW x \in Nat, NEW y \in Nat \ {0}
  PROVE  x \div y \in Nat /\ y * (x \div y) <= x
  OBVIOUS

\* Quotient and remainder make the number.
LEMMA DivModIs ==
  ASSUME NEW x \in Nat, NEW y \in Nat \ {0}
  PROVE  (x \div y) * y + (x % y) = x
<1>1. x % y = x - y * (x \div y)
  OBVIOUS
<1>2. x \div y \in Nat
  OBVIOUS
<1> DEFINE q == x \div y
           z == x % y
<1>3. z = x - y * q /\ q \in Nat
  BY <1>1, <1>2
<1> HIDE DEF q, z
<1>4. q * y + z = x
  BY <1>3
<1> QED BY <1>4 DEF q, z

\* A size in network order is read back as the same size.
LEMMA SizeIs ==
  ASSUME NEW n \in Nat, n < Msg!Power[SizeBytes]
  PROVE  /\ Msg!hostToSharemindNetOrder(n) \in Seq(Nat) /\ Len(Msg!hostToSharemindNetOrder(n)) = SizeBytes
         /\ Msg!ValueOf(Msg!hostToSharemindNetOrder(n)) = n
<1> DEFINE m == SizeBytes
           d == Msg!hostToSharemindNetOrder(n)
<1>1. Base \in Nat \ {0} /\ m \in Nat /\ m # 0
  BY MessageAssumption
<1>2. ASSUME NEW k \in 0..m PROVE Msg!Power[m - k] \in Nat \ {0} /\ n \div Msg!Power[m - k] \in Nat
  <2>1. m - k \in Nat
    BY <1>1
  <2>2. Msg!Power[m - k] \in Nat \ {0}
    BY <2>1, PowerIs
  <2>3. \A p \in Nat \ {0} : n \div p \in Nat
    OBVIOUS
  <2> QED BY <2>2, <2>3
<1>3. d \in Seq(Nat) /\ Len(d) = m /\ \A k \in 1..m : d[k] = (n \div Msg!Power[m - k]) % Base
  <2>1. d = [k \in 1..m |-> (n \div Msg!Power[m - k]) % Base]
    BY DEF Msg!hostToSharemindNetOrder
  <2>2. \A k \in 1..m : (n \div Msg!Power[m - k]) % Base \in Nat
    <3>1. \A x \in Nat : x % Base \in Nat
      BY <1>1
    <3>2. \A k \in 1..m : k \in 0..m
      BY <1>1
    <3> QED BY <1>2, <3>1, <3>2
  <2> HIDE DEF d
  <2>3. d \in [1..m -> Nat]
    BY <2>1, <2>2
  <2> QED BY <1>1, <2>1, <2>3
<1> HIDE DEF d
<1>4. PICK v : /\ v \in [0..m -> Nat] /\ v[0] = 0 /\ Msg!ValueOf(d) = v[m]
               /\ \A k \in 1..m : v[k] = v[k-1] * Base + d[k]
  BY <1>3, ValueIs
<1> DEFINE A == {k \in Nat : v[k] = n \div Msg!Power[m - k]}
<1>5. 0 \in A
  <2>1. m - 0 = m /\ 0 \in 0..m
    BY <1>1
  <2>2. \A p \in Nat \ {0} : n < p => n \div p = 0
    OBVIOUS
  <2> QED BY <1>2, <1>4, <2>1, <2>2
<1>6. ASSUME NEW k \in 0 .. m-1, k \in A PROVE k + 1 \in A
  <2> DEFINE p == Msg!Power[m - (k+1)]
             x == n \div p
  <2>1. k + 1 \in 1..m /\ (k+1) - 1 = k /\ m - (k+1) \in Nat /\ m - k = (m - (k+1)) + 1 /\ k + 1 \in 0..m
    BY <1>1
  <2>2. p \in Nat \ {0} /\ x \in Nat
    BY <1>2, <2>1
  <2>3. Msg!Power[m - k] = Base * p
    BY <2>1, PowerIs
  <2>4. v[k] = n \div (Base * p)
    BY <1>6, <2>3
  <2>5. d[k+1] = x % Base
    BY <1>3, <2>1
  <2>6. v[k+1] = v[k] * Base + d[k+1]
    BY <1>4, <2>1
  <2> HIDE DEF p
  <2>7. n \div (Base * p) = x \div Base
    BY <1>1, <2>2
  <2> HIDE DEF x
  <2>8. (x \div Base) * Base + (x % Base) = x
    BY <1>1, <2>2, DivModIs
  <2>9. v[k+1] = x
    BY <2>4, <2>5, <2>6, <2>7, <2>8, Zenon
  <2> QED BY <2>9 DEF x, p
<1> HIDE DEF A
<1>7. \A k \in 0..m : k \in A
  BY <1>1, <1>5, <1>6, InductionTo
<1>8. v[m] = n
  <2>1. v[m] = n \div Msg!Power[m - m]
    BY <1>1, <1>7 DEF A
  <2>2. n \div 1 = n /\ m - m = 0
    BY <1>1
  <2> QED BY <2>1, <2>2, PowerIs
<1> QED BY <1>3, <1>4, <1>8 DEF d

-----------------------------------------------------------------------------
(* Sequences put together *)

\* Sequences put together, from the steps in which they are.
LEMMA FlattenBy ==
  ASSUME NEW D, NEW s \in Seq(Seq(D)), NEW h, h[0] = <<>>,
         \A k \in 1..Len(s) : h[k] \in Seq(D) /\ h[k] = h[k-1] \o s[k]
  PROVE  Msg!FlattenSeq(s) = h[Len(s)]
<1> DEFINE n == Len(s)
           Def(g) == g = [i \in 1..n |-> IF i = 1 THEN s[i] ELSE g[i-1] \o s[i]]
           g0 == [i \in 1..n |-> h[i]]
<1>1. CASE n = 0
  <2>1. s = <<>>
    BY <1>1
  <2> QED BY <1>1, <2>1 DEF Msg!FlattenSeq
<1>2. CASE n # 0
  <2>1. n \in Nat /\ 1 \in 1..n /\ n \in 1..n
    BY <1>2
  <2>2. h[1] = s[1]
    <3>1. s[1] \in Seq(D) /\ 1 - 1 = 0
      BY <2>1
    <3>2. h[1] = <<>> \o s[1]
      BY <2>1, <3>1
    <3> QED BY <3>1, <3>2
  <2>3. Def(g0)
    <3>1. ASSUME NEW i \in 1..n PROVE g0[i] = IF i = 1 THEN s[i] ELSE g0[i-1] \o s[i]
      <4>1. CASE i = 1
        BY <2>2, <4>1
      <4>2. CASE i # 1
        <5>1. i - 1 \in 1..n
          BY <4>2
        <5> QED BY <4>2, <5>1
      <4> QED BY <4>1, <4>2
    <3> QED BY <3>1
  <2> HIDE DEF g0
  <2> DEFINE f == CHOOSE g : Def(g)
  <2>4. Def(f)
    BY <2>3
  <2>5. Msg!FlattenSeq(s) = f[n]
    BY <1>2 DEF Msg!FlattenSeq
  <2>6. \A i \in 1..n : f[i] = IF i = 1 THEN s[i] ELSE f[i-1] \o s[i]
    BY <2>4
  <2> HIDE DEF f
  <2> DEFINE A == {i \in Nat : i = 0 \/ f[i] = h[i]}
  <2>7. 0 \in A
    OBVIOUS
  <2>8. ASSUME NEW i \in 0 .. n-1, i \in A PROVE i + 1 \in A
    <3>1. i + 1 \in 1..n /\ (i + 1) - 1 = i
      BY <2>1
    <3>2. f[i+1] = h[i+1]
      <4>1. CASE i = 0
        BY <2>2, <2>6, <3>1, <4>1
      <4>2. CASE i # 0
        <5>1. f[i+1] = f[i] \o s[i+1]
          <6>1. i + 1 # 1
            BY <2>1, <4>2
          <6> QED BY <2>6, <3>1, <6>1
        <5>2. h[i+1] = h[i] \o s[i+1]
          BY <3>1
        <5>3. f[i] = h[i]
          BY <2>8, <4>2
        <5> QED BY <5>1, <5>2, <5>3
      <4> QED BY <4>1, <4>2
    <3>3. i + 1 \in Nat
      BY <2>1
    <3> QED BY <3>2, <3>3
  <2> HIDE DEF A
  <2>9. \A i \in 0..n : i \in A
    BY <2>1, <2>7, <2>8, InductionTo
  <2>10. n \in A
    BY <2>1, <2>9
  <2> QED BY <1>2, <2>5, <2>10 DEF A
<1> QED BY <1>1, <1>2

\* The bytes of the first k items
Coded(its, k) == [i \in 1..k |-> Msg!BytesOf(its[i])]
Joined(its, k) == Msg!FlattenSeq(Coded(its, k))
Kinds == {"bool", "word", "object", "string", "array"}
GoodKind(x) == x.kind \in Kinds
GoodItem(x) ==
    /\ x \in [kind : Kinds, value : Seq(Nat)]
    /\ Msg!BytesOf(x) \in Seq(Nat) /\ Len(Msg!BytesOf(x)) > 0
    /\ GoodKind(x)
    /\ x.kind = "bool" => Len(x.value) = 1
    /\ x.kind = "word" => Len(x.value) = WordSize
    /\ x.kind = "string" => Len(x.value) <= SizeMax

\* h[k] is the first k sequences of s put together.
JoinsUp(h, D, s) == /\ h[0] = <<>> /\ \A k \in 0..Len(s) : h[k] \in Seq(D)
                    /\ \A k \in 1..Len(s) : h[k] = h[k-1] \o s[k]

\* There are such steps for every sequence of sequences.
LEMMA FlattenSteps ==
  ASSUME NEW D, NEW s \in Seq(Seq(D))
  PROVE  \E h : JoinsUp(h, D, s)
<1> DEFINE n == Len(s)
           F == [k \in Nat |-> [x \in Seq(D) |-> IF k < n THEN x \o s[k+1] ELSE x]]
<1>1. n \in Nat
  OBVIOUS
<1>2. <<>> \in Seq(D) /\ F \in [Nat -> [Seq(D) -> Seq(D)]]
  <2>1. ASSUME NEW k \in Nat, NEW x \in Seq(D), k < n PROVE x \o s[k+1] \in Seq(D)
    <3>1. k + 1 \in 1..n
      BY <1>1, <2>1
    <3>2. s[k+1] \in Seq(D)
      BY <3>1
    <3> QED BY <3>2
  <2> QED BY <2>1
<1>3. \A k \in Nat, x \in Seq(D) : F[k][x] = IF k < n THEN x \o s[k+1] ELSE x
  OBVIOUS
<1> HIDE DEF F
<1>4. PICK h : Follows(h, Seq(D), <<>>, F)
  BY <1>2, Recursion
<1>5. h \in [Nat -> Seq(D)] /\ h[0] = <<>> /\ \A k \in Nat : h[k+1] = F[k][h[k]]
  BY <1>4 DEF Follows
<1>6. ASSUME NEW k \in 1..n PROVE h[k] = h[k-1] \o s[k]
  <2>1. k - 1 \in Nat /\ k - 1 < n /\ (k - 1) + 1 = k
    BY <1>1
  <2>2. h[(k-1) + 1] = F[k-1][h[k-1]] /\ h[k-1] \in Seq(D)
    BY <1>5, <2>1
  <2>3. F[k-1][h[k-1]] = h[k-1] \o s[(k-1) + 1]
    BY <1>3, <2>1, <2>2
  <2> QED BY <2>1, <2>2, <2>3
<1>7. JoinsUp(h, D, s)
  <2>1. \A k \in 0..n : k \in Nat
    BY <1>1
  <2>2. \A k \in 0..n : h[k] \in Seq(D)
    BY <1>5, <2>1
  <2> QED BY <1>5, <1>6, <2>2 DEF JoinsUp
<1> QED BY <1>7

\* How the bytes of some items go on with those of the next
LEMMA JoinedIs ==
  ASSUME NEW its, NEW n \in Nat, \A i \in 1..n : GoodItem(its[i])
  PROVE  /\ Joined(its, 0) = <<>> /\ \A k \in 0..n : Joined(its, k) \in Seq(Nat)
         /\ \A k \in 1..n : Joined(its, k) = Joined(its, k-1) \o Msg!BytesOf(its[k])
<1> DEFINE c == Coded(its, n)
<1>1. c \in Seq(Seq(Nat)) /\ Len(c) = n /\ \A i \in 1..n : c[i] = Msg!BytesOf(its[i])
  <2>1. c \in [1..n -> Seq(Nat)]
    BY DEF Coded, GoodItem
  <2> QED BY <2>1 DEF Coded
<1> HIDE DEF c
<1>0. PICK h : JoinsUp(h, Nat, c)
  BY <1>1, FlattenSteps
<1>2. /\ h[0] = <<>> /\ \A k \in 0..n : h[k] \in Seq(Nat)
      /\ \A k \in 1..n : h[k] = h[k-1] \o c[k]
  BY <1>0, <1>1 DEF JoinsUp
<1>3. ASSUME NEW k \in 0..n PROVE Joined(its, k) = h[k]
  <2> DEFINE s == Coded(its, k)
  <2>1. s \in Seq(Seq(Nat)) /\ Len(s) = k /\ \A i \in 1..k : s[i] = Msg!BytesOf(its[i])
    <3>1. s \in [1..k -> Seq(Nat)]
      BY DEF Coded, GoodItem
    <3> QED BY <3>1 DEF Coded
  <2>2. \A i \in 1..k : h[i] \in Seq(Nat) /\ h[i] = h[i-1] \o s[i]
    <3>1. \A i \in 1..k : i \in 1..n /\ i \in 0..n
      OBVIOUS
    <3> QED BY <1>1, <1>2, <2>1, <3>1
  <2> HIDE DEF s
  <2>3. Msg!FlattenSeq(s) = h[k]
    BY <1>2, <2>1, <2>2, FlattenBy
  <2> QED BY <2>3 DEF s, Joined
<1>4. \A k \in 1..n : k \in 0..n /\ k-1 \in 0..n
  OBVIOUS
<1>5. 0 \in 0..n
  OBVIOUS
<1> QED BY <1>1, <1>2, <1>3, <1>4, <1>5

\* What some items take is at the beginning of what more of them take.
LEMMA JoinedPrefix ==
  ASSUME NEW its, NEW n \in Nat, \A i \in 1..n : GoodItem(its[i]), NEW m \in 0..n, NEW k \in m..n
  PROVE  /\ Len(Joined(its, m)) <= Len(Joined(its, k))
         /\ \A j \in 1..Len(Joined(its, m)) : Joined(its, k)[j] = Joined(its, m)[j]
<1> DEFINE Begins(a, b) == Len(a) <= Len(b) /\ \A j \in 1..Len(a) : b[j] = a[j]
           A == {i \in Nat : Begins(Joined(its, m), Joined(its, m + i))}
           l == k - m
<1>1. l \in Nat /\ m \in Nat /\ m + l = k /\ k <= n
  OBVIOUS
<1>2. \A i \in 0..n : Joined(its, i) \in Seq(Nat)
  BY JoinedIs
<1>3. 0 \in A
  <2>1. m + 0 = m /\ Joined(its, m) \in Seq(Nat)
    BY <1>1, <1>2
  <2> QED BY <2>1
<1>4. ASSUME NEW i \in 0 .. l-1, i \in A PROVE i + 1 \in A
  <2> DEFINE p == m + (i+1)
             a == Joined(its, m)
             b == Joined(its, m + i)
             x == Msg!BytesOf(its[p])
  <2>1. p \in 1..n /\ p - 1 = m + i /\ m + i \in 0..n
    BY <1>1
  <2>2. Joined(its, p) = b \o x
    BY <2>1, JoinedIs
  <2>3. a \in Seq(Nat) /\ b \in Seq(Nat) /\ x \in Seq(Nat)
    BY <1>2, <2>1 DEF GoodItem
  <2>4. Begins(a, b)
    BY <1>4
  <2> HIDE DEF a, b, x
  <2>5. Begins(a, b \o x)
    <3>1. Len(b \o x) = Len(b) + Len(x) /\ \A j \in 1..Len(b) : (b \o x)[j] = b[j]
      BY <2>3
    <3>2. Len(a) \in Nat /\ Len(b) \in Nat /\ Len(x) \in Nat /\ \A j \in 1..Len(a) : j \in 1..Len(b)
      BY <2>3, <2>4
    <3> QED BY <2>4, <3>1, <3>2
  <2>6. Begins(Joined(its, m), Joined(its, p))
    <3> HIDE DEF Begins, p
    <3> QED BY <2>2, <2>5 DEF a
  <2>7. i + 1 \in Nat
    BY <1>1
  <2> QED BY <2>6, <2>7
<1> HIDE DEF A
<1>5. \A i \in 0..l : i \in A
  BY <1>1, <1>3, <1>4, InductionTo
<1>6. l \in A
  BY <1>1, <1>5
<1> QED BY <1>1, <1>6 DEF A

-----------------------------------------------------------------------------
(* The inductive invariant of messages *)

\* The reader has read the first "matched" items.
InStep == /\ matched \in 0..Len(items) /\ in_offset = Len(Joined(items, matched))
          /\ incoming # <<>> => incoming = data
          /\ matched > 0 => incoming # <<>>
          /\ matched > 0 /\ call.ok => call.value = items[matched].value

MsgInv ==
    /\ items \in Seq([kind : Kinds, value : Seq(Nat)]) /\ \A i \in 1..Len(items) : GoodItem(items[i])
    /\ data \in Seq(Nat) /\ data = Joined(items, Len(items))
    /\ Len(items) <= Len(data) /\ Len(data) <= SizeMax /\ m_offset \in Nat
    /\ incoming \in Seq(Nat) /\ in_offset \in 0..Len(incoming)
    /\ matched = Msg!Mismatch \/ InStep
    /\ ~call.ok => in_offset = call.from
    /\ call.ok => in_offset >= call.from + call.asked

\* Nothing is written or read at the start.
LEMMA MessageInit == Msg!Init => MsgInv
<1> SUFFICES ASSUME Msg!Init PROVE MsgInv
  OBVIOUS
<1>1. /\ data = <<>> /\ m_offset = 0 /\ items = <<>> /\ incoming = <<>> /\ in_offset = 0
      /\ matched = Msg!Mismatch /\ call.ok /\ call.from = 0 /\ call.asked = 0
  BY DEF Msg!Init, Msg!Nothing
<1>2. \A i \in 1..0 : GoodItem(items[i])
  OBVIOUS
<1>3. Joined(items, 0) = <<>>
  BY <1>2, JoinedIs
<1> QED BY <1>1, <1>3, MessageAssumption DEF MsgInv

\* A reader that is out of step is told from one that is in step.
LEMMA MismatchIs ==
  ASSUME MsgInv
  PROVE  /\ Len(items) \in Nat /\ Msg!Mismatch \in Nat /\ Len(items) < Msg!Mismatch
         /\ matched \in 0..Len(items) => InStep
<1>1. SizeMax \in Nat
  BY MessageAssumption
<1>2. Len(items) \in Nat /\ Len(data) \in Nat /\ Len(items) <= SizeMax
  BY <1>1 DEF MsgInv
<1> QED BY <1>1, <1>2 DEF MsgInv, Msg!Mismatch

\* Writing an item at the end keeps the invariant.
LEMMA WrittenStep ==
  ASSUME MsgInv, NEW item, GoodItem(item), Len(Msg!BytesOf(item)) <= Msg!spaceLeft,
         Msg!Add(Msg!BytesOf(item)), Msg!Written(item)
  PROVE  MsgInv'
<1> DEFINE n == Len(items)
           bytes == Msg!BytesOf(item)
           R == [kind : Kinds, value : Seq(Nat)]
<1>1. /\ incoming = <<>> /\ Len(data) = m_offset /\ data' = data \o bytes /\ m_offset' = m_offset + Len(bytes)
      /\ items' = Append(items, item) /\ incoming' = incoming /\ in_offset' = in_offset
      /\ matched' = matched /\ call' = call
  BY DEF Msg!Add, Msg!Written, Msg!Writing
<1>2. /\ items \in Seq(R) /\ \A i \in 1..n : GoodItem(items[i])
      /\ data \in Seq(Nat) /\ data = Joined(items, n)
      /\ n <= Len(data) /\ Len(data) <= SizeMax /\ m_offset \in Nat
      /\ in_offset \in 0..Len(incoming)
      /\ matched = Msg!Mismatch \/ InStep
      /\ ~call.ok => in_offset = call.from
      /\ call.ok => in_offset >= call.from + call.asked
  BY DEF MsgInv
<1>3. item \in R /\ bytes \in Seq(Nat) /\ Len(bytes) \in Nat /\ Len(bytes) > 0 /\ Len(bytes) <= SizeMax - m_offset
  BY DEF GoodItem, Msg!spaceLeft
<1> HIDE DEF bytes, R
<1>4. n \in Nat /\ Len(data) \in Nat /\ SizeMax \in Nat
  BY <1>2, MessageAssumption
<1>5. /\ items' \in Seq(R) /\ Len(items') = n + 1 /\ items'[n+1] = item
      /\ \A i \in 1..n : items'[i] = items[i]
  BY <1>1, <1>2, <1>3
<1>6. \A i \in 1 .. n+1 : GoodItem(items'[i])
  <2>1. \A i \in 1 .. n+1 : i \in 1..n \/ i = n + 1
    BY <1>4
  <2> QED BY <1>2, <1>5, <2>1
<1>7. \A k \in 0..n : Joined(items', k) = Joined(items, k)
  <2>1. ASSUME NEW k \in 0..n PROVE Coded(items', k) = Coded(items, k)
    <3>1. \A i \in 1..k : items'[i] = items[i]
      BY <1>4, <1>5
    <3> QED BY <3>1 DEF Coded
  <2> QED BY <2>1 DEF Joined
<1>8. data' = Joined(items', n + 1)
  <2>1. n + 1 \in 1 .. n+1 /\ (n+1) - 1 = n /\ n + 1 \in Nat /\ n \in 0..n
    BY <1>4
  <2>2. Joined(items', n+1) = Joined(items', n) \o Msg!BytesOf(item)
    BY <1>5, <1>6, <2>1, JoinedIs
  <2> QED BY <1>1, <1>2, <1>7, <2>1, <2>2 DEF bytes
<1>9. data' \in Seq(Nat) /\ Len(data') = Len(data) + Len(bytes) /\ m_offset' \in Nat
  <2>1. data \o bytes \in Seq(Nat) /\ Len(data \o bytes) = Len(data) + Len(bytes)
    BY <1>2, <1>3
  <2>2. m_offset + Len(bytes) \in Nat
    BY <1>2, <1>3
  <2> QED BY <1>1, <2>1, <2>2
<1>10. n + 1 <= Len(data') /\ Len(data') <= SizeMax
  BY <1>1, <1>2, <1>3, <1>4, <1>9
<1>11. matched' = Msg!Mismatch \/ InStep'
  <2>1. ASSUME InStep PROVE InStep'
    <3>1. matched = 0
      BY <1>1, <1>4, <2>1 DEF InStep
    <3>2. Joined(items', 0) = Joined(items, 0) /\ in_offset = Len(Joined(items, 0))
      BY <1>4, <1>7, <2>1, <3>1 DEF InStep
    <3> QED BY <1>1, <1>4, <1>5, <3>1, <3>2 DEF InStep
  <2> QED BY <1>1, <1>2, <2>1
<1> QED BY <1>1, <1>2, <1>5, <1>6, <1>8, <1>9, <1>10, <1>11 DEF MsgInv, R

\* The bytes that come next, if the reader goes on with the next item
LEMMA NextIs ==
  ASSUME MsgInv, matched < Len(items), Len(incoming) > 0
  PROVE  LET bytes == Msg!BytesOf(items[matched+1]) IN
         /\ InStep /\ matched + 1 \in 1..Len(items) /\ Msg!NextItem = items[matched+1] /\ GoodItem(items[matched+1])
         /\ in_offset + Len(bytes) <= Len(incoming)
         /\ \A j \in 1..Len(bytes) : incoming[in_offset + j] = bytes[j]
         /\ Len(Joined(items, matched + 1)) = in_offset + Len(bytes)
<1> DEFINE n == Len(items)
           m == matched
           bytes == Msg!BytesOf(items[m+1])
<1>1. n \in Nat /\ InStep /\ m \in 0..n /\ m + 1 \in 1..n /\ (m+1) - 1 = m /\ n \in m+1 .. n /\ m + 1 \in 0..n
  <2>1. n \in Nat /\ Msg!Mismatch \in Nat /\ n < Msg!Mismatch /\ m < n
    BY MismatchIs
  <2>2. m = Msg!Mismatch \/ InStep
    BY DEF MsgInv
  <2>3. InStep
    BY <2>1, <2>2
  <2>4. m \in 0..n
    BY <2>3 DEF InStep
  <2> HIDE DEF n, m
  <2> QED BY <2>1, <2>3, <2>4
<1>2. incoming # <<>>
  OBVIOUS
<1>3. /\ incoming = data /\ data = Joined(items, n) /\ \A i \in 1..n : GoodItem(items[i])
      /\ in_offset = Len(Joined(items, m)) /\ data \in Seq(Nat)
  BY <1>1, <1>2 DEF MsgInv, InStep
<1>4. Joined(items, m+1) = Joined(items, m) \o bytes /\ Joined(items, m) \in Seq(Nat)
  BY <1>1, <1>3, JoinedIs
<1>5. /\ Len(Joined(items, m+1)) <= Len(Joined(items, n))
      /\ \A j \in 1..Len(Joined(items, m+1)) : Joined(items, n)[j] = Joined(items, m+1)[j]
  BY <1>1, <1>3, JoinedPrefix
<1>6. GoodItem(items[m+1]) /\ bytes \in Seq(Nat)
  BY <1>1, <1>3 DEF GoodItem
<1> DEFINE a == Joined(items, m)
<1> HIDE DEF bytes, a, m, n
<1>7. Len(a \o bytes) = Len(a) + Len(bytes) /\ \A j \in 1..Len(bytes) : (a \o bytes)[Len(a) + j] = bytes[j]
  <2>1. a \in Seq(Nat)
    BY <1>4 DEF a
  <2> QED BY <1>6, <2>1
<1>8. Len(Joined(items, m+1)) = in_offset + Len(bytes)
  BY <1>3, <1>4, <1>7 DEF a
<1>9. in_offset + Len(bytes) <= Len(incoming)
  BY <1>3, <1>5, <1>8
<1>10. ASSUME NEW j \in 1..Len(bytes) PROVE incoming[in_offset + j] = bytes[j]
  <2>1. in_offset \in Nat /\ Len(bytes) \in Nat /\ in_offset + j \in 1 .. in_offset + Len(bytes)
    BY <1>3, <1>4, <1>6
  <2> QED BY <1>3, <1>4, <1>5, <1>7, <1>8, <2>1 DEF a
<1>11. Msg!NextItem = items[matched+1]
  BY <1>1 DEF Msg!NextItem, n, m
<1> QED BY <1>1, <1>6, <1>8, <1>9, <1>10, <1>11 DEF bytes, m, n

\* A reading keeps the invariant: one that fails does not move the reader, and one of the kind
\* and size of the next item gives its value and moves behind it.
LEMMA EndsStep ==
  ASSUME MsgInv, NEW kind, NEW n, NEW ok \in BOOLEAN, NEW offset, NEW value,
         Msg!Ends(kind, n, ok, offset, value),
         offset \in 0..Len(incoming), ~ok => offset = in_offset, ok => offset >= in_offset + n,
         ok /\ matched < Len(items) /\ Msg!NextItem.kind = kind
            /\ (kind = "array" => Len(Msg!NextItem.value) = n * WordSize)
         => /\ value = items[matched+1].value
            /\ offset = in_offset + Len(Msg!BytesOf(items[matched+1]))
  PROVE  MsgInv'
<1> DEFINE goesOn == ok /\ matched < Len(items) /\ Msg!NextItem.kind = kind
                     /\ (kind = "array" => Len(Msg!NextItem.value) = n * WordSize)
<1>1. /\ Len(incoming) > 0 /\ in_offset' = offset
      /\ call' = [ok |-> ok, from |-> in_offset, asked |-> n, value |-> value]
      /\ matched' = IF goesOn THEN matched + 1 ELSE Msg!Mismatch
      /\ data' = data /\ m_offset' = m_offset /\ items' = items /\ incoming' = incoming
  BY DEF Msg!Ends
<1>2. matched' = Msg!Mismatch \/ InStep'
  <2>1. ASSUME goesOn PROVE InStep'
    <3>1. /\ InStep /\ matched + 1 \in 1..Len(items)
          /\ Len(Joined(items, matched + 1)) = in_offset + Len(Msg!BytesOf(items[matched+1]))
      BY <1>1, <2>1, NextIs
    <3>2. value = items[matched+1].value /\ in_offset' = Len(Joined(items, matched + 1))
      BY <1>1, <2>1, <3>1
    <3>3. matched' = matched + 1 /\ matched' \in 0..Len(items) /\ call'.value = value
      BY <1>1, <2>1, <3>1, MismatchIs
    <3>4. incoming' # <<>> => incoming' = data'
      BY <1>1, <3>1 DEF InStep
    <3>5. incoming' # <<>>
      BY <1>1
    <3> QED BY <1>1, <3>2, <3>3, <3>4, <3>5 DEF InStep
  <2> QED BY <1>1, <2>1
<1>3. /\ ~call'.ok => in_offset' = call'.from
      /\ call'.ok => in_offset' >= call'.from + call'.asked
  BY <1>1
<1>4. in_offset' \in 0..Len(incoming')
  BY <1>1
<1> HIDE DEF goesOn
<1> QED BY <1>1, <1>2, <1>3, <1>4 DEF MsgInv

\* A part of a sequence.
LEMMA PartIs ==
  ASSUME NEW s \in Seq(Nat), NEW from \in Nat, NEW n \in Nat, from + n <= Len(s)
  PROVE  /\ SubSeq(s, from + 1, from + n) \in Seq(Nat) /\ Len(SubSeq(s, from + 1, from + n)) = n
         /\ \A j \in 1..n : SubSeq(s, from + 1, from + n)[j] = s[from + j]
<1> DEFINE p == from + 1
           q == from + n
<1>1. p \in Nat /\ q \in Nat /\ q - p + 1 = n /\ q <= Len(s) /\ 1 <= p
  OBVIOUS
<1>2. \A j \in 1..n : p + j - 1 = from + j
  OBVIOUS
<1> HIDE DEF p, q
<1>3. SubSeq(s, p, q) \in Seq(Nat) /\ Len(SubSeq(s, p, q)) = n
  BY <1>1
<1>4. \A j \in 1..n : SubSeq(s, p, q)[j] = s[p + j - 1]
  BY <1>1
<1> QED BY <1>2, <1>3, <1>4 DEF p, q

\* What two sequences put together are.
LEMMA ConcatIs ==
  ASSUME NEW a \in Seq(Nat), NEW b \in Seq(Nat)
  PROVE  /\ a \o b \in Seq(Nat) /\ Len(a \o b) = Len(a) + Len(b)
         /\ \A j \in 1..Len(a) : (a \o b)[j] = a[j]
         /\ \A j \in 1..Len(b) : (a \o b)[Len(a) + j] = b[j]
  OBVIOUS

\* One and two sequences put together.
LEMMA FlattenFew ==
  ASSUME NEW w \in Seq(Nat), NEW y \in Seq(Nat)
  PROVE  Msg!FlattenSeq(<<w>>) = w /\ Msg!FlattenSeq(<<w, y>>) = w \o y
<1> DEFINE g == [k \in 0..2 |-> IF k = 0 THEN <<>> ELSE IF k = 1 THEN w ELSE w \o y]
           s == <<w>>
           r == <<w, y>>
<1>1. g[0] = <<>> /\ g[1] = w /\ g[2] = w \o y
  OBVIOUS
<1>2. w = <<>> \o w /\ w \o y \in Seq(Nat)
  OBVIOUS
<1>3. s \in Seq(Seq(Nat)) /\ Len(s) = 1 /\ s[1] = w
  OBVIOUS
<1>4. r \in Seq(Seq(Nat)) /\ Len(r) = 2 /\ r[1] = w /\ r[2] = y
  OBVIOUS
<1> HIDE DEF g, s, r
<1>5. \A k \in 1..Len(s) : k = 1 /\ k - 1 = 0
  BY <1>3
<1>6. \A k \in 1..Len(r) : (k = 1 /\ k - 1 = 0) \/ (k = 2 /\ k - 1 = 1)
  BY <1>4
<1>7. \A k \in 1..Len(s) : g[k] \in Seq(Nat) /\ g[k] = g[k-1] \o s[k]
  BY <1>1, <1>2, <1>3, <1>5
<1>8. \A k \in 1..Len(r) : g[k] \in Seq(Nat) /\ g[k] = g[k-1] \o r[k]
  <2> SUFFICES ASSUME NEW k \in 1..Len(r) PROVE g[k] \in Seq(Nat) /\ g[k] = g[k-1] \o r[k]
    OBVIOUS
  <2>1. CASE k = 1 /\ k - 1 = 0
    BY <1>1, <1>2, <1>4, <2>1
  <2>2. CASE k = 2 /\ k - 1 = 1
    BY <1>1, <1>2, <1>4, <2>2
  <2> QED BY <1>6, <2>1, <2>2
<1>9. Msg!FlattenSeq(s) = g[Len(s)] /\ Msg!FlattenSeq(r) = g[Len(r)]
  <2>1. Msg!FlattenSeq(s) = g[Len(s)]
    BY <1>1, <1>3, <1>7, FlattenBy
  <2>2. Msg!FlattenSeq(r) = g[Len(r)]
    BY <1>1, <1>4, <1>8, FlattenBy
  <2> QED BY <2>1, <2>2
<1> QED BY <1>1, <1>3, <1>4, <1>9 DEF s, r

\* The bytes of an array are those of its words.
LEMMA WordsFlat ==
  ASSUME WordSize \in Nat \ {0}, \A w \in Words : w \in Seq(Nat) /\ Len(w) = WordSize,
         NEW ws, (\E w \in Words : ws = <<w>>) \/ (\E w, y \in Words : ws = <<w, y>>)
  PROVE  /\ Msg!FlattenSeq(ws) \in Seq(Nat) /\ Len(Msg!FlattenSeq(ws)) = WordSize * Len(ws)
         /\ Len(ws) \in {1, 2}
<1>1. CASE \E w \in Words : ws = <<w>>
  <2>1. PICK w \in Words : ws = <<w>>
    BY <1>1
  <2>2. w \in Seq(Nat) /\ Len(w) = WordSize
    OBVIOUS
  <2>3. Msg!FlattenSeq(<<w>>) = w
    BY <2>2, FlattenFew
  <2>4. Len(ws) = 1 /\ WordSize * 1 = WordSize
    BY <2>1
  <2> QED BY <2>1, <2>2, <2>3, <2>4
<1>2. CASE \E w, y \in Words : ws = <<w, y>>
  <2>1. PICK w \in Words, y \in Words : ws = <<w, y>>
    BY <1>2
  <2>2. w \in Seq(Nat) /\ Len(w) = WordSize /\ y \in Seq(Nat) /\ Len(y) = WordSize
    OBVIOUS
  <2>3. Msg!FlattenSeq(<<w, y>>) = w \o y
    BY <2>2, FlattenFew
  <2>4. w \o y \in Seq(Nat) /\ Len(w \o y) = Len(w) + Len(y)
    BY <2>2
  <2>5. Len(ws) = 2 /\ WordSize * 2 = WordSize + WordSize
    BY <2>1
  <2> QED BY <2>1, <2>2, <2>3, <2>4, <2>5
<1> QED BY <1>1, <1>2

\* Items are made with the bytes of their values.
LEMMA ItemIs ==
  ASSUME NEW kind \in {"bool", "word", "object", "string", "array"}, NEW value \in Seq(Nat)
  PROVE  LET x == Msg!Item(kind, value) IN
         /\ x \in [kind : Kinds, value : Seq(Nat)] /\ x.kind = kind /\ x.value = value /\ GoodKind(x)
         /\ kind # "string" => Msg!BytesOf(x) = value
         /\ kind = "string" => Msg!BytesOf(x) = Msg!hostToSharemindNetOrder(Len(value)) \o value
<1>1. kind \in Kinds
  BY DEF Kinds
<1> DEFINE x == Msg!Item(kind, value)
<1>2. x.kind = kind /\ x.value = value /\ x \in [kind : Kinds, value : Seq(Nat)]
  BY <1>1 DEF Msg!Item
<1> HIDE DEF x
<1>3. /\ kind # "string" => Msg!BytesOf(x) = value
      /\ kind = "string" => Msg!BytesOf(x) = Msg!hostToSharemindNetOrder(Len(value)) \o value
  BY <1>2 DEF Msg!BytesOf
<1> QED BY <1>1, <1>2, <1>3 DEF GoodKind, x

\* Where the next bytes are d, and the item is made of them, they are read.
LEMMA PeekIs ==
  ASSUME NEW s \in Seq(Nat), NEW from \in Nat, NEW d \in Seq(Nat), from + Len(d) <= Len(s),
         \A j \in 1..Len(d) : s[from + j] = d[j]
  PROVE  SubSeq(s, from + 1, from + Len(d)) = d
<1> DEFINE e == SubSeq(s, from + 1, from + Len(d))
<1>1. Len(d) \in Nat
  OBVIOUS
<1>2. e \in Seq(Nat) /\ Len(e) = Len(d) /\ \A j \in 1..Len(d) : e[j] = s[from + j]
  BY <1>1, PartIs
<1> HIDE DEF e
<1>3. e = d
  BY <1>2, SeqEqual
<1> QED BY <1>3 DEF e

\* Reading a word keeps the invariant.
LEMMA ReadWordStep == ASSUME MsgInv, Msg!ReadWord PROVE MsgInv'
<1>1. in_offset \in 0..Len(incoming) /\ Len(incoming) \in Nat /\ in_offset \in Nat /\ WordSize \in Nat /\ incoming \in Seq(Nat)
  BY MessageAssumption DEF MsgInv
<1>2. CASE Len(incoming) - in_offset < WordSize
  <2>1. Msg!Ends("word", WordSize, FALSE, in_offset, <<>>)
    BY <1>2 DEF Msg!ReadWord, Msg!Remaining
  <2> QED BY <1>1, <2>1, EndsStep
<1>3. CASE ~(Len(incoming) - in_offset < WordSize)
  <2> DEFINE value == Msg!Peek(in_offset, WordSize)
             offset == in_offset + WordSize
  <2>1. Msg!Ends("word", WordSize, TRUE, offset, value)
    BY <1>3 DEF Msg!ReadWord, Msg!Remaining
  <2>2. offset \in 0..Len(incoming) /\ offset >= in_offset + WordSize
    BY <1>1, <1>3
  <2>3. ASSUME matched < Len(items), Msg!NextItem.kind = "word"
        PROVE  value = items[matched+1].value /\ offset = in_offset + Len(Msg!BytesOf(items[matched+1]))
    <3> DEFINE x == items[matched+1]
               d == Msg!BytesOf(x)
    <3>1. Len(incoming) > 0
      BY <2>1 DEF Msg!Ends
    <3>2. /\ Msg!NextItem = x /\ GoodItem(x) /\ in_offset + Len(d) <= Len(incoming)
          /\ \A j \in 1..Len(d) : incoming[in_offset + j] = d[j]
      BY <2>3, <3>1, NextIs
    <3> HIDE DEF x
    <3>3. d = x.value /\ Len(d) = WordSize /\ d \in Seq(Nat)
      BY <2>3, <3>2 DEF Msg!BytesOf, GoodItem
    <3> HIDE DEF d
    <3>4. SubSeq(incoming, in_offset + 1, in_offset + Len(d)) = d
      BY <1>1, <3>2, <3>3, PeekIs
    <3> QED BY <3>3, <3>4 DEF d, x, Msg!Peek
  <2> HIDE DEF value, offset
  <2> QED BY <2>1, <2>2, <2>3, EndsStep
<1> QED BY <1>2, <1>3

\* Reading a bool keeps the invariant.
LEMMA ReadBoolStep == ASSUME MsgInv, Msg!ReadBool PROVE MsgInv'
<1>1. in_offset \in 0..Len(incoming) /\ Len(incoming) \in Nat /\ in_offset \in Nat /\ incoming \in Seq(Nat)
  BY DEF MsgInv
<1> DEFINE bad == Len(incoming) - in_offset < 1 \/ Msg!Peek(in_offset, 1)[1] > 1
<1>2. CASE bad
  <2>1. Msg!Ends("bool", 1, FALSE, in_offset, <<>>)
    BY <1>2 DEF Msg!ReadBool, Msg!Remaining
  <2> QED BY <1>1, <2>1, EndsStep
<1>3. CASE ~bad
  <2> DEFINE value == Msg!Peek(in_offset, 1)
             offset == in_offset + 1
  <2>1. Msg!Ends("bool", 1, TRUE, offset, value)
    BY <1>3 DEF Msg!ReadBool, Msg!Remaining
  <2>2. offset \in 0..Len(incoming) /\ offset >= in_offset + 1
    BY <1>1, <1>3
  <2>3. ASSUME matched < Len(items), Msg!NextItem.kind = "bool"
        PROVE  value = items[matched+1].value /\ offset = in_offset + Len(Msg!BytesOf(items[matched+1]))
    <3> DEFINE x == items[matched+1]
               d == Msg!BytesOf(x)
    <3>1. Len(incoming) > 0
      BY <2>1 DEF Msg!Ends
    <3>2. /\ Msg!NextItem = x /\ GoodItem(x) /\ in_offset + Len(d) <= Len(incoming)
          /\ \A j \in 1..Len(d) : incoming[in_offset + j] = d[j]
      BY <2>3, <3>1, NextIs
    <3> HIDE DEF x
    <3>3. d = x.value /\ Len(d) = 1 /\ d \in Seq(Nat)
      BY <2>3, <3>2 DEF Msg!BytesOf, GoodItem
    <3> HIDE DEF d
    <3>4. SubSeq(incoming, in_offset + 1, in_offset + Len(d)) = d
      BY <1>1, <3>2, <3>3, PeekIs
    <3> QED BY <3>3, <3>4 DEF d, x, Msg!Peek
  <2> HIDE DEF value, offset
  <2> QED BY <2>1, <2>2, <2>3, EndsStep
<1> QED BY <1>2, <1>3

\* Reading a size keeps the invariant: no item is one.
LEMMA ReadSizeStep == ASSUME MsgInv, Msg!ReadSize PROVE MsgInv'
<1>1. in_offset \in 0..Len(incoming) /\ Len(incoming) \in Nat /\ in_offset \in Nat /\ SizeBytes \in Nat /\ incoming \in Seq(Nat)
  BY MessageAssumption DEF MsgInv
<1>2. ASSUME NEW kind \in {"size", "exception"}, matched < Len(items), Len(incoming) > 0 PROVE Msg!NextItem.kind # kind
  <2>1. /\ Msg!NextItem = items[matched+1] /\ matched + 1 \in 1..Len(items)
    BY <1>2, NextIs
  <2>2. GoodKind(items[matched+1])
    BY <2>1 DEF MsgInv, GoodItem
  <2> QED BY <2>1, <2>2 DEF GoodKind, Kinds
<1>3. CASE Len(incoming) - in_offset < SizeBytes
  <2>1. Msg!Ends("size", SizeBytes, FALSE, in_offset, <<>>)
    BY <1>3 DEF Msg!ReadSize, Msg!Remaining
  <2> QED BY <1>1, <2>1, EndsStep
<1>4. CASE ~(Len(incoming) - in_offset < SizeBytes)
  <2> DEFINE offset == in_offset + SizeBytes
  <2>1. \E kind \in {"size", "exception"} : \E value : Msg!Ends(kind, SizeBytes, TRUE, offset, value)
    BY <1>4 DEF Msg!ReadSize, Msg!Remaining
  <2>6. PICK kind \in {"size", "exception"} : \E value : Msg!Ends(kind, SizeBytes, TRUE, offset, value)
    BY <2>1
  <2>2. PICK value : Msg!Ends(kind, SizeBytes, TRUE, offset, value)
    BY <2>6
  <2>3. offset \in 0..Len(incoming) /\ offset >= in_offset + SizeBytes
    BY <1>1, <1>4
  <2>4. Len(incoming) > 0
    BY <2>2 DEF Msg!Ends
  <2>5. ~(matched < Len(items) /\ Msg!NextItem.kind = kind)
    BY <1>2, <2>4
  <2> HIDE DEF offset
  <2> QED BY <2>2, <2>3, <2>5, EndsStep
<1> QED BY <1>3, <1>4

\* Reading an array keeps the invariant.
LEMMA ReadArrayStep == ASSUME MsgInv, NEW size \in 0..SizeMax, Msg!ReadArray(size) PROVE MsgInv'
<1>1. /\ in_offset \in 0..Len(incoming) /\ Len(incoming) \in Nat /\ in_offset \in Nat /\ incoming \in Seq(Nat)
      /\ WordSize \in Nat \ {0} /\ SizeMax \in Nat /\ size \in Nat
  BY MessageAssumption DEF MsgInv
<1> DEFINE bytes == (WordSize * size) % (SizeMax + 1)
           bad == SizeMax \div WordSize < size \/ Len(incoming) - in_offset < bytes
<1>2. CASE bad
  <2>1. Msg!Ends("array", size, FALSE, in_offset, <<>>)
    BY <1>2 DEF Msg!ReadArray, Msg!Remaining
  <2> QED BY <1>1, <2>1, EndsStep
<1>3. CASE ~bad
  <2> DEFINE value == Msg!Peek(in_offset, bytes)
             offset == in_offset + bytes
  <2>1. Msg!Ends("array", size, TRUE, offset, value)
    BY <1>3 DEF Msg!ReadArray, Msg!Remaining
  <2>2. bytes = WordSize * size /\ bytes \in Nat /\ size <= bytes
    <3> DEFINE q == SizeMax \div WordSize
    <3>1. q \in Nat /\ WordSize * q <= SizeMax
      BY <1>1
    <3>2. size <= q
      BY <1>1, <1>3, <3>1
    <3> HIDE DEF q
    <3>3. WordSize * size <= WordSize * q /\ WordSize * size \in Nat /\ WordSize * q \in Nat
      BY <1>1, <3>1, <3>2
    <3>4. size <= WordSize * size
      BY <1>1
    <3> DEFINE z == WordSize * size
    <3>5. z \in Nat /\ z < SizeMax + 1
      BY <1>1, <3>1, <3>3
    <3> HIDE DEF z
    <3>6. z % (SizeMax + 1) = z
      BY <1>1, <3>5
    <3> QED BY <3>3, <3>4, <3>6 DEF z
  <2>3. offset \in 0..Len(incoming) /\ offset >= in_offset + size
    BY <1>1, <1>3, <2>2
  <2>4. ASSUME matched < Len(items), Msg!NextItem.kind = "array", Len(Msg!NextItem.value) = size * WordSize
        PROVE  value = items[matched+1].value /\ offset = in_offset + Len(Msg!BytesOf(items[matched+1]))
    <3> DEFINE x == items[matched+1]
               d == Msg!BytesOf(x)
    <3>1. Len(incoming) > 0
      BY <2>1 DEF Msg!Ends
    <3>2. /\ Msg!NextItem = x /\ GoodItem(x) /\ in_offset + Len(d) <= Len(incoming)
          /\ \A j \in 1..Len(d) : incoming[in_offset + j] = d[j]
      BY <2>4, <3>1, NextIs
    <3> HIDE DEF x
    <3>3. d = x.value /\ Len(d) = size * WordSize /\ d \in Seq(Nat)
      BY <2>4, <3>2 DEF Msg!BytesOf, GoodItem
    <3>4. size * WordSize = WordSize * size
      BY <1>1
    <3> HIDE DEF d, bytes
    <3>5. SubSeq(incoming, in_offset + 1, in_offset + Len(d)) = d
      BY <1>1, <3>2, <3>3, PeekIs
    <3> QED BY <2>2, <3>3, <3>4, <3>5 DEF d, x, Msg!Peek
  <2> HIDE DEF value, offset
  <2> QED BY <2>1, <2>3, <2>4, EndsStep
<1> QED BY <1>2, <1>3

\* Reading a string keeps the invariant, the failure after its size included.
LEMMA ReadStringStep == ASSUME MsgInv, Msg!ReadString PROVE MsgInv'
<1>1. /\ in_offset \in 0..Len(incoming) /\ Len(incoming) \in Nat /\ in_offset \in Nat /\ incoming \in Seq(Nat)
      /\ SizeBytes \in Nat /\ SizeMax \in Nat /\ SizeMax < Msg!Power[SizeBytes]
  BY MessageAssumption DEF MsgInv
<1> DEFINE length == Msg!ValueOf(Msg!Peek(in_offset, SizeBytes))
           start == in_offset + SizeBytes
<1>2. CASE Len(incoming) - in_offset < SizeBytes
  <2>1. Msg!Ends("string", 0, FALSE, in_offset, <<>>)
    BY <1>2 DEF Msg!ReadString, Msg!Remaining
  <2> QED BY <1>1, <2>1, EndsStep
<1>3. CASE ~(Len(incoming) - in_offset < SizeBytes) /\ length > Len(incoming) - start
  <2>1. Msg!Ends("string", length, FALSE, in_offset, <<>>)
    BY <1>3 DEF Msg!ReadString, Msg!Remaining
  <2> HIDE DEF length
  <2> QED BY <1>1, <2>1, EndsStep
<1>4. CASE ~(Len(incoming) - in_offset < SizeBytes) /\ ~(length > Len(incoming) - start)
  <2> DEFINE value == Msg!Peek(start, length)
             offset == start + length
  <2>1. Msg!Ends("string", length, TRUE, offset, value)
    BY <1>4 DEF Msg!ReadString, Msg!Remaining
  <2>2. length \in Nat
    <3>1. in_offset + SizeBytes <= Len(incoming)
      BY <1>1, <1>4
    <3>2. Msg!Peek(in_offset, SizeBytes) \in Seq(Nat)
      BY <1>1, <3>1, PartIs DEF Msg!Peek
    <3> QED BY <3>2, ValueOfNat
  <2>3. offset \in 0..Len(incoming) /\ offset >= in_offset + length
    <3> HIDE DEF length
    <3> QED BY <1>1, <1>4, <2>2
  <2>4. ASSUME matched < Len(items), Msg!NextItem.kind = "string"
        PROVE  value = items[matched+1].value /\ offset = in_offset + Len(Msg!BytesOf(items[matched+1]))
    <3> DEFINE x == items[matched+1]
               d == Msg!BytesOf(x)
               v == x.value
               l == Len(v)
               h == Msg!hostToSharemindNetOrder(l)
    <3>1. Len(incoming) > 0
      BY <2>1 DEF Msg!Ends
    <3>2. /\ Msg!NextItem = x /\ GoodItem(x) /\ in_offset + Len(d) <= Len(incoming)
          /\ \A j \in 1..Len(d) : incoming[in_offset + j] = d[j]
      BY <2>4, <3>1, NextIs
    <3> HIDE DEF x
    <3>3. v \in Seq(Nat) /\ l \in Nat /\ l <= SizeMax /\ d = h \o v
      BY <2>4, <3>2 DEF Msg!BytesOf, GoodItem
    <3>4. h \in Seq(Nat) /\ Len(h) = SizeBytes /\ Msg!ValueOf(h) = l
      <4>1. l < Msg!Power[SizeBytes] /\ l \in Nat
        <5>1. Msg!Power[SizeBytes] \in Nat
          BY <1>1, PowerIs
        <5> HIDE DEF l
        <5> QED BY <1>1, <3>3, <5>1
      <4> QED BY <4>1, SizeIs
    <3> HIDE DEF d, h, v
    <3>5. /\ Len(d) = SizeBytes + l /\ \A j \in 1..SizeBytes : d[j] = h[j]
          /\ \A j \in 1..l : d[SizeBytes + j] = v[j]
      <4>1. /\ Len(h \o v) = Len(h) + Len(v)
            /\ \A j \in 1..Len(h) : (h \o v)[j] = h[j]
            /\ \A j \in 1..Len(v) : (h \o v)[Len(h) + j] = v[j]
        BY <3>3, <3>4, ConcatIs
      <4> QED BY <3>3, <3>4, <4>1
    <3>6. \A j \in 1..Len(h) : incoming[in_offset + j] = h[j]
      <4>1. \A j \in 1..SizeBytes : j \in 1..Len(d)
        BY <1>1, <3>3, <3>5
      <4> QED BY <3>2, <3>4, <3>5, <4>1
    <3>7. SubSeq(incoming, in_offset + 1, in_offset + Len(h)) = h
      <4>1. in_offset + Len(h) <= Len(incoming)
        BY <1>1, <1>4, <3>4
      <4> QED BY <1>1, <3>4, <3>6, <4>1, PeekIs
    <3>8. length = l
      BY <3>4, <3>7 DEF Msg!Peek
    <3>9. start \in Nat /\ start + Len(v) <= Len(incoming)
      BY <1>1, <3>2, <3>3, <3>5
    <3>10. \A j \in 1..Len(v) : incoming[start + j] = v[j]
      <4>1. \A j \in 1..l : SizeBytes + j \in 1..Len(d) /\ start + j = in_offset + (SizeBytes + j)
        BY <1>1, <3>3, <3>5
      <4>2. \A j \in 1..l : incoming[in_offset + (SizeBytes + j)] = d[SizeBytes + j]
        BY <3>2, <4>1
      <4> HIDE DEF start
      <4> QED BY <3>5, <4>1, <4>2
    <3>11. SubSeq(incoming, start + 1, start + Len(v)) = v
      BY <1>1, <3>3, <3>9, <3>10, PeekIs
    <3>12. value = v
      BY <3>8, <3>11 DEF Msg!Peek
    <3>13. offset = in_offset + Len(d)
      <4> HIDE DEF length
      <4> QED BY <1>1, <3>3, <3>5, <3>8
    <3> QED BY <3>12, <3>13 DEF v, d, x
  <2> HIDE DEF value, offset, length
  <2> QED BY <2>1, <2>2, <2>3, <2>4, EndsStep
<1> QED BY <1>2, <1>3, <1>4

\* Every operation on messages keeps the invariant.
LEMMA MessageStep == MsgInv /\ Msg!Next => MsgInv'
<1> SUFFICES ASSUME MsgInv, Msg!Next PROVE MsgInv'
  OBVIOUS
<1>0. /\ WordSize \in Nat \ {0} /\ SizeBytes \in Nat \ {0} /\ SizeMax \in Nat /\ SizeMax < Msg!Power[SizeBytes]
      /\ \A w \in Words : w \in Seq(Nat) /\ Len(w) = WordSize
      /\ \A v \in Strings : v \in Seq(Nat) /\ Len(v) \in Nat
  <2>1. \A w \in Words : w \in [1..WordSize -> Nat]
    BY MessageAssumption
  <2> QED BY <2>1, MessageAssumption
<1>1. ASSUME NEW v \in {0, 1}, Msg!WriteBool(v) PROVE MsgInv'
  <2> DEFINE x == Msg!Item("bool", <<v>>)
  <2>1. <<v>> \in Seq(Nat) /\ Len(<<v>>) = 1
    OBVIOUS
  <2>2. /\ x \in [kind : Kinds, value : Seq(Nat)] /\ x.kind = "bool" /\ x.value = <<v>> /\ GoodKind(x)
        /\ Msg!BytesOf(x) = <<v>>
    BY <2>1, ItemIs
  <2>3. Msg!Add(Msg!BytesOf(x)) /\ Msg!Written(x) /\ Len(Msg!BytesOf(x)) <= Msg!spaceLeft
    BY <1>1, <2>1, <2>2 DEF Msg!WriteBool
  <2> HIDE DEF x
  <2>4. GoodItem(x)
    BY <2>1, <2>2 DEF GoodItem
  <2> QED BY <2>3, <2>4, WrittenStep
<1>2. ASSUME NEW w \in Words, Msg!WriteWord(w) PROVE MsgInv'
  <2> DEFINE x == Msg!Item("word", w)
  <2>1. w \in Seq(Nat) /\ Len(w) = WordSize
    BY <1>0
  <2>2. /\ x \in [kind : Kinds, value : Seq(Nat)] /\ x.kind = "word" /\ x.value = w /\ GoodKind(x)
        /\ Msg!BytesOf(x) = w
    BY <2>1, ItemIs
  <2>3. Msg!Add(Msg!BytesOf(x)) /\ Msg!Written(x) /\ Len(Msg!BytesOf(x)) <= Msg!spaceLeft
    BY <1>2, <2>1, <2>2 DEF Msg!WriteWord
  <2> HIDE DEF x
  <2>4. GoodItem(x)
    BY <1>0, <2>1, <2>2 DEF GoodItem
  <2> QED BY <2>3, <2>4, WrittenStep
<1>3. ASSUME NEW v \in Strings, Msg!WriteString(v) PROVE MsgInv'
  <2> DEFINE x == Msg!Item("string", v)
             h == Msg!hostToSharemindNetOrder(Len(v))
  <2>1. v \in Seq(Nat) /\ Len(v) \in Nat
    BY <1>0
  <2>2. /\ SizeBytes <= Msg!spaceLeft /\ Len(v) <= Msg!spaceLeft - SizeBytes
        /\ Msg!Add(h \o v) /\ Msg!Written(x) /\ Msg!spaceLeft = SizeMax - m_offset /\ m_offset \in Nat
    <3>1. /\ IF Len(v) = 0 THEN SizeBytes <= Msg!spaceLeft
             ELSE SizeBytes <= Msg!spaceLeft /\ Msg!spaceLeft - SizeBytes >= Len(v)
          /\ Msg!Add(h \o v) /\ Msg!Written(x)
      BY <1>3 DEF Msg!WriteString
    <3>2. Msg!spaceLeft = SizeMax - m_offset /\ m_offset \in Nat
      BY DEF Msg!spaceLeft, MsgInv
    <3> DEFINE l == Msg!spaceLeft
               n == Len(v)
    <3>3. l \in Int /\ n \in Nat
      BY <1>0, <2>1, <3>2
    <3> HIDE DEF l, n
    <3>4. IF n = 0 THEN SizeBytes <= l ELSE SizeBytes <= l /\ l - SizeBytes >= n
      BY <3>1 DEF l, n
    <3>5. SizeBytes <= l /\ n <= l - SizeBytes
      BY <1>0, <3>3, <3>4
    <3> QED BY <3>1, <3>2, <3>5 DEF l, n
  <2>3. Len(v) <= SizeMax
    BY <1>0, <2>1, <2>2
  <2>4. h \in Seq(Nat) /\ Len(h) = SizeBytes
    <3>1. Len(v) < Msg!Power[SizeBytes]
      <4>1. Msg!Power[SizeBytes] \in Nat
        BY <1>0, PowerIs
      <4> QED BY <1>0, <2>1, <2>3, <4>1
    <3> QED BY <2>1, <3>1, SizeIs
  <2>5. /\ x \in [kind : Kinds, value : Seq(Nat)] /\ x.kind = "string" /\ x.value = v /\ GoodKind(x)
        /\ Msg!BytesOf(x) = h \o v
    BY <2>1, ItemIs
  <2> HIDE DEF h, x
  <2>6. h \o v \in Seq(Nat) /\ Len(h \o v) = SizeBytes + Len(v)
    BY <2>1, <2>4, ConcatIs
  <2>7. GoodItem(x)
    <3>1. Len(h \o v) > 0
      BY <1>0, <2>1, <2>6
    <3> QED BY <2>3, <2>5, <2>6, <3>1 DEF GoodItem
  <2>8. Len(Msg!BytesOf(x)) <= Msg!spaceLeft
    BY <1>0, <2>1, <2>2, <2>5, <2>6
  <2> QED BY <2>2, <2>5, <2>7, <2>8, WrittenStep
<1>4. ASSUME NEW ws \in {<<w>> : w \in Words} \cup {<<w, y>> : w, y \in Words}, Msg!WriteArray(ws) PROVE MsgInv'
  <2> DEFINE f == Msg!FlattenSeq(ws)
             x == Msg!Item("array", f)
  <2>1. f \in Seq(Nat) /\ Len(f) = WordSize * Len(ws) /\ Len(ws) \in {1, 2}
    <3>1. (\E w \in Words : ws = <<w>>) \/ (\E w, y \in Words : ws = <<w, y>>)
      OBVIOUS
    <3>2. \A w \in Words : w \in Seq(Nat) /\ Len(w) = WordSize
      BY <1>0
    <3> HIDE DEF f
    <3> QED BY <1>0, <3>1, <3>2, WordsFlat DEF f
  <2> HIDE DEF f
  <2>2. /\ Msg!spaceLeft \div WordSize >= Len(ws) /\ Msg!Add(f) /\ Msg!Written(x)
        /\ Msg!spaceLeft = SizeMax - m_offset /\ m_offset \in Nat
    BY <1>4 DEF Msg!WriteArray, Msg!spaceLeft, MsgInv, f
  <2>3. Len(f) <= Msg!spaceLeft
    <3>1. Msg!spaceLeft \in Nat
      <4>1. Len(data) = m_offset /\ Len(data) <= SizeMax
        BY <2>2 DEF MsgInv, Msg!Add
      <4> DEFINE n == Len(data)
      <4>2. n \in Nat /\ n = m_offset /\ n <= SizeMax
        BY <2>2, <4>1
      <4> HIDE DEF n
      <4>3. SizeMax - m_offset \in Nat
        BY <1>0, <4>2
      <4> QED BY <2>2, <4>3
    <3> DEFINE l == Msg!spaceLeft
               q == l \div WordSize
               n == Len(ws)
    <3>2. q \in Nat /\ WordSize * q <= l
      BY <1>0, <3>1, DivIs
    <3> HIDE DEF l, q
    <3>3. n \in Nat /\ n <= q
      BY <2>1, <2>2, <3>2 DEF q, l
    <3> HIDE DEF n
    <3>4. WordSize * n <= WordSize * q /\ WordSize * n \in Nat /\ WordSize * q \in Nat
      BY <1>0, <3>2, <3>3
    <3> QED BY <2>1, <3>1, <3>2, <3>4 DEF n, l
  <2>4. /\ x \in [kind : Kinds, value : Seq(Nat)] /\ x.kind = "array" /\ GoodKind(x)
        /\ Msg!BytesOf(x) = f
    BY <2>1, ItemIs
  <2>5. Len(f) > 0
    <3>1. WordSize * 1 > 0 /\ WordSize * 2 > 0
      BY <1>0
    <3>2. CASE Len(ws) = 1
      BY <2>1, <3>1, <3>2
    <3>3. CASE Len(ws) = 2
      BY <2>1, <3>1, <3>3
    <3> QED BY <2>1, <3>2, <3>3
  <2>6. GoodItem(x)
    BY <2>1, <2>4, <2>5 DEF GoodItem
  <2> HIDE DEF x
  <2> QED BY <2>2, <2>3, <2>4, <2>6, WrittenStep
<1>5. ASSUME Msg!Rewind \/ \E p \in 0..SizeMax : Msg!Seek(p) PROVE MsgInv'
  <2>1. /\ m_offset' \in Nat
        /\ UNCHANGED <<data, items, incoming, in_offset, matched, call>>
    BY <1>5 DEF Msg!Rewind, Msg!Seek
  <2> QED BY <2>1 DEF MsgInv, InStep
<1>6. ASSUME NEW p \in 0..SizeMax, Msg!SeekIncoming(p) PROVE MsgInv'
  <2>1. /\ p < Len(incoming) /\ in_offset' = p /\ matched' = Msg!Mismatch /\ call' = Msg!Nothing
        /\ UNCHANGED <<data, m_offset, items, incoming>>
    BY <1>6 DEF Msg!SeekIncoming
  <2>2. call'.ok /\ call'.from = 0 /\ call'.asked = 0 /\ p >= 0 + 0
    BY <2>1 DEF Msg!Nothing
  <2>3. Len(incoming) \in Nat /\ p \in 0..Len(incoming)
    BY <2>1 DEF MsgInv
  <2> QED BY <2>1, <2>2, <2>3 DEF MsgInv
<1>7. ASSUME Msg!Receive PROVE MsgInv'
  <2>1. /\ incoming' = data /\ in_offset' = 0 /\ matched' = 0 /\ call' = Msg!Nothing
        /\ UNCHANGED <<data, m_offset, items>>
    BY <1>7 DEF Msg!Receive
  <2>2. call'.ok /\ call'.from = 0 /\ call'.asked = 0
    BY <2>1 DEF Msg!Nothing
  <2>3. Len(data) \in Nat /\ Len(items) \in Nat
    BY DEF MsgInv
  <2>4. Joined(items, 0) = <<>>
    BY <2>3, JoinedIs DEF MsgInv
  <2>5. InStep'
    BY <2>1, <2>3, <2>4 DEF InStep
  <2> QED BY <2>1, <2>2, <2>3, <2>5 DEF MsgInv
<1>8. ASSUME NEW v \in Strings, Msg!ReceiveOther(v) PROVE MsgInv'
  <2>1. /\ incoming' = v /\ in_offset' = 0 /\ matched' = Msg!Mismatch /\ call' = Msg!Nothing
        /\ UNCHANGED <<data, m_offset, items>>
    BY <1>8 DEF Msg!ReceiveOther
  <2>2. call'.ok /\ call'.from = 0 /\ call'.asked = 0
    BY <2>1 DEF Msg!Nothing
  <2>3. v \in Seq(Nat) /\ Len(v) \in Nat
    BY <1>0
  <2> QED BY <2>1, <2>2, <2>3 DEF MsgInv
<1>9. ASSUME NEW w \in Words, Msg!WriteObject(w) PROVE MsgInv'
  <2> DEFINE x == Msg!Item("object", w)
  <2>1. w \in Seq(Nat) /\ Len(w) = WordSize
    BY <1>0
  <2>2. /\ x \in [kind : Kinds, value : Seq(Nat)] /\ x.kind = "object" /\ x.value = w /\ GoodKind(x)
        /\ Msg!BytesOf(x) = w
    BY <2>1, ItemIs
  <2>3. Msg!Add(Msg!BytesOf(x)) /\ Msg!Written(x) /\ Len(Msg!BytesOf(x)) <= Msg!spaceLeft
    BY <1>9, <2>1, <2>2 DEF Msg!WriteObject
  <2> HIDE DEF x
  <2>4. GoodItem(x)
    BY <1>0, <2>1, <2>2 DEF GoodItem
  <2> QED BY <2>3, <2>4, WrittenStep
<1> QED BY <1>1, <1>2, <1>3, <1>4, <1>5, <1>6, <1>7, <1>8, <1>9, ReadWordStep, ReadBoolStep, ReadStringStep,
           ReadSizeStep, ReadArrayStep DEF Msg!Next

\* From the invariant follows what the run checks of messages.
LEMMA MessageSound == MsgInv => Msg!MessageAgrees
<1> SUFFICES ASSUME MsgInv PROVE Msg!MessageAgrees
  OBVIOUS
<1>1. Msg!WritesAreWhole
  <2>1. DOMAIN items = 1..Len(items)
    BY DEF MsgInv
  <2> QED BY <2>1 DEF MsgInv, Msg!WritesAreWhole, Joined, Coded
<1>2. Msg!ReadsWhatWasWritten
  <2>1. ASSUME matched \in 1..Len(items)
        PROVE  /\ call.ok => call.value = items[matched].value
               /\ in_offset = Len(Joined(items, matched))
    <3>1. Len(items) \in Nat
      BY DEF MsgInv
    <3>2. InStep /\ matched > 0
      BY <2>1, <3>1, MismatchIs
    <3> QED BY <3>2 DEF InStep
  <2> QED BY <2>1 DEF Msg!ReadsWhatWasWritten, Joined, Coded
<1>3. Msg!ReadsAreWhole
  <2>1. Len(incoming) \in Nat
    BY DEF MsgInv
  <2> QED BY <2>1 DEF MsgInv, Msg!ReadsAreWhole
<1> QED BY <1>1, <1>2, <1>3 DEF Msg!MessageAgrees

-----------------------------------------------------------------------------
(* Both *)

PiecesInv == /\ datatype = "message" => MsgInv
             /\ datatype = "packed" => PackInv

\* What is put together is taken apart again: a message gives back its items or says
\* that it cannot (NetworkMessage.h), and the fields of a packed structure are where
\* nothing else is (DynamicPackingInfo.h).
THEOREM PiecesAgreeHolds == DataSpec => []PiecesAgree
<1>1. DataInit => PiecesInv
  BY MessageInit, PackInit DEF DataInit, PiecesInv
<1>2. PiecesInv /\ [DataNext]_dataVars => PiecesInv'
  <2> SUFFICES ASSUME PiecesInv, [DataNext]_dataVars PROVE PiecesInv'
    OBVIOUS
  <2>1. datatype' = datatype
    BY DEF DataNext, dataVars
  <2>2. ASSUME datatype = "message" PROVE MsgInv'
    <3>1. MsgInv
      BY <2>2 DEF PiecesInv
    <3>2. CASE Msg!Next
      BY <3>1, <3>2, MessageStep
    <3>3. CASE UNCHANGED messageVars
      BY <3>1, <3>3 DEF messageVars, MsgInv, InStep
    <3> QED BY <2>2, <3>2, <3>3 DEF DataNext, dataVars
  <2>3. ASSUME datatype = "packed" PROVE PackInv'
    <3>1. PackInv
      BY <2>3 DEF PiecesInv
    <3>2. CASE Pack!Next
      BY <3>1, <3>2, PackStep
    <3>3. CASE UNCHANGED packedVars
      BY <3>1, <3>3 DEF packedVars, PackInv
    <3> QED BY <2>3, <3>2, <3>3 DEF DataNext, dataVars
  <2> QED BY <2>1, <2>2, <2>3 DEF PiecesInv
<1>3. PiecesInv => PiecesAgree
  BY MessageSound, PackSound DEF PiecesInv, PiecesAgree
<1> QED BY <1>1, <1>2, <1>3, PTL DEF DataSpec
=============================================================================
