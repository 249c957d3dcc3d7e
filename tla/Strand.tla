------------------------------- MODULE Strand -------------------------------
(* src/src/Strand.h: serial jobs on a pool of many threads.  A strand owns a *)
(* list of jobs and one slice task.  While there is work the slice is in the *)
(* pool's queue or being run by a worker; run() executes one job and puts    *)
(* the slice back into the pool, or parks it in m_sliceTask.                 *)
(* The pool is the TaskQueue that ThreadPool is shown to implement.  The job *)
(* list has the shape of ThreadPool's and is kept here as its sequence.      *)
EXTENDS Integers, Sequences

CONSTANTS Threads,   \* workers of the pool
          Jobs,      \* jobs submitted to the strand
          Others,    \* jobs other users submit to the same pool
          Slice,     \* the strand's slice task
          Callers,   \* threads that call stopAndJoin() or stopAndMaybeJoin()
          None

ASSUME SliceAssumption == Slice \notin Others /\ None \notin Jobs \cup Others \cup {Slice}

VARIABLES poolQueue, poolRunning, poolStopped,
          jobs,          \* the strand's list, oldest first
          m_threadPool,  \* TRUE while the strand refers to the pool
          m_sliceTask,   \* TRUE while the slice is parked in the strand
          at,            \* where each worker is in run()
          current,       \* the strand's job it executes
          caller         \* where each caller is in stopAndJoin()

pool == <<poolQueue, poolRunning, poolStopped>>
vars == <<pool, jobs, m_threadPool, m_sliceTask, at, current, caller>>

Pool == INSTANCE TaskQueue WITH Jobs <- Others \cup {Slice},
    queue <- poolQueue, running <- poolRunning, stopped <- poolStopped

Init == /\ Pool!Init
        /\ jobs = <<>>
        /\ m_threadPool = TRUE
        /\ m_sliceTask = TRUE
        /\ at = [t \in Threads |-> "none"]
        /\ current = [t \in Threads |-> None]
        /\ caller = [c \in Callers |-> "idle"]

-----------------------------------------------------------------------------
\* Bug: submit() puts the slice on the pool although it is there or runs.
SubmitAlways(j) ==
    /\ j \notin {jobs[i] : i \in DOMAIN jobs}
    /\ \A t \in Threads : current[t] # j
    /\ jobs' = Append(jobs, j)
    /\ IF m_threadPool
       THEN poolQueue' = Append(poolQueue, Slice) /\ UNCHANGED <<poolRunning, poolStopped>>
       ELSE UNCHANGED pool
    /\ m_sliceTask' = (m_sliceTask /\ ~m_threadPool)
    /\ UNCHANGED <<m_threadPool, at, current, caller>>

\* submit(), under m_tailMutex: the slice goes to the pool unless it is there.
Submit(j) ==
    /\ j \notin {jobs[i] : i \in DOMAIN jobs}
    /\ \A t \in Threads : current[t] # j
    /\ jobs' = Append(jobs, j)
    /\ IF m_sliceTask /\ m_threadPool
       THEN Pool!Submit(Slice) /\ m_sliceTask' = FALSE
       ELSE UNCHANGED <<pool, m_sliceTask>>
    /\ UNCHANGED <<m_threadPool, at, current, caller>>

\* m_sliceTask = std::move(sliceTask); m_joinCond.notify_all()
Park == /\ m_sliceTask' = TRUE
        /\ caller' = [c \in Callers |-> IF caller[c] = "asleep" THEN "test" ELSE caller[c]]

\* A worker of the pool takes a task; if it is the slice, it is in run().
Take(t) ==
    /\ Pool!Take(t)
    /\ at' = [at EXCEPT ![t] = IF Head(poolQueue) = Slice THEN "start" ELSE "none"]
    /\ UNCHANGED <<jobs, m_threadPool, m_sliceTask, current, caller>>

\* The first section of run() in a stopped strand ...
RunDetached(t) ==
    /\ at[t] = "start" /\ ~m_threadPool
    /\ Park
    /\ at' = [at EXCEPT ![t] = "return"]
    /\ UNCHANGED <<pool, jobs, m_threadPool, current>>

\* Bug: the test of m_threadPool is missing.
RunJobAnyway(t) ==
    /\ at[t] = "start" /\ jobs # <<>>
    /\ current' = [current EXCEPT ![t] = Head(jobs)]
    /\ jobs' = Tail(jobs)
    /\ at' = [at EXCEPT ![t] = "job"]
    /\ UNCHANGED <<pool, m_threadPool, m_sliceTask, caller>>

\* ... and in a live one: the oldest job is unlinked, then executed.
RunJob(t) ==
    /\ at[t] = "start" /\ m_threadPool
    /\ current' = [current EXCEPT ![t] = Head(jobs)]
    /\ jobs' = Tail(jobs)
    /\ at' = [at EXCEPT ![t] = "job"]
    /\ UNCHANGED <<pool, m_threadPool, m_sliceTask, caller>>

JobReturns(t) ==
    /\ at[t] = "job"
    /\ current' = [current EXCEPT ![t] = None]
    /\ at' = [at EXCEPT ![t] = "after"]
    /\ UNCHANGED <<pool, jobs, m_threadPool, m_sliceTask, caller>>

\* Bug: the list of jobs is not looked at before the slice is put back.
RunAgainAlways(t) ==
    /\ at[t] = "after" /\ m_threadPool
    /\ Pool!Submit(Slice)
    /\ at' = [at EXCEPT ![t] = "return"]
    /\ UNCHANGED <<jobs, m_threadPool, m_sliceTask, current, caller>>

\* The last section of run(): more work, the slice goes back to the pool ...
RunAgain(t) ==
    /\ at[t] = "after" /\ m_threadPool /\ jobs # <<>>
    /\ Pool!Submit(Slice)
    /\ at' = [at EXCEPT ![t] = "return"]
    /\ UNCHANGED <<jobs, m_threadPool, m_sliceTask, current, caller>>

\* Bug: the slice is parked without waking the joiners.
RunParkSilent(t) ==
    /\ at[t] = "after" /\ ~(m_threadPool /\ jobs # <<>>)
    /\ m_sliceTask' = TRUE
    /\ at' = [at EXCEPT ![t] = "return"]
    /\ UNCHANGED <<pool, jobs, m_threadPool, current, caller>>

\* Bug: the slice is parked whatever the list holds.
RunParkAlways(t) ==
    /\ at[t] = "after"
    /\ Park
    /\ at' = [at EXCEPT ![t] = "return"]
    /\ UNCHANGED <<pool, jobs, m_threadPool, current>>

\* ... or it is parked.
RunPark(t) ==
    /\ at[t] = "after" /\ ~(m_threadPool /\ jobs # <<>>)
    /\ Park
    /\ at' = [at EXCEPT ![t] = "return"]
    /\ UNCHANGED <<pool, jobs, m_threadPool, current>>

\* The task is done for the pool: the slice's run(), or somebody else's job.
Finish(t) ==
    /\ at[t] \in {"none", "return"}
    /\ Pool!Finish(t)
    /\ at' = [at EXCEPT ![t] = "none"]
    /\ UNCHANGED <<jobs, m_threadPool, m_sliceTask, current, caller>>

-----------------------------------------------------------------------------
\* stopAndJoin(), the destructor, and stopAndMaybeJoin() outside the strand
StopAndJoin(c) ==
    /\ caller[c] = "idle"
    /\ m_threadPool' = FALSE
    /\ caller' = [caller EXCEPT ![c] = "test"]
    /\ UNCHANGED <<pool, jobs, m_sliceTask, at, current>>

\* Bug: the predicate of the wait is taken from m_threadPool.
JoinTestWrong(c) ==
    /\ caller[c] = "test"
    /\ caller' = [caller EXCEPT ![c] = IF ~m_threadPool THEN "joined" ELSE "asleep"]
    /\ UNCHANGED <<pool, jobs, m_threadPool, m_sliceTask, at, current>>

\* One evaluation of the predicate, under m_tailMutex.
JoinTest(c) ==
    /\ caller[c] = "test"
    /\ caller' = [caller EXCEPT ![c] = IF m_sliceTask THEN "joined" ELSE "asleep"]
    /\ UNCHANGED <<pool, jobs, m_threadPool, m_sliceTask, at, current>>

\* stopAndMaybeJoin() called by a job of the strand: the call stack of t
\* contains the strand, so it must not wait for itself.
StopFromJob(t) ==
    /\ at[t] = "job"
    /\ m_threadPool' = FALSE
    /\ UNCHANGED <<pool, jobs, m_sliceTask, at, current, caller>>

\* Other users of the pool
PoolSubmit(o) == /\ \A t \in Threads : poolRunning[t] # o
                 /\ Pool!Submit(o)
                 /\ UNCHANGED <<jobs, m_threadPool, m_sliceTask, at, current, caller>>

PoolStop == /\ Pool!Stop
            /\ UNCHANGED <<jobs, m_threadPool, m_sliceTask, at, current, caller>>

Run(t) == RunDetached(t) \/ RunJob(t) \/ JobReturns(t) \/ RunAgain(t) \/ RunPark(t)

Next == \/ \E j \in Jobs : Submit(j)
        \/ \E t \in Threads : Take(t) \/ Run(t) \/ Finish(t) \/ StopFromJob(t)
        \/ \E c \in Callers : StopAndJoin(c) \/ JoinTest(c)
        \/ \E o \in Others : PoolSubmit(o)
        \/ PoolStop

\* Some worker of the pool takes tasks (see JobsServed of SimpleThreadPool),
\* every thread that is inside run() or join() is scheduled, jobs terminate.
Fairness == /\ WF_vars(\E t \in Threads : Take(t))
            /\ \A t \in Threads : WF_vars(Run(t)) /\ WF_vars(Finish(t))
            /\ \A c \in Callers : WF_vars(JoinTest(c))

Spec == Init /\ [][Next]_vars /\ Fairness

-----------------------------------------------------------------------------
InRun(t) == at[t] \in {"start", "job", "after"}
InPool == \E i \in DOMAIN poolQueue : poolQueue[i] = Slice

\* The strand's fields have their types, and a thread is in run() exactly when
\* the pool has given it the slice.
TypeOK == /\ poolQueue \in Seq(Others \cup {Slice})
          /\ poolRunning \in [Threads -> Others \cup {Slice, None}]
          /\ poolStopped \in BOOLEAN
          /\ jobs \in Seq(Jobs)
          /\ m_threadPool \in BOOLEAN
          /\ m_sliceTask \in BOOLEAN
          /\ at \in [Threads -> {"none", "start", "job", "after", "return"}]
          /\ current \in [Threads -> Jobs \cup {None}]
          /\ caller \in [Callers -> {"idle", "test", "asleep", "joined"}]
          /\ \A t \in Threads : at[t] # "none" <=> poolRunning[t] = Slice

\* "no two jobs queued by this class will be executed in parallel" (line 41)
NoParallelJobs == \A t, u \in Threads : at[t] = "job" /\ at[u] = "job" => t = u

\* run() of a live strand finds a job: the assertions of lines 127 to 130.  The
\* slice is put on the pool by one thread and looks at the list in another,
\* later, after any number of submissions.
SliceHasWork == m_threadPool /\ (InPool \/ \E t \in Threads : at[t] = "start")
                    => jobs # <<>>

\* Once a join has returned, no worker is inside run() or ever will be, and no
\* job of the strand is running: the owner may free what the jobs use.
JoinedIsQuiet == (\E c \in Callers : caller[c] = "joined")
                     => ~InPool /\ \A t \in Threads : ~InRun(t)

Executed == IF \E t \in Threads : at[t] = "job"
            THEN current[CHOOSE t \in Threads : at[t] = "job"]
            ELSE None

\* The strand is itself a first-in first-out queue of jobs with one worker:
\* every job runs at most once, in the order of submission, none after a stop.
Serial == INSTANCE TaskQueue WITH Threads <- {Slice}, queue <- jobs,
    running <- [s \in {Slice} |-> Executed], stopped <- ~m_threadPool
ImplementsSerialQueue == Serial!Spec

\* Jobs of a strand that is not stopped run, if the pool is not stopped first.
JobsServed == \A j \in Jobs :
    (\E i \in DOMAIN jobs : jobs[i] = j)
        ~> \/ \E t \in Threads : current[t] = j
           \/ ~m_threadPool \/ poolStopped

\* stopAndJoin() returns, if the pool is not stopped before the slice has had
\* its turn: a slice left in the queue of a stopped pool is never parked.
JoinReturns == \A c \in Callers :
    caller[c] \in {"test", "asleep"} ~> caller[c] = "joined" \/ poolStopped
=============================================================================
