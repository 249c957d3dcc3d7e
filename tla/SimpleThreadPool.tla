-------------------------- MODULE SimpleThreadPool --------------------------
(* src/src/SimpleThreadPool.h: a ThreadPool that owns its worker threads.    *)
(* The constructor starts them one by one and takes those already started    *)
(* down again when the system refuses one; join() waits for all of them      *)
(* under m_threadsMutex; the destructor stops and joins.                     *)
EXTENDS ThreadPool

CONSTANTS Callers,  \* threads that call stopAndJoin() and join()
          Owner     \* the one that constructs and destroys the pool

ASSUME OwnerAssumption == Owner \in Callers

VARIABLES m_threads,  \* the threads started so far
          life,       \* constructor and destructor progress
          caller      \* where each caller is in join()

simpleVars == <<m_threads, life, caller>>
simplePoolVars == <<vars, simpleVars>>

SimpleInit == /\ Init
              /\ m_threads = {}
              /\ life = "constructing"
              /\ caller = [c \in Callers |-> "idle"]

\* m_threads.emplace_back(&SimpleThreadPool::workerThread, this)
StartThread == /\ life = "constructing"
               /\ \E t \in Threads \ m_threads :
                     Enter(t, "forever") /\ m_threads' = m_threads \cup {t}
               /\ UNCHANGED <<life, caller>>

\* The thread constructor throws: catch (...) { stopAndJoin(); throw; }
StartThreadFails == /\ life = "constructing"
                    /\ m_threads # Threads
                    /\ life' = "destroying"
                    /\ caller' = [caller EXCEPT ![Owner] = "stop"]
                    /\ UNCHANGED <<vars, m_threads>>

Constructed == /\ life = "constructing"
               /\ m_threads = Threads
               /\ life' = "open"
               /\ UNCHANGED <<vars, m_threads, caller>>

CallJoin(c) == /\ life = "open"
               /\ caller[c] = "idle"
               /\ caller' = [caller EXCEPT ![c] = "lock"]
               /\ UNCHANGED <<vars, m_threads, life>>

CallStopAndJoin(c) == /\ life = "open"
                      /\ caller[c] = "idle"
                      /\ caller' = [caller EXCEPT ![c] = "stop"]
                      /\ UNCHANGED <<vars, m_threads, life>>

\* Bug: stopAndJoin() notifies only when it can have m_threadsMutex, which a
\* caller of join() keeps while it waits.
NotifyLate(c) == /\ caller[c] = "stop"
                 /\ \A d \in Callers : caller[d] # "join"
                 /\ NotifyStop
                 /\ caller' = [caller EXCEPT ![c] = "lock"]
                 /\ UNCHANGED <<m_threads, life>>

\* The first half of stopAndJoin(): notifyStop().
Notify(c) == /\ caller[c] = "stop"
             /\ NotifyStop
             /\ caller' = [caller EXCEPT ![c] = "lock"]
             /\ UNCHANGED <<m_threads, life>>

LockThreads(c) == /\ caller[c] = "lock"
                  /\ \A d \in Callers : caller[d] # "join"
                  /\ caller' = [caller EXCEPT ![c] = "join"]
                  /\ UNCHANGED <<vars, m_threads, life>>

\* Bug: only one thread is joined.
JoinThreadsFirst(c) ==
    /\ caller[c] = "join"
    /\ m_threads = {} \/ \E t \in m_threads : pc[t] = "outside"
    /\ caller' = [caller EXCEPT ![c] = "idle"]
    /\ life' = IF c = Owner /\ life = "destroying" THEN "gone" ELSE life
    /\ UNCHANGED <<vars, m_threads>>

\* The loop of join() ends when every thread has returned from workerThread();
\* after it the constructor rethrows or the destructor is done.
JoinThreads(c) ==
    /\ caller[c] = "join"
    /\ \A t \in m_threads : pc[t] = "outside"
    /\ caller' = [caller EXCEPT ![c] = "idle"]
    /\ life' = IF c = Owner /\ life = "destroying" THEN "gone" ELSE life
    /\ UNCHANGED <<vars, m_threads>>

\* ~SimpleThreadPool(): nobody else may be inside a member function.
Destroy == /\ life = "open"
           /\ \A c \in Callers : caller[c] = "idle"
           /\ life' = "destroying"
           /\ caller' = [caller EXCEPT ![Owner] = "stop"]
           /\ UNCHANGED <<vars, m_threads>>

\* Jobs come from users of an open pool, and from running jobs.
SimpleSubmit(j) == /\ life = "open" \/ \E t \in Threads : pc[t] = "run"
                   /\ Submit(j)
                   /\ UNCHANGED simpleVars

SimpleWorker(t) == Worker(t) /\ UNCHANGED simpleVars

SimpleNext == \/ StartThread \/ StartThreadFails \/ Constructed \/ Destroy
              \/ \E c \in Callers : \/ CallJoin(c) \/ CallStopAndJoin(c) \/ Notify(c)
                                    \/ LockThreads(c) \/ JoinThreads(c)
              \/ \E j \in Jobs : SimpleSubmit(j)
              \/ \E t \in Threads : SimpleWorker(t)

\* The constructor and join() proceed; jobs terminate.
SimpleFairness ==
    /\ WF_simplePoolVars(StartThread \/ Constructed)
    /\ WF_simplePoolVars(\E c \in Callers : LockThreads(c))
    /\ \A c \in Callers : WF_simplePoolVars(Notify(c)) /\ WF_simplePoolVars(JoinThreads(c))
    /\ WF_simplePoolVars((\E t \in Threads : LockHead(t)) /\ UNCHANGED simpleVars)
    /\ \A t \in Threads :
        /\ WF_simplePoolVars((TestStop(t) \/ TestFound(t) \/ TestEmpty(t)) /\ UNCHANGED simpleVars)
        /\ WF_simplePoolVars((Pop(t) \/ Advance(t)) /\ UNCHANGED simpleVars)
        /\ WF_simplePoolVars(Finish(t) /\ UNCHANGED simpleVars)

SimpleSpec == SimpleInit /\ [][SimpleNext]_simplePoolVars /\ SimpleFairness

-----------------------------------------------------------------------------
\* The constructor and the destructor are at one point each, a started thread
\* is in workerThread() until it is stopped.
SimpleTypeOK == /\ TypeOK
                /\ m_threads \subseteq Threads
                /\ life \in {"constructing", "open", "destroying", "gone"}
                /\ caller \in [Callers -> {"idle", "stop", "lock", "join"}]

\* No thread touches a pool whose destructor has returned, or whose constructor
\* has thrown.
GoneIsQuiet == life = "gone" => \A t \in Threads : pc[t] = "outside"

\* A call of stopAndJoin() ends all workers, although other callers may be
\* waiting inside join() with m_threadsMutex locked, and although jobs are left.
StopTakesEffect == \A c \in Callers :
    caller[c] = "stop" ~> m_stop /\ \A t \in Threads : pc[t] = "outside"

\* A pool with threads executes every job unless it is stopped, although jobs
\* resubmit themselves.
PendingJob(j) == \E w \in Listed : value[w] = j
JobsServed == \A j \in Jobs :
    PendingJob(j) ~> m_stop \/ \E t \in Threads : running[t] = j
=============================================================================
