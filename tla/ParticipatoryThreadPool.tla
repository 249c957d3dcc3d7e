---------------------- MODULE ParticipatoryThreadPool ----------------------
(* src/src/ParticipatoryThreadPool.h: a ThreadPool whose workers are threads *)
(* that callers lend to it.  A context object counts the threads inside in   *)
(* m_numParticipants; join() waits until the count is zero.  Threads waiting *)
(* to be counted and the joiner sleep on the same condition variable m_cond. *)
EXTENDS ThreadPool

CONSTANT MaxParticipants    \* the largest value of the counter, 2^w - 1

ASSUME MaxAssumption == MaxParticipants \in Nat \ {0}

VARIABLES m_numParticipants,
          place,    \* where each thread is with respect to its context object
          wish,     \* which worker function it will enter
          joiner    \* the thread that calls join() and stopAndJoin()

pvars == <<m_numParticipants, place, wish, joiner>>
allvars == <<vars, pvars>>

PInit == /\ Init
         /\ m_numParticipants = 0
         /\ place = [t \in Threads |-> "away"]
         /\ wish = [t \in Threads |-> "none"]
         /\ joiner = "idle"

\* participate, participateUntil/For, participateOnce, participateOnceUntil/For
Participate(t, m) == /\ place[t] = "away"
                     /\ place' = [place EXCEPT ![t] = "test"]
                     /\ wish' = [wish EXCEPT ![t] = m]
                     /\ UNCHANGED <<vars, m_numParticipants, joiner>>

\* The context is constructed and the worker function is called.
Admit(t) == /\ place[t] = "test"
            /\ m_numParticipants < MaxParticipants
            /\ m_numParticipants' = m_numParticipants + 1
            /\ place' = [place EXCEPT ![t] = "in"]
            /\ Enter(t, wish[t])
            /\ wish' = [wish EXCEPT ![t] = "none"]
            /\ UNCHANGED joiner

Block(t) == /\ place[t] = "test"
            /\ m_numParticipants >= MaxParticipants
            /\ place' = [place EXCEPT ![t] = "asleep"]
            /\ UNCHANGED <<vars, m_numParticipants, wish, joiner>>

\* wait_until() with a predicate: past the deadline the predicate decides, so
\* only a thread that still finds the pool full returns Timeout.
GiveUp(t) == /\ place[t] = "asleep"
             /\ wish[t] \in Timed
             /\ m_numParticipants >= MaxParticipants
             /\ place' = [place EXCEPT ![t] = "away"]
             /\ wish' = [wish EXCEPT ![t] = "none"]
             /\ UNCHANGED <<vars, m_numParticipants, joiner>>

\* Bug: the destructor notifies only when the pool was full.
LeaveNotifiesIfFull(t) ==
    /\ place[t] = "in"
    /\ pc[t] = "outside"
    /\ m_numParticipants' = m_numParticipants - 1
    /\ place' = [u \in Threads |-> CASE u = t -> "away"
                                     [] place[u] = "asleep" -> "test"
                                     [] OTHER -> place[u]]
    /\ joiner' = IF joiner = "asleep" /\ m_numParticipants = MaxParticipants
                 THEN "test" ELSE joiner
    /\ UNCHANGED <<vars, wish>>

\* Bug: the destructor of the context runs before the worker function returns.
LeaveEarly(t) ==
    /\ place[t] = "in"
    /\ m_numParticipants' = m_numParticipants - 1
    /\ place' = [u \in Threads |-> CASE u = t -> "away"
                                     [] place[u] = "asleep" -> "test"
                                     [] OTHER -> place[u]]
    /\ joiner' = IF joiner = "asleep" THEN "test" ELSE joiner
    /\ UNCHANGED <<vars, wish>>

\* The worker function has returned; the destructor of the context counts the
\* thread out and wakes everyone.
Leave(t) == /\ place[t] = "in"
            /\ pc[t] = "outside"
            /\ m_numParticipants' = m_numParticipants - 1
            /\ place' = [u \in Threads |-> CASE u = t -> "away"
                                             [] place[u] = "asleep" -> "test"
                                             [] OTHER -> place[u]]
            /\ joiner' = IF joiner = "asleep" THEN "test" ELSE joiner
            /\ UNCHANGED <<vars, wish>>

Join == /\ joiner = "idle"
        /\ joiner' = "test"
        /\ UNCHANGED <<vars, m_numParticipants, place, wish>>

\* stopAndJoin(), also the destructor
StopAndJoin == /\ joiner = "idle"
               /\ NotifyStop
               /\ joiner' = "test"
               /\ UNCHANGED <<m_numParticipants, place, wish>>

\* One evaluation of the predicate of join() under m_mutex.
JoinTest == /\ joiner = "test"
            /\ joiner' = IF m_numParticipants <= 0 THEN "idle" ELSE "asleep"
            /\ UNCHANGED <<vars, m_numParticipants, place, wish>>

PSubmit(j) == Submit(j) /\ UNCHANGED pvars
PWorker(t) == Worker(t) /\ UNCHANGED pvars

PNext == \/ \E t \in Threads : \/ \E m \in Modes : Participate(t, m)
                               \/ Admit(t) \/ Block(t) \/ GiveUp(t)
                               \/ PWorker(t) \/ Leave(t)
         \/ \E j \in Jobs : PSubmit(j)
         \/ Join \/ StopAndJoin \/ JoinTest

\* Threads inside a member function are scheduled and jobs terminate.
PFairness ==
    /\ WF_allvars(JoinTest)
    /\ WF_allvars((\E t \in Threads : LockHead(t)) /\ UNCHANGED pvars)
    /\ \A t \in Threads :
        /\ WF_allvars(Admit(t) \/ Block(t))
        /\ WF_allvars(Leave(t))
        /\ WF_allvars((TestStop(t) \/ TestFound(t) \/ TestEmpty(t)) /\ UNCHANGED pvars)
        /\ WF_allvars((Pop(t) \/ Advance(t)) /\ UNCHANGED pvars)
        /\ WF_allvars(Finish(t) /\ UNCHANGED pvars)

PSpec == PInit /\ [][PNext]_allvars /\ PFairness

-----------------------------------------------------------------------------
\* The counter stays in its range, a thread is in a worker function only while
\* it has a context.
PTypeOK == /\ TypeOK
           /\ m_numParticipants \in 0 .. MaxParticipants
           /\ place \in [Threads -> {"away", "test", "asleep", "in"}]
           /\ wish \in [Threads -> Modes \cup {"none"}]
           /\ joiner \in {"idle", "test", "asleep"}

\* join() and the destructor return only when no thread is in a worker
\* function: nobody holds a lock of the pool or runs one of its jobs.
JoinSawNobody ==
    [][joiner = "test" /\ joiner' = "idle"
         => \A t \in Threads : pc[t] = "outside" /\ place[t] # "in"]_allvars

\* After a stop join() returns if callers stop coming back.  (They may overlap
\* for ever: then the count never is zero, and join() never returns.)
NoNewParticipants ==
    <>[][\A t \in Threads : place[t] = "away" => place'[t] = "away"]_allvars
JoinReturns == NoNewParticipants => (joiner # "idle" /\ m_stop ~> joiner = "idle")
=============================================================================
