----------------------------- MODULE ThreadPool -----------------------------
(* src/src/ThreadPool.h: a linked list of task wrappers that any thread      *)
(* appends to under m_tailMutex and workers pop from under m_headMutex.  The *)
(* last wrapper is a dummy: submit() moves the new job into the old dummy    *)
(* and links the new wrapper, now empty, behind it.  A worker keeps          *)
(* m_headMutex while it sleeps on m_dataCond, so at most one thread sleeps.  *)
(* A section under m_tailMutex is one step: TicketSpinLock excludes others,  *)
(* and every access to m_tail, m_stop and the dummy is in such a section.    *)
EXTENDS Integers, FiniteSets, Sequences

CONSTANTS Threads,    \* threads that may enter a worker function
          Jobs,       \* the functors (TaskBase objects)
          Reusable,   \* jobs that may resubmit their own wrapper while running
          Wrappers,   \* TaskWrapper objects; freed ones are used again
          None        \* null pointer, no job

ASSUME JobsAssumption == Reusable \subseteq Jobs /\ None \notin Jobs \cup Wrappers
\* Memory does not run out: every job and every thread can own a wrapper, and
\* the list has its dummy.
ASSUME WrappersAssumption ==
    /\ IsFiniteSet(Wrappers) /\ IsFiniteSet(Jobs) /\ IsFiniteSet(Threads)
    /\ Cardinality(Wrappers) > Cardinality(Jobs) + Cardinality(Threads)

VARIABLES value,      \* m_value of each wrapper
          next,       \* m_next of each wrapper
          m_head,     \* None between the two moves of a pop
          m_tail,
          m_stop,
          pc,         \* where each thread is in its worker function
          mode,       \* which worker function
          task,       \* the wrapper a worker has popped
          running,    \* the job it is executing
          order       \* history: the wrappers in the list, oldest first

list == <<value, next, m_head, m_tail, order>>
workers == <<pc, mode, task, running>>
vars == <<list, m_stop, workers>>

\* workerThread, workerThreadUntil, oneTaskWorkerThread, ...Until
Modes == {"forever", "until", "once", "onceUntil"}
Timed == {"until", "onceUntil"}
Loops == {"forever", "until"}

Init == /\ value = [w \in Wrappers |-> None]
        /\ next = [w \in Wrappers |-> None]
        /\ m_head = CHOOSE w \in Wrappers : TRUE
        /\ m_tail = m_head
        /\ m_stop = FALSE
        /\ pc = [t \in Threads |-> "outside"]
        /\ mode = [t \in Threads |-> "none"]
        /\ task = [t \in Threads |-> None]
        /\ running = [t \in Threads |-> None]
        /\ order = <<m_head>>

-----------------------------------------------------------------------------
(* The wrappers: in the list, with a worker, or free *)

Listed == {order[i] : i \in DOMAIN order}
Taken == {task[t] : t \in Threads} \ {None}
Free == Wrappers \ (Listed \cup Taken)

\* The jobs in the list, oldest first; the last wrapper is the dummy.
Pending == [i \in 1 .. Len(order) - 1 |-> value[order[i]]]

Alive == {value[w] : w \in Wrappers} \cup {running[t] : t \in Threads}

-----------------------------------------------------------------------------
(* submit() and notifyStop()                                                 *)

Asleep == {t \in Threads : pc[t] = "asleep"}

\* m_dataCond.notify_one()
NotifyOne == IF Asleep = {} THEN UNCHANGED pc
             ELSE \E t \in Asleep : pc' = [pc EXCEPT ![t] = "woken"]

\* The section of submit() under m_tailMutex, for a wrapper w with job j.
Link(w, j) ==
    /\ value' = [value EXCEPT ![m_tail] = j, ![w] = None]
    /\ next' = [next EXCEPT ![m_tail] = w]
    /\ m_tail' = w
    /\ order' = Append(order, w)

\* Bug: submit() forgets to notify.
SubmitSilent(j) ==
    /\ j \notin Alive
    /\ Link(CHOOSE w \in Free : TRUE, j)
    /\ UNCHANGED <<m_head, m_stop, workers>>

\* Somebody, perhaps a running job, creates a task and submits it.
Submit(j) ==
    /\ j \notin Alive
    /\ Link(CHOOSE w \in Free : TRUE, j)
    /\ NotifyOne
    /\ UNCHANGED <<m_head, m_stop, mode, task, running>>

\* A running job passes the wrapper it was given back to submit().
Resubmit(t) ==
    /\ pc[t] = "run"
    /\ task[t] # None
    /\ running[t] \in Reusable
    /\ Link(task[t], running[t])
    /\ task' = [task EXCEPT ![t] = None]
    /\ NotifyOne
    /\ UNCHANGED <<m_head, m_stop, mode, running>>

NotifyStop ==
    /\ m_stop' = TRUE
    /\ pc' = [t \in Threads |-> IF t \in Asleep THEN "woken" ELSE pc[t]]
    /\ UNCHANGED <<list, mode, task, running>>

-----------------------------------------------------------------------------
(* The worker functions                                                      *)

Enter(t, m) ==
    /\ pc[t] = "outside"
    /\ pc' = [pc EXCEPT ![t] = "lockHead"]
    /\ mode' = [mode EXCEPT ![t] = m]
    /\ UNCHANGED <<list, m_stop, task, running>>

InHeadMutex(t) == pc[t] \in {"test", "asleep", "woken", "pop", "advance"}

LockHead(t) ==
    /\ pc[t] = "lockHead"
    /\ \A u \in Threads : ~InHeadMutex(u)
    /\ pc' = [pc EXCEPT ![t] = "test"]
    /\ UNCHANGED <<list, m_stop, mode, task, running>>

\* The worker function returns StopNotified or Timeout, and releases its locks.
Return(t) ==
    /\ pc' = [pc EXCEPT ![t] = "outside"]
    /\ mode' = [mode EXCEPT ![t] = "none"]
    /\ UNCHANGED <<list, m_stop, task, running>>

\* One turn of the loop of waitAndPop(), under both mutexes.
Tests(t) == pc[t] \in {"test", "woken"}

TestStop(t) == Tests(t) /\ m_stop /\ Return(t)

\* Bug: the emptiness test comes before the test of m_stop.
TestFoundIgnoresStop(t) ==
    /\ Tests(t) /\ m_head # m_tail
    /\ pc' = [pc EXCEPT ![t] = "pop"]
    /\ UNCHANGED <<list, m_stop, mode, task, running>>

TestFound(t) ==
    /\ Tests(t) /\ ~m_stop /\ m_head # m_tail
    /\ pc' = [pc EXCEPT ![t] = "pop"]
    /\ UNCHANGED <<list, m_stop, mode, task, running>>

TestEmpty(t) ==
    /\ Tests(t) /\ ~m_stop /\ m_head = m_tail
    /\ pc' = [pc EXCEPT ![t] = "asleep"]
    /\ UNCHANGED <<list, m_stop, mode, task, running>>

\* m_dataCond may wake a sleeper without a notification ...
SpuriousWakeup(t) ==
    /\ pc[t] = "asleep"
    /\ pc' = [pc EXCEPT ![t] = "woken"]
    /\ UNCHANGED <<list, m_stop, mode, task, running>>

\* ... and wait_until() may report that the deadline has passed, also to a
\* thread that was notified; waitAndPop() then returns without testing again.
Timeout(t) == /\ pc[t] \in {"asleep", "woken"}
              /\ mode[t] \in Timed
              /\ Return(t)

\* oldHead = std::move(m_head), outside m_tailMutex
Pop(t) ==
    /\ pc[t] = "pop"
    /\ task' = [task EXCEPT ![t] = m_head]
    /\ m_head' = None
    /\ order' = Tail(order)
    /\ pc' = [pc EXCEPT ![t] = "advance"]
    /\ UNCHANGED <<value, next, m_tail, m_stop, mode, running>>

\* m_head = std::move(oldHead->m_next); m_headMutex is released on return, and
\* the worker function calls the job.
Advance(t) ==
    /\ pc[t] = "advance"
    /\ m_head' = next[task[t]]
    /\ next' = [next EXCEPT ![task[t]] = None]
    /\ running' = [running EXCEPT ![t] = value[task[t]]]
    /\ pc' = [pc EXCEPT ![t] = "run"]
    /\ UNCHANGED <<value, m_tail, order, m_stop, mode, task>>

\* The job returns: a wrapper it has not taken over is destroyed with the job,
\* and a one-task function is done.
Finish(t) ==
    /\ pc[t] = "run"
    /\ value' = [w \in Wrappers |-> IF w = task[t] THEN None ELSE value[w]]
    /\ task' = [task EXCEPT ![t] = None]
    /\ running' = [running EXCEPT ![t] = None]
    /\ IF mode[t] \in Loops
       THEN pc' = [pc EXCEPT ![t] = "lockHead"] /\ UNCHANGED mode
       ELSE pc' = [pc EXCEPT ![t] = "outside"] /\ mode' = [mode EXCEPT ![t] = "none"]
    /\ UNCHANGED <<next, m_head, m_tail, order, m_stop>>

WaitAndPop(t) == \/ LockHead(t) \/ TestStop(t) \/ TestFound(t) \/ TestEmpty(t)
                 \/ SpuriousWakeup(t) \/ Timeout(t) \/ Pop(t) \/ Advance(t)

Worker(t) == WaitAndPop(t) \/ Resubmit(t) \/ Finish(t)

Next == \/ \E j \in Jobs : Submit(j)
        \/ NotifyStop
        \/ \E t \in Threads : Worker(t) \/ \E m \in Modes : Enter(t, m)

\* A thread inside a worker function is scheduled and jobs terminate.  No
\* fairness of m_headMutex: some thread that wants a free mutex gets it.
WorkerFairness ==
    /\ WF_vars(\E t \in Threads : LockHead(t))
    /\ \A t \in Threads : /\ WF_vars(TestStop(t) \/ TestFound(t) \/ TestEmpty(t))
                          /\ WF_vars(Pop(t) \/ Advance(t))
                          /\ WF_vars(Finish(t))
                          /\ WF_vars(Timeout(t))

Spec == Init /\ [][Next]_vars /\ WorkerFairness

-----------------------------------------------------------------------------
(* Properties                                                                *)

\* Pointers point to wrappers, a thread is at one point of a worker function;
\* m_head is null only in the middle of a pop (assert(m_head) of waitAndPop).
TypeOK ==
    /\ value \in [Wrappers -> Jobs \cup {None}]
    /\ next \in [Wrappers -> Wrappers \cup {None}]
    /\ m_head \in Wrappers \cup {None}
    /\ m_head = None <=> \E t \in Threads : pc[t] = "advance"
    /\ m_tail \in Wrappers
    /\ m_stop \in BOOLEAN
    /\ pc \in [Threads -> {"outside", "lockHead", "test", "asleep", "woken",
                           "pop", "advance", "run"}]
    /\ mode \in [Threads -> Modes \cup {"none"}]
    /\ task \in [Threads -> Wrappers \cup {None}]
    /\ running \in [Threads -> Jobs \cup {None}]

\* A worker never sleeps through work or through a stop: the one notification
\* of a submit() cannot be lost, although a deadline may swallow it.
NoLostWakeup == Asleep # {} => m_head = m_tail /\ ~m_stop

\* A job is committed to a worker when the worker sees the list non-empty
\* under both mutexes; from then on the pool behaves as the first-in first-out
\* queue of TaskQueue: each submission runs once, in order, none after a stop.
Popping(t) == pc[t] = "pop"
Uncommitted == IF \E t \in Threads : Popping(t) THEN Tail(Pending) ELSE Pending
Committed == [t \in Threads |-> CASE Popping(t) -> value[m_head]
                                  [] pc[t] = "advance" -> value[task[t]]
                                  [] OTHER -> running[t]]
Queue == INSTANCE TaskQueue
    WITH queue <- Uncommitted, running <- Committed, stopped <- m_stop
ImplementsTaskQueue == Queue!Spec
=============================================================================
