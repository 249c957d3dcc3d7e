------------------------------ MODULE TaskQueue ------------------------------
(* What a ThreadPool promises: a first-in first-out queue of jobs from which *)
(* worker threads take one job at a time until the pool is stopped.  Strand  *)
(* and the pools derived from ThreadPool rely on nothing else.               *)
EXTENDS Sequences

CONSTANTS Threads,  \* the threads that may act as workers
          Jobs,     \* the functors that can be submitted
          None      \* not a job

VARIABLES queue,    \* jobs submitted and not yet taken, oldest first
          running,  \* the job each thread is executing, or None
          stopped

vars == <<queue, running, stopped>>

Queued == {queue[i] : i \in DOMAIN queue}

Init == /\ queue = <<>>
        /\ running = [t \in Threads |-> None]
        /\ stopped = FALSE

\* A job may be submitted again while it runs (by itself), not while queued.
Submit(j) == /\ j \notin Queued
             /\ queue' = Append(queue, j)
             /\ UNCHANGED <<running, stopped>>

Take(t) == /\ ~stopped
           /\ queue # <<>>
           /\ running[t] = None
           /\ running' = [running EXCEPT ![t] = Head(queue)]
           /\ queue' = Tail(queue)
           /\ UNCHANGED stopped

Finish(t) == /\ running[t] # None
             /\ running' = [running EXCEPT ![t] = None]
             /\ UNCHANGED <<queue, stopped>>

Stop == stopped' = TRUE /\ UNCHANGED <<queue, running>>

Next == \/ \E j \in Jobs : Submit(j)
        \/ \E t \in Threads : Take(t) \/ Finish(t)
        \/ Stop

Spec == Init /\ [][Next]_vars
=============================================================================
