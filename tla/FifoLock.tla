------------------------------ MODULE FifoLock ------------------------------
(* What TicketSpinLock promises its callers: threads are admitted one at a   *)
(* time, in the order in which they asked.                                   *)
EXTENDS Sequences

CONSTANT Threads

VARIABLES queue,    \* the threads that asked and have not left, oldest first
          inside    \* TRUE iff the oldest of them holds the lock

vars == <<queue, inside>>

Queued == {queue[i] : i \in DOMAIN queue}

Init == queue = <<>> /\ inside = FALSE

Ask(t) == /\ t \notin Queued
          /\ queue' = Append(queue, t)
          /\ UNCHANGED inside

Enter == /\ queue # <<>>
         /\ ~inside
         /\ inside' = TRUE
         /\ UNCHANGED queue

Leave == /\ inside
         /\ inside' = FALSE
         /\ queue' = Tail(queue)

Next == (\E t \in Threads : Ask(t)) \/ Enter \/ Leave

\* Admission in order, and admission of the first one
Safety == Init /\ [][Next]_vars
Spec == Safety /\ WF_vars(Enter)
=============================================================================
