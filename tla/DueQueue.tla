------------------------------ MODULE DueQueue ------------------------------
(* What TimeoutsThread promises: tasks arrive with the time they are due at; *)
(* one at a time is started, never before its time, always the earliest, and *)
(* among those due at the same time the one that arrived first. Tasks that   *)
(* wait when the queue is given up are dropped.                              *)
EXTENDS Naturals, SequencesExt

CONSTANTS Tasks, Times, None

VARIABLES now,      \* the clock
          waiting,  \* [task, time] in order of arrival
          running   \* the task being executed, or None

vars == <<now, waiting, running>>

Init == now \in Times /\ waiting = <<>> /\ running = None

Arrive == /\ \E t \in Tasks, d \in Times :
                waiting' = Append(waiting, [task |-> t, time |-> d])
          /\ UNCHANGED <<now, running>>

IsNext(i) == \A j \in DOMAIN waiting :
                \/ waiting[i].time < waiting[j].time
                \/ waiting[i].time = waiting[j].time /\ i <= j

Start == /\ running = None
         /\ \E i \in DOMAIN waiting :
               /\ waiting[i].time <= now
               /\ IsNext(i)
               /\ running' = waiting[i].task
               /\ waiting' = RemoveAt(waiting, i)
         /\ UNCHANGED now

Finish == running # None /\ running' = None /\ UNCHANGED <<now, waiting>>

Drop == running = None /\ waiting' = <<>> /\ UNCHANGED <<now, running>>

Pass == now' > now /\ UNCHANGED <<waiting, running>>

Next == Arrive \/ Start \/ Finish \/ Drop \/ Pass

Spec == Init /\ [][Next]_vars
=============================================================================
