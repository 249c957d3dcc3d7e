---------------------------- MODULE BoundedFifo ----------------------------
(* What CircBufferSCSP promises its one producer and its one consumer        *)
(* ("A one producer, one consumer thread circular FIFO buffer"): elements    *)
(* leave in the order they came and unmodified, and there are never more of  *)
(* them than the buffer has places.                                          *)
EXTENDS Naturals, Sequences

CONSTANTS Values,    \* what is stored
          Capacity   \* how many elements fit

VARIABLES queue,     \* elements written and not yet released, oldest first
          reading    \* elements the consumer has read and not yet released

Init == queue = <<>> /\ reading = <<>>

\* The producer publishes some elements.
Put == \E n \in 1..Capacity - Len(queue) : \E xs \in [1..n -> Values] :
          queue' = queue \o xs /\ UNCHANGED reading

\* The consumer reads the oldest elements, leaving them in place.
Look == \E n \in 1..Len(queue) :
          /\ reading = <<>>
          /\ reading' = SubSeq(queue, 1, n)
          /\ UNCHANGED queue

\* The consumer gives up the places of some of the elements it has read.
Release == \E n \in 0..Len(reading) :
          /\ queue' = SubSeq(queue, n + 1, Len(queue))
          /\ reading' = <<>>

Next == Put \/ Look \/ Release

Spec == Init /\ [][Next]_<<queue, reading>>
=============================================================================
