--------------------------- MODULE UnboundedFifo ---------------------------
(* What MpscWaitFreeSemiIntrusiveQueue promises: items come out in the order *)
(* in which their producers' exchanges of m_tail took place, none lost, none *)
(* twice, none changed.                                                      *)
EXTENDS Sequences

CONSTANT Items

VARIABLES queue,    \* items pushed and not yet popped
          popped    \* the item popped last

Init == queue = <<>> /\ popped \notin Items

Push == \E i \in Items : queue' = Append(queue, i) /\ UNCHANGED popped

Pop == /\ queue # <<>>
       /\ popped' = Head(queue)
       /\ queue' = Tail(queue)

Spec == Init /\ [][Push \/ Pop]_<<queue, popped>>
=============================================================================
