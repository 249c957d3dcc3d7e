------------------------------ MODULE MpscQueue ------------------------------
(* MpscWaitFreeSemiIntrusiveQueue.h: many producers, one consumer, no lock.  *)
(* A push takes two steps, the exchange of m_tail and the link from the old  *)
(* tail; between them the list is cut in two.  A pop moves the data of the   *)
(* second node into the first and returns the first, so nodes are reused     *)
(* while producers still run.  Every access to a shared atomic is one step.  *)
(*                                                                           *)
(* The source orders the link and the load that follows it with              *)
(* memory_order_relaxed; the accesses are sequentially consistent here,      *)
(* which is what a build for x86-64 does: its exchange is a full barrier and *)
(* its stores are not reordered.                                             *)
EXTENDS Naturals, Sequences, FiniteSets

CONSTANTS Producers, Nodes, Items,
          NoNode,     \* nullptr
          NoItem      \* data default-constructed or moved from

ASSUME NoneAssumption == NoNode \notin Nodes /\ NoItem \notin Items

VARIABLES m_tail, m_head,
          next, data,        \* the members of every node
          held,              \* nodes that are not with the queue: users may push them
          newNode, oldTail,  \* the local variables of push, per producer
          head, second,      \* the local variables head and next of pop
          at,                \* where the consumer is in pop
          closing,           \* the consumer runs the destructor
          popped,            \* history: the item popped last
          order              \* history: the nodes in the list, oldest exchange first

list == <<m_tail, m_head, next, data, held, order>>
pushing == <<newNode, oldTail>>
popping == <<head, second, at, closing, popped>>
queueVars == <<list, pushing, popping>>

QueueInit == /\ \E n \in Nodes : m_head = n /\ m_tail = n /\ held = Nodes \ {n}
             /\ order = <<m_head>>
             /\ next = [n \in Nodes |-> NoNode]
             /\ data = [n \in Nodes |-> NoItem]
             /\ newNode = [p \in Producers |-> NoNode]
             /\ oldTail = [p \in Producers |-> NoNode]
             /\ head = NoNode /\ second = NoNode
             /\ at = "idle" /\ closing = FALSE
             /\ popped = NoItem

-----------------------------------------------------------------------------
(* push *)

\* A user fills a node it holds; m_tail.exchange(newNode).
Exchange(p, n, i) ==
    /\ m_tail # NoNode /\ ~closing
    /\ newNode[p] = NoNode
    /\ n \in held
    /\ \A k \in Nodes : data[k] # i
    /\ data' = [data EXCEPT ![n] = i]
    /\ held' = held \ {n}
    /\ newNode' = [newNode EXCEPT ![p] = n]
    /\ oldTail' = [oldTail EXCEPT ![p] = m_tail]
    /\ m_tail' = n
    /\ order' = Append(order, n)
    /\ UNCHANGED <<m_head, next, popping>>

\* oldTail->next.store(newNode)
Link(p) == /\ newNode[p] # NoNode
           /\ next' = [next EXCEPT ![oldTail[p]] = newNode[p]]
           /\ newNode' = [newNode EXCEPT ![p] = NoNode]
           /\ oldTail' = [oldTail EXCEPT ![p] = NoNode]
           /\ UNCHANGED <<m_tail, m_head, data, held, order, popping>>

-----------------------------------------------------------------------------
(* pop *)

\* Bug: the last item is left in the queue until it is destroyed.
LoadNextButLast == /\ at = "idle" /\ m_head # NoNode
                   /\ next[m_head] # NoNode
                   /\ next[next[m_head]] # NoNode \/ closing
                   /\ head' = m_head /\ second' = next[m_head]
                   /\ at' = "move"
                   /\ UNCHANGED <<list, pushing, closing, popped>>

\* The loads; pop returns nullptr when nothing follows the first node.
LoadNext == /\ at = "idle" /\ m_head # NoNode
            /\ next[m_head] # NoNode
            /\ head' = m_head /\ second' = next[m_head]
            /\ at' = "move"
            /\ UNCHANGED <<list, pushing, closing, popped>>

\* Bug: the first node is returned with what it held itself.
MoveNothing ==
    /\ at = "move" /\ at' = "store"
    /\ order' = Tail(order)
    /\ UNCHANGED <<m_tail, m_head, next, data, held, pushing, head, second, closing, popped>>

\* head->data = std::move(next->data)
MoveData == /\ at = "move" /\ at' = "store"
            /\ data' = [data EXCEPT ![head] = data[second], ![second] = NoItem]
            /\ order' = Tail(order)
            /\ UNCHANGED <<m_tail, m_head, next, held, pushing, head, second, closing, popped>>

\* m_head.store(next)
StoreHead == /\ at = "store" /\ at' = "clear"
             /\ m_head' = second
             /\ UNCHANGED <<m_tail, next, data, held, order, pushing, head, second, closing, popped>>

\* Bug: the node is returned with its link.
ReturnLinked == /\ at = "clear" /\ at' = "idle"
                /\ data' = [data EXCEPT ![head] = NoItem]
                /\ popped' = data[head]
                /\ held' = held \cup {head}
                /\ head' = NoNode /\ second' = NoNode
                /\ UNCHANGED <<m_tail, m_head, next, order, pushing, closing>>

\* head->next.store(nullptr); the user gets the node and takes the item.
Return == /\ at = "clear" /\ at' = "idle"
          /\ next' = [next EXCEPT ![head] = NoNode]
          /\ data' = [data EXCEPT ![head] = NoItem]
          /\ popped' = data[head]
          /\ held' = held \cup {head}
          /\ head' = NoNode /\ second' = NoNode
          /\ UNCHANGED <<m_tail, m_head, order, pushing, closing>>

-----------------------------------------------------------------------------
(* The destructor, which nobody may run while a producer pushes *)

Destroy == /\ m_head # NoNode /\ at = "idle" /\ ~closing
           /\ \A p \in Producers : newNode[p] = NoNode
           /\ closing' = TRUE
           /\ UNCHANGED <<list, pushing, head, second, at, popped>>

\* while (pop()); has ended: delete m_head.  Its memory may be used again.
DeleteHead == /\ closing /\ at = "idle" /\ next[m_head] = NoNode
              /\ closing' = FALSE
              /\ m_head' = NoNode /\ m_tail' = NoNode
              /\ held' = held \cup {m_head}
              /\ order' = <<>>
              /\ UNCHANGED <<next, data, pushing, head, second, at, popped>>

\* A new queue
Construct == /\ m_head = NoNode
             /\ \E n \in held : m_head' = n /\ m_tail' = n /\ held' = held \ {n}
                               /\ order' = <<n>>
             /\ UNCHANGED <<next, data, pushing, popping>>

Push == \E p \in Producers, n \in Nodes, i \in Items : Exchange(p, n, i)
Pop == LoadNext \/ MoveData \/ StoreHead \/ Return
QueueNext == Push \/ (\E p \in Producers : Link(p)) \/ Pop \/ Destroy \/ DeleteHead \/ Construct

QueueSpec == QueueInit /\ [][QueueNext]_queueVars

\* A thread inside push goes on, and the consumer keeps calling pop.
QueueFairness == WF_queueVars(Pop) /\ \A p \in Producers : WF_queueVars(Link(p))
FairQueueSpec == QueueSpec /\ QueueFairness

-----------------------------------------------------------------------------
(* Properties *)

QueueTypeOK ==
    /\ m_tail \in Nodes \cup {NoNode} /\ m_head \in Nodes \cup {NoNode}
    /\ next \in [Nodes -> Nodes \cup {NoNode}]
    /\ data \in [Nodes -> Items \cup {NoItem}]
    /\ held \subseteq Nodes
    /\ newNode \in [Producers -> Nodes \cup {NoNode}]
    /\ oldTail \in [Producers -> Nodes \cup {NoNode}]
    /\ \A p \in Producers : newNode[p] = NoNode <=> oldTail[p] = NoNode
    /\ head \in Nodes \cup {NoNode} /\ second \in Nodes \cup {NoNode}
    /\ at \in {"idle", "move", "store", "clear"}
    /\ closing \in BOOLEAN
    /\ popped \in Items \cup {NoItem}

\* A node that pop has returned is not written to or read by anybody any more,
\* so it may be pushed again (the assertion !newNode->next) or deleted.
HeldIsUnreachable == \A n \in held :
    /\ next[n] = NoNode
    /\ n \notin {m_head, m_tail, head, second}
    /\ \A p \in Producers : n # newNode[p] /\ n # oldTail[p]
    /\ \A k \in Nodes : next[k] # n

\* What comes out is what went in, in the order of the exchanges: the item that
\* pop has moved to the node it will return, and those of the nodes behind the
\* first one.
Contents == (IF at \in {"store", "clear"} THEN <<data[head]>> ELSE <<>>)
            \o [k \in 1 .. Len(order) - 1 |-> data[order[k + 1]]]
Unbounded == INSTANCE UnboundedFifo WITH queue <- Contents
FifoSpec == Unbounded!Spec

\* An item pushed reaches the consumer although other producers may stand
\* between their exchange and their link.
Delivered == \A i \in Items : (\E n \in Nodes : data[n] = i) ~> popped = i
=============================================================================
