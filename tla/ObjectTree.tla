----------------------------- MODULE ObjectTree -----------------------------
(* ObjectTree.h: parents that own children.  A child registers itself with   *)
(* its parent and unregisters itself when it is destroyed; a parent that is  *)
(* destroyed has its children destroyed, with its mutex locked.  The         *)
(* destructor of a child may destroy another child first.                    *)
EXTENDS Naturals, Sequences, SequencesExt, FiniteSets

CONSTANTS Threads, Parents, Children,
          None

VARIABLES m_parent,      \* the parent of each child, None
          m_childNodes,  \* the children each parent knows
          m_mutex,       \* the thread that has locked the mutex of a parent, None
          life,          \* of every parent and child: "unborn", "alive", "dying", "gone"
          todo,          \* the children the destructor of a parent has not come to
          stack,         \* the calls each thread is in, the innermost one last
          siblings       \* history: a child's destructor has destroyed another child

vars == <<m_parent, m_childNodes, m_mutex, life, todo, stack, siblings>>

Init == /\ m_parent = [c \in Children |-> None]
        /\ m_childNodes = [p \in Parents |-> {}]
        /\ m_mutex = [p \in Parents |-> None]
        /\ life = [x \in Parents \cup Children |-> IF x \in Parents THEN "alive" ELSE "unborn"]
        /\ todo = [p \in Parents |-> {}]
        /\ stack = [t \in Threads |-> <<>>] /\ siblings = FALSE

Call(t, op, x) == stack' = [stack EXCEPT ![t] = Append(@, [op |-> op, of |-> x])]
Return(t) == stack' = [stack EXCEPT ![t] = Front(@)]
In(t, op, x) == stack[t] # <<>> /\ Last(stack[t]) = [op |-> op, of |-> x]
Idle(t) == stack[t] = <<>>
Calls(x) == {t \in Threads : \E i \in DOMAIN stack[t] : stack[t][i].of = x}

\* ChildNodeBase(): m_parent is set, then the child is registered.
NewChild(t, c, p) == /\ Idle(t) /\ life[c] = "unborn"
                     /\ life[p] = "alive"
                     /\ m_parent' = [m_parent EXCEPT ![c] = p]
                     /\ life' = [life EXCEPT ![c] = "alive"]
                     /\ Call(t, "register", c)
                     /\ UNCHANGED <<m_childNodes, m_mutex, todo, siblings>>

NewOrphan(t, c) == /\ Idle(t) /\ life[c] = "unborn"
                   /\ life' = [life EXCEPT ![c] = "alive"]
                   /\ UNCHANGED <<m_parent, m_childNodes, m_mutex, todo, stack, siblings>>

\* registerChild()
Register(t, c) == /\ In(t, "register", c)
                  /\ m_mutex[m_parent[c]] = None
                  /\ m_childNodes' = [m_childNodes EXCEPT ![m_parent[c]] = @ \cup {c}]
                  /\ Return(t)
                  /\ UNCHANGED <<m_parent, m_mutex, life, todo, siblings>>

\* The client deletes a child, at the latest before its parent: nobody else has begun to.
Deletable(c) == /\ life[c] = "alive" /\ Calls(c) = {}
                /\ m_parent[c] # None => life[m_parent[c]] = "alive"
DeleteChild(t, c) == /\ Idle(t) /\ Deletable(c)
                     /\ life' = [life EXCEPT ![c] = "dying"]
                     /\ Call(t, "body", c)
                     /\ UNCHANGED <<m_parent, m_childNodes, m_mutex, todo, siblings>>

\* The body of the child's own destructor: it may delete another child first, be it
\* one that the parent would delete next.
DeleteSibling(t, c, d) == /\ In(t, "body", c) /\ c # d
                          /\ life[d] = "alive" /\ Calls(d) = {}
                          /\ m_parent[d] # None => life[m_parent[d]] = "alive" \/ m_mutex[m_parent[d]] = t
                          /\ life' = [life EXCEPT ![d] = "dying"]
                          /\ siblings' = TRUE
                          /\ Call(t, "body", d)
                          /\ UNCHANGED <<m_parent, m_childNodes, m_mutex, todo>>

\* unregisterChild() of a child whose parent has gone, or that never had one, does nothing.
Unparented(t, c) == /\ In(t, "body", c) /\ m_parent[c] = None
                    /\ life' = [life EXCEPT ![c] = "gone"]
                    /\ Return(t)
                    /\ UNCHANGED <<m_parent, m_childNodes, m_mutex, todo, siblings>>
Unregister(t, c) == /\ In(t, "body", c) /\ m_parent[c] # None
                    /\ m_mutex[m_parent[c]] = None
                    /\ m_childNodes' = [m_childNodes EXCEPT ![m_parent[c]] = @ \ {c}]
                    /\ m_parent' = [m_parent EXCEPT ![c] = None]
                    /\ life' = [life EXCEPT ![c] = "gone"]
                    /\ Return(t)
                    /\ UNCHANGED <<m_mutex, todo, siblings>>

\* ~ParentNode(); only nested calls are about its children from now on.
DeleteParent(t, p) == /\ Idle(t) /\ life[p] = "alive"
                      /\ \A c \in Children : m_parent[c] = p => Calls(c) = {}
                      /\ m_mutex[p] = None
                      /\ m_mutex' = [m_mutex EXCEPT ![p] = t]
                      /\ life' = [life EXCEPT ![p] = "dying"]
                      /\ todo' = [todo EXCEPT ![p] = m_childNodes[p]]
                      /\ Call(t, "parent", p)
                      /\ UNCHANGED <<m_parent, m_childNodes, siblings>>

\* Bug: freeByParent() leaves m_parent alone.
FreeUnmarked(t, p, c) == /\ In(t, "parent", p) /\ c \in todo[p]
                         /\ todo' = [todo EXCEPT ![p] = @ \ {c}]
                         /\ life' = [life EXCEPT ![c] = "dying"]
                         /\ Call(t, "body", c)
                         /\ UNCHANGED <<m_parent, m_childNodes, m_mutex, siblings>>

\* m_childDestructor(node->freeByParent())
FreeByParent(t, p, c) == /\ In(t, "parent", p) /\ c \in todo[p]
                         /\ todo' = [todo EXCEPT ![p] = @ \ {c}]
                         /\ m_parent' = [m_parent EXCEPT ![c] = None]
                         /\ life' = [life EXCEPT ![c] = "dying"]
                         /\ Call(t, "body", c)
                         /\ UNCHANGED <<m_childNodes, m_mutex, siblings>>

ParentGone(t, p) == /\ In(t, "parent", p) /\ todo[p] = {}
                    /\ m_mutex' = [m_mutex EXCEPT ![p] = None]
                    /\ m_childNodes' = [m_childNodes EXCEPT ![p] = {}]
                    /\ life' = [life EXCEPT ![p] = "gone"]
                    /\ Return(t)
                    /\ UNCHANGED <<m_parent, todo, siblings>>

Next == \E t \in Threads :
    \/ \E c \in Children : \/ NewOrphan(t, c) \/ Register(t, c) \/ DeleteChild(t, c)
                           \/ Unparented(t, c) \/ Unregister(t, c)
                           \/ \E p \in Parents : NewChild(t, c, p) \/ FreeByParent(t, p, c)
                           \/ \E d \in Children : DeleteSibling(t, c, d)
    \/ \E p \in Parents : DeleteParent(t, p) \/ ParentGone(t, p)

Spec == Init /\ [][Next]_vars

-----------------------------------------------------------------------------
\* The two ends of the tree agree: a parent knows the children that refer to it and
\* are not just being registered; nobody refers to a parent that has gone.  No child is
\* being destroyed twice, and a thread waits for a mutex it has locked itself only if
\* the destructor of a child has destroyed another one.
Registering(c) == \E t \in Threads : In(t, "register", c)
Wants(t) == {m_parent[c] : c \in {d \in Children : In(t, "register", d) \/ In(t, "body", d)}} \ {None}
TreeAgrees ==
    /\ \A p \in Parents : life[p] = "alive" =>
         m_childNodes[p] = {c \in Children : m_parent[c] = p /\ ~Registering(c)}
    /\ \A c \in Children : m_parent[c] # None => life[c] # "gone" /\ life[m_parent[c]] # "gone"
    /\ \A c \in Children : life[c] = "dying" => Cardinality(Calls(c)) = 1
    /\ \A t \in Threads : (\E p \in Wants(t) : m_mutex[p] = t) => siblings
=============================================================================
