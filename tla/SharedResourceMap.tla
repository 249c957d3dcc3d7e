------------------------- MODULE SharedResourceMap -------------------------
(* SharedResourceMap.h: a map from keys to resources that lives as long as   *)
(* somebody uses them.  An entry of the map owns an object (ValueObj_) with  *)
(* the resource (realPtr); a handle is a shared_ptr with a control block of  *)
(* its own, whose deleter captures the object and removes the entry.  The    *)
(* last handle dies in one step and its deleter locks m_mutex in a later     *)
(* one: in between getResource may give the object a new control block.      *)
(*                                                                           *)
(* Reference counting is modelled by what it does: what nothing refers to    *)
(* any more is freed (Collected), and a cycle of references is not.  Only    *)
(* forEach holds m_mutex for more than one step.  Constructors that throw    *)
(* end the program; running out of memory is left out.                       *)
EXTENDS Naturals

CONSTANTS Threads, Keys,
          Objs,      \* ValueObj_s with their resource; a bound where leaks pile up
          Blocks,    \* control blocks of handles; likewise
          None

ASSUME NoneAssumption == None \notin Threads \cup Keys \cup Objs \cup Blocks

VARIABLES heap,       \* entry[k]: m_data; key[o], weakPtr[o]: of each object;
                      \* captured[b]: the object the deleter of b refers to;
                      \* uses[t]: the handle of t; drops[t]: whose deleter t runs
          at,         \* what each thread is doing
          lock,       \* the thread holding m_mutex in forEach
          map,        \* whether the SharedResourceMap is alive
          terminated, \* std::terminate was called
          orphans     \* history: objects whose entry the deleter of an older block erased

vars == <<heap, at, lock, map, terminated, orphans>>

Ats == {"idle", "dropped", "deleting", "visiting", "waiting", "woken"}
Empty == [k \in Keys |-> None]

Init == /\ heap = [entry |-> Empty,
                   key |-> [o \in Objs |-> None], weakPtr |-> [o \in Objs |-> None],
                   captured |-> [b \in Blocks |-> None],
                   uses |-> [t \in Threads |-> None], drops |-> [t \in Threads |-> None]]
        /\ at = [t \in Threads |-> "idle"]
        /\ lock = None
        /\ map = TRUE /\ terminated = FALSE
        /\ orphans = {}

\* weak_ptr::expired() for the handles of block b
Expired(h, b) == \A t \in Threads : h.uses[t] # b

\* A thread has a handle with block b, or runs its deleter.
Held(h, b) == \E t \in Threads : b \in {h.uses[t], h.drops[t]}

\* The map refers to o, or a deleter that exists because of a handle or, which
\* makes a cycle, because of the weakPtr of o itself.
ObjKept(h, o) == \/ \E k \in Keys : h.entry[k] = o
                 \/ \E b \in Blocks : /\ h.captured[b] = o
                                      /\ Held(h, b) \/ h.weakPtr[o] = b

BlockKept(h, b) == Held(h, b) \/ \E o \in Objs : h.weakPtr[o] = b /\ ObjKept(h, o)

\* What is left of h when everything is freed that nothing refers to
Collected(h) ==
    [h EXCEPT !.key = [o \in Objs |-> IF ObjKept(h, o) THEN @[o] ELSE None],
              !.weakPtr = [o \in Objs |-> IF ObjKept(h, o) THEN @[o] ELSE None],
              !.captured = [b \in Blocks |-> IF BlockKept(h, b) THEN @[b] ELSE None]]

\* m_cond.notify_all()
Notified(pc) == [t \in Threads |-> IF pc[t] = "waiting" THEN "woken" ELSE pc[t]]

\* Nobody holds m_mutex.
Unlocked == lock = None

-----------------------------------------------------------------------------
(* getResource and what users do with handles *)

\* An unused member of S, if there is one: which does not matter.
AnyOf(S) == IF S = {} THEN {} ELSE {CHOOSE x \in S : TRUE}

FreshObjs == {o \in Objs : heap.key[o] = None}
FreshBlocks == {b \in Blocks : /\ heap.captured[b] = None
                               /\ \A t \in Threads : b \notin {heap.uses[t], heap.drops[t]}
                               /\ \A o \in Objs : b # heap.weakPtr[o]}

\* Bug: the object does not learn of its new handle.
WithBlockForgotten(h, t, o, b) ==
    [h EXCEPT !.weakPtr[o] = IF @ = None THEN b ELSE @, !.captured[b] = o, !.uses[t] = b]

\* createShared: thread t gets a handle with a new control block.
WithBlock(h, t, o, b) == [h EXCEPT !.weakPtr[o] = b, !.captured[b] = o, !.uses[t] = b]

\* The key has a resource in use.
Share(t, k) == LET o == heap.entry[k] IN
    /\ o # None
    /\ ~Expired(heap, heap.weakPtr[o])
    /\ heap' = [heap EXCEPT !.uses[t] = heap.weakPtr[o]]
    /\ UNCHANGED at

\* The last handle is gone, but its deleter has not removed the entry yet.
Revive(t, k) == LET o == heap.entry[k] IN
    /\ o # None
    /\ Expired(heap, heap.weakPtr[o])
    /\ \E b \in AnyOf(FreshBlocks) : heap' = Collected(WithBlock(heap, t, o, b))
    /\ UNCHANGED at

Construct(t, k) ==
    /\ heap.entry[k] = None
    /\ \E o \in AnyOf(FreshObjs), b \in AnyOf(FreshBlocks) :
         heap' = WithBlock([heap EXCEPT !.entry[k] = o, !.key[o] = k], t, o, b)
    /\ at' = Notified(at)

GetResource(t, k) == /\ map /\ Unlocked /\ at[t] = "idle" /\ heap.uses[t] = None
                     /\ Share(t, k) \/ Revive(t, k) \/ Construct(t, k)
                     /\ UNCHANGED <<lock, map, terminated, orphans>>

\* The constructor throws out of the noexcept constructor of ValueObj_.
ConstructorThrows(t, k) ==
    /\ map /\ Unlocked /\ at[t] = "idle" /\ heap.uses[t] = None
    /\ heap.entry[k] = None
    /\ terminated' = TRUE
    /\ UNCHANGED <<heap, at, lock, map, orphans>>

\* A handle is copied for another thread.
Copy(t, u) == /\ heap.uses[t] # None /\ at[t] = "idle"
              /\ heap.uses[u] = None /\ at[u] = "idle"
              /\ heap' = [heap EXCEPT !.uses[u] = heap.uses[t]]
              /\ UNCHANGED <<at, lock, map, terminated, orphans>>

\* A handle dies; when it was the last, its deleter is called.
Drop(t) == LET b == heap.uses[t]
               h == [heap EXCEPT !.uses[t] = None]
           IN /\ at[t] \in {"idle", "visiting"} /\ b # None
              /\ IF Expired(h, b)
                 THEN /\ heap' = [h EXCEPT !.drops[t] = b]
                      /\ at' = [at EXCEPT ![t] = "dropped"]
                 ELSE heap' = h /\ UNCHANGED at
              /\ UNCHANGED <<lock, map, terminated, orphans>>

-----------------------------------------------------------------------------
(* The deleter *)

\* Inner is alive.
InnerAlive == map \/ \E t \in Threads : at[t] = "deleting"

\* Bug: the object does not know its container.
LockContainerNever(t) ==
    /\ at[t] = "dropped"
    /\ at' = [at EXCEPT ![t] = "idle"]
    /\ heap' = Collected([heap EXCEPT !.drops[t] = None])
    /\ UNCHANGED <<lock, map, terminated, orphans>>

\* valueObj->container.lock()
LockContainer(t) ==
    /\ at[t] = "dropped"
    /\ IF InnerAlive
       THEN /\ at' = [at EXCEPT ![t] = "deleting"]
            /\ UNCHANGED heap
       ELSE /\ at' = [at EXCEPT ![t] = "idle"]
            /\ heap' = Collected([heap EXCEPT !.drops[t] = None])
    /\ UNCHANGED <<lock, map, terminated, orphans>>

\* The entries h has when Inner may have lost its last reference
Released(h, alive) == IF alive THEN h ELSE [h EXCEPT !.entry = Empty]

\* Bug: the deleter keeps its reference to the object.
DeleteKeepsCapture(t) ==
    LET b == heap.drops[t]
        k == heap.key[heap.captured[b]]
        o == heap.entry[k]
        erase == o # None /\ Expired(heap, heap.weakPtr[o])
        done == [heap EXCEPT !.drops[t] = None]
        erased == IF erase THEN [done EXCEPT !.entry[k] = None] ELSE done
        pc == [at EXCEPT ![t] = "idle"]
        alive == map \/ \E u \in Threads : pc[u] = "deleting"
    IN /\ at[t] = "deleting" /\ Unlocked
       /\ heap' = Collected(Released(erased, alive))
       /\ at' = IF erase THEN Notified(pc) ELSE pc
       /\ orphans' = {x \in IF erase /\ heap.weakPtr[o] # b THEN orphans \cup {o} ELSE orphans :
                        heap'.key[x] # None}
       /\ UNCHANGED <<lock, map, terminated>>

\* The critical section: erase the entry unless it is in use again.
Delete(t) ==
    LET b == heap.drops[t]
        k == heap.key[heap.captured[b]]
        o == heap.entry[k]
        erase == o # None /\ Expired(heap, heap.weakPtr[o])
        done == [heap EXCEPT !.drops[t] = None]
        erased == IF erase THEN [done EXCEPT !.captured[b] = None, !.entry[k] = None] ELSE done
        pc == [at EXCEPT ![t] = "idle"]
        alive == map \/ \E u \in Threads : pc[u] = "deleting"
    IN /\ at[t] = "deleting" /\ Unlocked
       /\ heap' = Collected(Released(erased, alive))
       /\ at' = IF erase THEN Notified(pc) ELSE pc
       /\ orphans' = {x \in IF erase /\ heap.weakPtr[o] # b THEN orphans \cup {o} ELSE orphans :
                        heap'.key[x] # None}
       /\ UNCHANGED <<lock, map, terminated>>

\* The map is destroyed, outside of its methods.
DestroyMap == /\ map /\ Unlocked
              /\ \A t \in Threads : at[t] \notin {"visiting", "waiting", "woken"}
              /\ map' = FALSE
              /\ heap' = Collected(Released(heap, \E t \in Threads : at[t] = "deleting"))
              /\ UNCHANGED <<at, lock, terminated, orphans>>

-----------------------------------------------------------------------------
(* forEach and waitForEmpty *)

\* forEach takes m_mutex and a handle to a resource in use, and calls f.
Visit(t) == /\ map /\ heap.uses[t] = None
            /\ \/ at[t] = "idle" /\ Unlocked
               \/ at[t] = "visiting"
            /\ \E k \in Keys : LET o == heap.entry[k] IN
                 /\ o # None /\ ~Expired(heap, heap.weakPtr[o])
                 /\ heap' = [heap EXCEPT !.uses[t] = heap.weakPtr[o]]
            /\ lock' = t
            /\ at' = [at EXCEPT ![t] = "visiting"]
            /\ UNCHANGED <<map, terminated, orphans>>

\* forEach ends; f may have kept the handle.
EndForEach(t) == /\ at[t] = "visiting"
                 /\ at' = [at EXCEPT ![t] = "idle"]
                 /\ lock' = None
                 /\ UNCHANGED <<heap, map, terminated, orphans>>

\* waitForEmpty, when the map is not empty
WaitForEmpty(t) == /\ map /\ Unlocked /\ at[t] = "idle" /\ heap.uses[t] = None
                   /\ heap.entry # Empty
                   /\ at' = [at EXCEPT ![t] = "waiting"]
                   /\ UNCHANGED <<heap, lock, map, terminated, orphans>>

Retest(t) == /\ at[t] = "woken" /\ Unlocked
             /\ at' = [at EXCEPT ![t] = IF heap.entry = Empty THEN "idle" ELSE "waiting"]
             /\ UNCHANGED <<heap, lock, map, terminated, orphans>>

SpuriousWakeup(t) == /\ at[t] = "waiting"
                     /\ at' = [at EXCEPT ![t] = "woken"]
                     /\ UNCHANGED <<heap, lock, map, terminated, orphans>>

Step(t) == LockContainer(t) \/ Delete(t) \/ Retest(t)
Next == /\ ~terminated
        /\ \/ DestroyMap
           \/ \E t \in Threads, k \in Keys : GetResource(t, k) \/ ConstructorThrows(t, k)
           \/ \E t, u \in Threads : Copy(t, u)
           \/ \E t \in Threads : \/ Drop(t) \/ Step(t) \/ Visit(t) \/ EndForEach(t)
                                 \/ WaitForEmpty(t) \/ SpuriousWakeup(t)

Spec == Init /\ [][Next]_vars

\* Deleters and waits go on, and so does forEach; users may keep handles.
\* The mutex is fair enough to let everybody in who keeps asking.
Fairness == \A t \in Threads : /\ SF_vars(Step(t) /\ ~terminated)
                               /\ WF_vars(EndForEach(t) /\ ~terminated)
FairSpec == Spec /\ Fairness

-----------------------------------------------------------------------------
(* Properties *)

TypeOK ==
    /\ heap \in [entry : [Keys -> Objs \cup {None}],
                 key : [Objs -> Keys \cup {None}], weakPtr : [Objs -> Blocks \cup {None}],
                 captured : [Blocks -> Objs \cup {None}],
                 uses : [Threads -> Blocks \cup {None}], drops : [Threads -> Blocks \cup {None}]]
    /\ at \in [Threads -> Ats]
    /\ lock \in Threads \cup {None}
    /\ lock # None => at[lock] \in {"visiting", "dropped", "deleting"}
    /\ map \in BOOLEAN /\ terminated \in BOOLEAN
    /\ orphans \subseteq Objs

\* The object a handle refers to
Object(t) == heap.captured[heap.uses[t]]

\* A resource in use is in the map under its key, where the next getResource
\* and forEach find it.
InUseIsInMap == \A t \in Threads :
    map /\ heap.uses[t] # None => /\ heap.entry[heap.key[Object(t)]] = Object(t)
                                  /\ heap.weakPtr[Object(t)] = heap.uses[t]

\* A resource nobody can reach any more that was not destroyed
Leaked(o) == /\ heap.key[o] # None
             /\ \A k \in Keys : heap.entry[k] # o
             /\ \A t \in Threads : /\ heap.uses[t] = None \/ heap.captured[heap.uses[t]] # o
                                   /\ heap.drops[t] = None \/ heap.captured[heap.drops[t]] # o

\* Resources leak through the cycle of an object's weakPtr and the deleter that
\* captures the object in two cases only: their handle outlives the map, or the
\* deleter of an older handle, overtaken by a revival, removes their entry.
LeaksExplained == \A o \in Objs : Leaked(o) => ~map \/ o \in orphans

\* forEach holds the last handle of a resource itself: the deleter waits for
\* the mutex that its own thread has locked.
SelfDeadlock == lock # None /\ at[lock] = "deleting"

\* SHAREMIND_TESTASSERT(map.empty()) after all handles are gone: the entry of
\* a resource without handles goes, unless it gets a handle again or forEach
\* locks itself out.
EntryGoes == \A k \in Keys :
    heap.entry[k] # None /\ Expired(heap, heap.weakPtr[heap.entry[k]])
      ~> \/ heap.entry[k] = None \/ terminated \/ SelfDeadlock
         \/ ~Expired(heap, heap.weakPtr[heap.entry[k]])

\* waitForEmpty notices that the map is empty.
WaitEnds == \A t \in Threads :
    at[t] \in {"waiting", "woken"} /\ heap.entry = Empty
      ~> at[t] = "idle" \/ heap.entry # Empty \/ terminated

\* Entries go when their handles have gone, and waitForEmpty returns when all have.
MapEmpties == EntryGoes /\ WaitEnds
=============================================================================
