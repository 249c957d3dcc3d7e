--------------------------- MODULE LifetimeProofs ---------------------------
(* What is used lives, and what is not used goes, for instances of every     *)
(* size.                                                                     *)
(*                                                                           *)
(* EventLoop: no handler is called after its destruction.  The descriptors   *)
(* in the hands of the loop are those of one iteration, and a thread whose   *)
(* descriptor is among them has not seen the counter change since it removed *)
(* it: the counter changes when the loop has nothing in its hands.  What is  *)
(* excepted are handlers for which a closed pipe left no wait.               *)
(*                                                                           *)
(* SharedResourceMap: a resource in use is in the map, and one that nobody   *)
(* can reach is left over in two cases only.  The argument is about the heap *)
(* in which keys, objects and control blocks refer to each other; what       *)
(* nothing refers to is freed after every step, so most of what is shown is  *)
(* that this leaves the rest as it is.                                       *)
EXTENDS EventLoop, SharedResourceMap, TLAPS

-----------------------------------------------------------------------------
(* EventLoop *)

\* The descriptors whose handlers this iteration has called or will call.
Busy == batch \cup ({handling} \ {Nobody})

\* Of the type invariant, what the argument needs.
Typed == /\ interest \in [Fds -> {"absent", "enabled", "disabled"}]
         /\ alive \subseteq Fds
         /\ batch \subseteq Fds
         /\ handling \in Fds \cup {Nobody}
         /\ spin \in [Spinners -> {"idle", "start", "try", "unlock", "check", "write", "spin", "done"}]
         /\ target \in [Spinners -> Fds \cup {Nobody}]
         /\ changed \subseteq Spinners

\* What epoll watches exists, and nobody has removed it to destroy it.
WatchedIsKept == \A f \in Fds : interest[f] # "absent" => f \in alive /\ Mine(f)

\* A thread destroys what it has removed, and nobody else does.
TargetIsKept == \A s, t \in Spinners : target[s] # Nobody =>
    target[s] \in alive /\ (target[s] = target[t] => s = t)

BusyIsAlive == Busy \subseteq alive \cup unawaited

\* Handlers are called between epoll_wait() and the end of the iteration only.
BusyWhileDispatching == pc # "dispatch" => Busy = {}

MutexIsHeld == /\ pc # "idle" => m_stopMutex = "loop"
               /\ \A s \in Spinners : spin[s] = "unlock" => m_stopMutex = s

\* Who may destroy a handler or is sure to does not find it in the loop's hands:
\* neither who saw the counter change, nor who found nobody in run(); who found
\* the pipe closed may.
WaitIsLongEnough == \A s \in Spinners : target[s] \in Busy =>
    /\ spin[s] = "done" => target[s] \in unawaited
    /\ spin[s] \in {"try", "check", "write", "spin"} => s \notin changed

LoopInv == /\ Typed /\ WatchedIsKept /\ TargetIsKept /\ BusyIsAlive /\ BusyWhileDispatching
           /\ MutexIsHeld /\ WaitIsLongEnough

LEMMA LoopInitInvariant == LoopInit => LoopInv
BY NamesAssumption
DEF LoopInit, LoopInv, Typed, WatchedIsKept, TargetIsKept, BusyIsAlive, BusyWhileDispatching, MutexIsHeld,
    WaitIsLongEnough, Busy, Mine

-----------------------------------------------------------------------------
\* The operations on descriptors leave the loop and the waiting threads alone.
LEMMA DescriptorsKeepInvariant ==
    ASSUME LoopInv, NEW f \in Fds, Insert(f) \/ Modify(f) \/ InsertOrModify(f) \/ Create(f)
    PROVE  LoopInv'
<1> USE DEF LoopInv, Typed, WatchedIsKept, TargetIsKept, BusyIsAlive, BusyWhileDispatching, MutexIsHeld,
            WaitIsLongEnough, Busy, Mine, closePipe, loop, spinners, States
<1>1. CASE Insert(f)
      BY <1>1 DEF Insert, epollInsert, Untouched
<1>2. CASE Modify(f)
      BY <1>2 DEF Modify, epollCtl, Untouched
<1>3. CASE InsertOrModify(f)
      BY <1>3 DEF InsertOrModify, epollInsertOrModify, epollInsert, epollCtl, Untouched
<1>4. CASE Create(f)
      <2>1. f \notin alive /\ alive' = alive \cup {f} /\ unawaited' = unawaited \ {f}
            BY <1>4 DEF Create
      <2>2. UNCHANGED <<interest, pc, m_stopMutex, batch, handling, spin, target, changed>>
            BY <1>4 DEF Create
      <2>3. \A s \in Spinners : target[s] \in Busy => target[s] # f
            BY <2>1, NamesAssumption
      <2>4. WaitIsLongEnough'
            BY <2>1, <2>2, <2>3
      <2> QED BY <2>1, <2>2, <2>4
<1> QED BY <1>1, <1>2, <1>3, <1>4

LEMMA RemovalKeepsInvariant ==
    ASSUME LoopInv, NEW s \in Spinners, (\E f \in Fds : Remove(s, f)) \/ Destroy(s)
    PROVE  LoopInv'
<1> USE NamesAssumption
    DEF LoopInv, Typed, WatchedIsKept, TargetIsKept, BusyIsAlive, BusyWhileDispatching, MutexIsHeld,
        WaitIsLongEnough, Busy, Mine, events, closePipe, loop
<1>1. ASSUME NEW f \in Fds, Remove(s, f) PROVE LoopInv'
      BY <1>1 DEF Remove, epollRemove
<1>2. CASE Destroy(s)
      BY <1>2 DEF Destroy
<1> QED BY <1>1, <1>2

LEMMA SpinnerKeepsInvariant ==
    ASSUME LoopInv, NEW s \in Spinners, Spinner(s)
    PROVE  LoopInv'
<1> USE NamesAssumption
    DEF LoopInv, Typed, WatchedIsKept, TargetIsKept, BusyIsAlive, BusyWhileDispatching, MutexIsHeld,
        WaitIsLongEnough, Busy, Mine, events, closePipe, loop, Goto
<1>1. CASE LoadStart(s)
      BY <1>1 DEF LoadStart
<1>2. CASE TryLock(s)
      BY <1>2 DEF TryLock
<1>3. CASE Unlock(s)
      BY <1>3 DEF Unlock
<1>4. CASE TryLockFails(s)
      BY <1>4 DEF TryLockFails
<1>5. CASE Check(s)
      BY <1>5 DEF Check
<1>6. CASE WriteByte(s)
      <2>1. CASE writeEnd
            BY <1>6, <2>1 DEF WriteByte
      <2>2. CASE ~writeEnd
            <3>1. /\ spin[s] = "write"
                  /\ unawaited' = unawaited \cup {target[s]}
                  /\ spin' = [spin EXCEPT ![s] = "done"]
                  /\ UNCHANGED <<interest, alive, pc, m_stopMutex, batch, handling, target, changed>>
                  BY <1>6, <2>2 DEF WriteByte
            <3>2. WaitIsLongEnough'
                  BY <3>1
            <3> QED BY <3>1, <3>2
      <2> QED BY <2>1, <2>2
<1>7. CASE SpinEnds(s)
      BY <1>7 DEF SpinEnds
<1> QED BY <1>1, <1>2, <1>3, <1>4, <1>5, <1>6, <1>7 DEF Spinner

LEMMA LoopKeepsInvariant ==
    ASSUME LoopInv, LoopStep \/ Run \/ PollFails
    PROVE  LoopInv'
<1> USE NamesAssumption
    DEF LoopInv, Typed, WatchedIsKept, TargetIsKept, BusyIsAlive, BusyWhileDispatching, MutexIsHeld,
        WaitIsLongEnough, Busy, Mine, events, closePipe, spinners, LoopIterationFinish
<1>1. CASE Poll
      BY <1>1 DEF Poll
<1>2. CASE HandleEvent
      BY <1>2 DEF HandleEvent
<1>3. CASE HandlerReturns
      BY <1>3 DEF HandlerReturns
<1>4. CASE EndBatch
      BY <1>4 DEF EndBatch
<1>5. CASE Flush
      BY <1>5 DEF Flush
<1>6. CASE Finish
      BY <1>6 DEF Finish
<1>7. CASE Leave
      BY <1>7 DEF Leave
<1>8. CASE ReturnFromRun
      BY <1>8 DEF ReturnFromRun
<1>9. CASE Run
      BY <1>9 DEF Run
<1>10. CASE PollFails
      BY <1>10 DEF PollFails
<1> QED BY <1>1, <1>2, <1>3, <1>4, <1>5, <1>6, <1>7, <1>8, <1>9, <1>10 DEF LoopStep

LEMMA StopKeepsInvariant ==
    ASSUME LoopInv, StopAsync \/ Stop \/ StopLock
    PROVE  LoopInv'
BY DEF StopAsync, Stop, StopLock, LoopInv, Typed, WatchedIsKept, TargetIsKept, BusyIsAlive, BusyWhileDispatching,
       MutexIsHeld, WaitIsLongEnough, Busy, Mine, events, closePipe, loop, spinners

LEMMA LoopStepInvariant == LoopInv /\ [LoopNext]_loopVars => LoopInv'
<1> SUFFICES ASSUME LoopInv, [LoopNext]_loopVars
             PROVE  LoopInv'
    OBVIOUS
<1>1. CASE UNCHANGED loopVars
      BY <1>1 DEF loopVars, events, closePipe, loop, spinners, LoopInv, Typed, WatchedIsKept, TargetIsKept, BusyIsAlive,
                  BusyWhileDispatching, MutexIsHeld, WaitIsLongEnough, Busy, Mine
<1>2. CASE LoopNext
      BY <1>2, DescriptorsKeepInvariant, RemovalKeepsInvariant, SpinnerKeepsInvariant,
         LoopKeepsInvariant, StopKeepsInvariant DEF LoopNext
<1> QED BY <1>1, <1>2

\* No handler is called after it was destroyed, however many threads remove
\* descriptors and wait, with run() failing or being stopped meanwhile, unless
\* the pipe was closed when its thread would have waited.
THEOREM HandlersAliveHolds == LoopSpec => []HandlersAlive
<1>1. LoopInv => HandlersAlive
      BY DEF LoopInv, BusyIsAlive, Busy, HandlersAlive
<1> QED BY <1>1, LoopInitInvariant, LoopStepInvariant, PTL DEF LoopSpec

-----------------------------------------------------------------------------
(* SharedResourceMap *)

Heaps == [entry : [Keys -> Objs \cup {None}],
          key : [Objs -> Keys \cup {None}], weakPtr : [Objs -> Blocks \cup {None}],
          captured : [Blocks -> Objs \cup {None}],
          uses : [Threads -> Blocks \cup {None}], drops : [Threads -> Blocks \cup {None}]]

\* No pointer leads to what has been freed, and the weakPtr of an object leads to a
\* block whose deleter refers to that object, unless it has let go of it.
Linked(h) ==
    /\ \A b \in Blocks : h.captured[b] # None => h.key[h.captured[b]] # None
    /\ \A b \in Blocks : Held(h, b) => h.captured[b] # None
    /\ \A o \in Objs : /\ h.key[o] = None => h.weakPtr[o] = None
                       /\ h.weakPtr[o] # None => h.captured[h.weakPtr[o]] \in {o, None}
    /\ \A k \in Keys : h.entry[k] # None => /\ h.key[h.entry[k]] = k
                                            /\ h.weakPtr[h.entry[k]] # None

\* A handle's deleter is run once, when there is no such handle any more.
DropsOnce(h) == \A t \in Threads : h.drops[t] # None =>
    \A u \in Threads : h.uses[u] # h.drops[t] /\ (h.drops[u] = h.drops[t] => u = t)

\* Everything that nothing refers to has been freed.
NoGarbage(h) == \A o \in Objs : h.key[o] # None => ObjKept(h, o)

\* InUseIsInMap of the heap h
UsedIsListed(h) == \A t \in Threads : h.uses[t] # None =>
    LET o == h.captured[h.uses[t]] IN h.entry[h.key[o]] = o /\ h.weakPtr[o] = h.uses[t]

\* An object leaves the map without its cycle, unless an older deleter erased it.
CycleBroken(h, excepted) == \A o \in Objs, b \in Blocks :
    h.captured[b] = o /\ h.weakPtr[o] = b /\ h.entry[h.key[o]] # o => o \in excepted

\* Of the heap in a state in which the map is alive or not.
HeapInv(h, lives, excepted) ==
    /\ h \in Heaps /\ Linked(h) /\ DropsOnce(h) /\ NoGarbage(h)
    /\ lives => UsedIsListed(h) /\ CycleBroken(h, excepted)

\* Who runs a deleter
DropsWhenAt == \A t \in Threads : heap.drops[t] # None <=> at[t] \in {"dropped", "deleting"}

MapInv == /\ HeapInv(heap, map, orphans) /\ DropsWhenAt
          /\ at \in [Threads -> Ats] /\ map \in BOOLEAN

LEMMA MapInitInvariant == Init => MapInv
BY NoneAssumption
DEF Init, Empty, MapInv, HeapInv, Heaps, Ats, Linked, DropsOnce, NoGarbage, DropsWhenAt, UsedIsListed,
    CycleBroken, Held

-----------------------------------------------------------------------------
(* What happens to a heap *)

LEMMA CollectedFields ==
  ASSUME NEW h \in Heaps
  PROVE  /\ Collected(h) \in Heaps
         /\ Collected(h).entry = h.entry
         /\ Collected(h).uses = h.uses
         /\ Collected(h).drops = h.drops
         /\ \A o \in Objs : /\ Collected(h).key[o] = IF ObjKept(h, o) THEN h.key[o] ELSE None
                            /\ Collected(h).weakPtr[o] = IF ObjKept(h, o) THEN h.weakPtr[o] ELSE None
         /\ \A b \in Blocks : Collected(h).captured[b] = IF BlockKept(h, b) THEN h.captured[b] ELSE None
  BY DEF Collected, Heaps

\* Freeing what nothing refers to leaves the rest as it is.
LEMMA CollectedKeeps ==
  ASSUME NEW h \in Heaps, Linked(h), DropsOnce(h)
  PROVE  /\ Linked(Collected(h)) /\ DropsOnce(Collected(h)) /\ NoGarbage(Collected(h))
         /\ UsedIsListed(h) => UsedIsListed(Collected(h))
         /\ \A S : CycleBroken(h, S) => CycleBroken(Collected(h), S)
<1> DEFINE c == Collected(h)
<1>1. /\ c \in Heaps /\ c.entry = h.entry /\ c.uses = h.uses /\ c.drops = h.drops
      /\ \A o \in Objs : /\ c.key[o] = IF ObjKept(h, o) THEN h.key[o] ELSE None
                         /\ c.weakPtr[o] = IF ObjKept(h, o) THEN h.weakPtr[o] ELSE None
      /\ \A b \in Blocks : c.captured[b] = IF BlockKept(h, b) THEN h.captured[b] ELSE None
  BY CollectedFields
<1> HIDE DEF c
<1>2. \A b : Held(c, b) <=> Held(h, b)
  BY <1>1 DEF Held
<1>3. \A o \in Objs, b \in Blocks : h.captured[b] = o /\ BlockKept(h, b) => ObjKept(h, o)
  BY NoneAssumption DEF BlockKept, ObjKept, Linked, Heaps
<1>4. \A k \in Keys : h.entry[k] # None => ObjKept(h, h.entry[k])
  BY DEF ObjKept
<1>5. Linked(c)
  <2>1. \A b \in Blocks : c.captured[b] # None => c.key[c.captured[b]] # None
    BY <1>1, <1>3 DEF Linked, Heaps
  <2>2. \A b \in Blocks : Held(c, b) => c.captured[b] # None
    BY <1>1, <1>2 DEF Linked, BlockKept
  <2>3. \A o \in Objs : /\ c.key[o] = None => c.weakPtr[o] = None
                        /\ c.weakPtr[o] # None => c.captured[c.weakPtr[o]] \in {o, None}
    BY <1>1 DEF Linked, Heaps
  <2>4. \A k \in Keys : c.entry[k] # None => c.key[c.entry[k]] = k /\ c.weakPtr[c.entry[k]] # None
    BY <1>1, <1>4 DEF Linked, Heaps
  <2> QED BY <2>1, <2>2, <2>3, <2>4 DEF Linked
<1>6. DropsOnce(c)
  BY <1>1 DEF DropsOnce
<1>7. NoGarbage(c)
  <2> SUFFICES ASSUME NEW o \in Objs, c.key[o] # None
               PROVE  ObjKept(c, o)
    BY DEF NoGarbage
  <2>1. ObjKept(h, o)
    BY <1>1
  <2>2. CASE \E k \in Keys : h.entry[k] = o
    BY <1>1, <2>2 DEF ObjKept
  <2>3. ASSUME NEW b \in Blocks, h.captured[b] = o, Held(h, b) \/ h.weakPtr[o] = b
        PROVE  ObjKept(c, o)
    BY <1>1, <1>2, <2>1, <2>3 DEF ObjKept, BlockKept
  <2> QED BY <2>1, <2>2, <2>3 DEF ObjKept
<1>8. ASSUME UsedIsListed(h) PROVE UsedIsListed(c)
  <2> SUFFICES ASSUME NEW t \in Threads, c.uses[t] # None
               PROVE  LET o == c.captured[c.uses[t]] IN c.entry[c.key[o]] = o /\ c.weakPtr[o] = c.uses[t]
    BY DEF UsedIsListed
  <2> DEFINE b == h.uses[t]
             o == h.captured[b]
  <2>1. b \in Blocks /\ Held(h, b) /\ BlockKept(h, b) /\ o \in Objs /\ ObjKept(h, o)
    BY <1>1, <1>3 DEF Held, BlockKept, Linked, Heaps
  <2>2. h.entry[h.key[o]] = o /\ h.weakPtr[o] = b
    BY <1>1, <1>8 DEF UsedIsListed
  <2> QED BY <1>1, <2>1, <2>2
<1>9. ASSUME NEW S, CycleBroken(h, S) PROVE CycleBroken(c, S)
  BY <1>1, <1>9, NoneAssumption DEF CycleBroken
<1> QED BY <1>5, <1>6, <1>7, <1>8, <1>9 DEF c

-----------------------------------------------------------------------------
(* The steps *)

LEMMA AnyOfIsMember == ASSUME NEW S PROVE AnyOf(S) \subseteq S
  BY DEF AnyOf

\* A free thread takes part in a handle that others have.
LEMMA SharingKeeps ==
  ASSUME NEW t \in Threads, NEW b \in Blocks, NEW u \in Threads,
         HeapInv(heap, map, orphans), heap.uses[t] = None, heap.uses[u] = b,
         heap' = [heap EXCEPT !.uses[t] = b]
  PROVE  HeapInv(heap', map, orphans)
<1> USE NoneAssumption DEF HeapInv
<1>1. /\ heap' \in Heaps
      /\ heap'.entry = heap.entry /\ heap'.key = heap.key /\ heap'.weakPtr = heap.weakPtr
      /\ heap'.captured = heap.captured /\ heap'.drops = heap.drops
      /\ \A v \in Threads : heap'.uses[v] = IF v = t THEN b ELSE heap.uses[v]
  BY DEF Heaps
<1>2. \A c \in Blocks : Held(heap', c) <=> Held(heap, c)
  BY <1>1 DEF Held
<1>3. Linked(heap') /\ DropsOnce(heap')
  BY <1>1, <1>2 DEF Linked, DropsOnce
<1>4. NoGarbage(heap')
  BY <1>1, <1>2 DEF NoGarbage, ObjKept
<1>5. map => UsedIsListed(heap') /\ CycleBroken(heap', orphans)
  BY <1>1 DEF UsedIsListed, CycleBroken
<1> QED BY <1>1, <1>3, <1>4, <1>5

LEMMA ShareKeeps ==
  ASSUME NEW t \in Threads, NEW k \in Keys, HeapInv(heap, TRUE, orphans), map,
         heap.uses[t] = None, Share(t, k)
  PROVE  HeapInv(heap', map, orphans)
<1>1. heap.entry[k] \in Objs /\ heap.weakPtr[heap.entry[k]] \in Blocks
  BY DEF HeapInv, Heaps, Linked, Share
<1>2. PICK u \in Threads : heap.uses[u] = heap.weakPtr[heap.entry[k]]
  BY DEF Share, Expired
<1> QED BY <1>1, <1>2, SharingKeeps DEF Share

\* An object of the map whose handles have all gone gets one with a new block.
LEMMA ReviveKeeps ==
  ASSUME NEW t \in Threads, NEW k \in Keys, HeapInv(heap, TRUE, orphans), map,
         heap.uses[t] = None, heap.drops[t] = None, Revive(t, k)
  PROVE  HeapInv(heap', map, orphans)
<1> USE NoneAssumption DEF HeapInv
<1> DEFINE o == heap.entry[k]
<1>1. PICK b \in FreshBlocks : heap' = Collected(WithBlock(heap, t, o, b))
  BY AnyOfIsMember DEF Revive
<1>2. /\ o \in Objs /\ heap.key[o] = k /\ heap.weakPtr[o] \in Blocks
      /\ \A u \in Threads : heap.uses[u] # heap.weakPtr[o]
  BY DEF Heaps, Linked, Revive, Expired
<1>3. /\ b \in Blocks /\ heap.captured[b] = None
      /\ \A u \in Threads : heap.uses[u] # b /\ heap.drops[u] # b
      /\ \A x \in Objs : heap.weakPtr[x] # b
  BY DEF FreshBlocks
<1> DEFINE h == WithBlock(heap, t, o, b)
<1>4. /\ h \in Heaps
      /\ h.entry = heap.entry /\ h.key = heap.key /\ h.drops = heap.drops
      /\ \A x \in Objs : h.weakPtr[x] = IF x = o THEN b ELSE heap.weakPtr[x]
      /\ \A c \in Blocks : h.captured[c] = IF c = b THEN o ELSE heap.captured[c]
      /\ \A v \in Threads : h.uses[v] = IF v = t THEN b ELSE heap.uses[v]
  BY <1>2, <1>3 DEF Heaps, WithBlock
<1> HIDE DEF h, o
<1>5. Linked(h)
  BY <1>2, <1>3, <1>4 DEF Linked, Held, Heaps, o
<1>6. DropsOnce(h)
  <2> SUFFICES ASSUME NEW v \in Threads, h.drops[v] # None, NEW u \in Threads
               PROVE  h.uses[u] # h.drops[v] /\ (h.drops[u] = h.drops[v] => u = v)
    BY DEF DropsOnce
  <2>1. h.uses[u] # h.drops[v]
    BY <1>3, <1>4 DEF DropsOnce
  <2> QED BY <1>4, <2>1 DEF DropsOnce
<1>7. UsedIsListed(h)
  <2> SUFFICES ASSUME NEW v \in Threads, h.uses[v] # None
               PROVE  LET x == h.captured[h.uses[v]] IN h.entry[h.key[x]] = x /\ h.weakPtr[x] = h.uses[v]
    BY DEF UsedIsListed
  <2>1. CASE v = t
    BY <1>2, <1>3, <1>4, <2>1 DEF o
  <2>2. CASE v # t
    <3>1. heap.uses[v] \in Blocks /\ Held(heap, heap.uses[v]) /\ heap.captured[heap.uses[v]] \in Objs
      BY <1>4, <2>2 DEF Held, Linked, Heaps
    <3> QED BY <1>2, <1>3, <1>4, <2>2, <3>1 DEF UsedIsListed
  <2> QED BY <2>1, <2>2
<1>8. CycleBroken(h, orphans)
  BY <1>2, <1>3, <1>4 DEF CycleBroken, o
<1> QED BY <1>1, <1>4, <1>5, <1>6, <1>7, <1>8, CollectedKeeps, CollectedFields DEF h

\* A key without an entry gets an object.
LEMMA ConstructKeeps ==
  ASSUME NEW t \in Threads, NEW k \in Keys, HeapInv(heap, TRUE, orphans), map,
         heap.uses[t] = None, heap.drops[t] = None, Construct(t, k)
  PROVE  HeapInv(heap', map, orphans)
<1> USE NoneAssumption DEF HeapInv
<1>1. PICK o \in FreshObjs, b \in FreshBlocks :
         heap' = WithBlock([heap EXCEPT !.entry[k] = o, !.key[o] = k], t, o, b)
  BY AnyOfIsMember DEF Construct
<1>2. /\ o \in Objs /\ heap.key[o] = None /\ heap.weakPtr[o] = None
      /\ \A l \in Keys : heap.entry[l] # o
      /\ \A c \in Blocks : heap.captured[c] # o
      /\ heap.entry[k] = None
  BY DEF FreshObjs, Heaps, Linked, Construct
<1>3. /\ b \in Blocks /\ heap.captured[b] = None
      /\ \A u \in Threads : heap.uses[u] # b /\ heap.drops[u] # b
      /\ \A x \in Objs : heap.weakPtr[x] # b
  BY DEF FreshBlocks
<1>4. /\ heap' \in Heaps /\ heap'.drops = heap.drops
      /\ \A l \in Keys : heap'.entry[l] = IF l = k THEN o ELSE heap.entry[l]
      /\ \A x \in Objs : heap'.key[x] = IF x = o THEN k ELSE heap.key[x]
      /\ \A x \in Objs : heap'.weakPtr[x] = IF x = o THEN b ELSE heap.weakPtr[x]
      /\ \A c \in Blocks : heap'.captured[c] = IF c = b THEN o ELSE heap.captured[c]
      /\ \A v \in Threads : heap'.uses[v] = IF v = t THEN b ELSE heap.uses[v]
  BY <1>1, <1>2, <1>3 DEF Heaps, WithBlock
<1>5. Linked(heap')
  BY <1>2, <1>3, <1>4 DEF Linked, Held, Heaps
<1>6. DropsOnce(heap')
  BY <1>3, <1>4 DEF DropsOnce, Heaps
<1>7. NoGarbage(heap')
  <2> SUFFICES ASSUME NEW x \in Objs, heap'.key[x] # None
               PROVE  ObjKept(heap', x)
    BY DEF NoGarbage
  <2>1. CASE x = o
    BY <1>4, <2>1 DEF ObjKept
  <2>2. CASE x # o
    <3>1. ObjKept(heap, x)
      BY <1>4, <2>2 DEF NoGarbage
    <3>2. CASE \E l \in Keys : heap.entry[l] = x
      BY <1>2, <1>4, <3>2 DEF ObjKept
    <3>3. ASSUME NEW c \in Blocks, heap.captured[c] = x, Held(heap, c) \/ heap.weakPtr[x] = c
          PROVE  ObjKept(heap', x)
      BY <1>3, <1>4, <2>2, <3>3 DEF ObjKept, Held
    <3> QED BY <3>1, <3>2, <3>3 DEF ObjKept
  <2> QED BY <2>1, <2>2
<1>8. UsedIsListed(heap')
  <2> SUFFICES ASSUME NEW v \in Threads, heap'.uses[v] # None
               PROVE  LET x == heap'.captured[heap'.uses[v]]
                      IN heap'.entry[heap'.key[x]] = x /\ heap'.weakPtr[x] = heap'.uses[v]
    BY DEF UsedIsListed
  <2>1. CASE v = t
    BY <1>2, <1>3, <1>4, <2>1
  <2>2. CASE v # t
    <3>1. heap.uses[v] \in Blocks /\ Held(heap, heap.uses[v]) /\ heap.captured[heap.uses[v]] \in Objs
      BY <1>4, <2>2 DEF Held, Linked, Heaps
    <3> QED BY <1>2, <1>3, <1>4, <2>2, <3>1 DEF UsedIsListed, Linked, Heaps
  <2> QED BY <2>1, <2>2
<1>9. CycleBroken(heap', orphans)
  <2> SUFFICES ASSUME NEW x \in Objs, NEW c \in Blocks, heap'.captured[c] = x, heap'.weakPtr[x] = c,
                      heap'.entry[heap'.key[x]] # x
               PROVE  x \in orphans
    BY DEF CycleBroken
  <2>1. x # o
    BY <1>2, <1>4
  <2>2. c # b /\ heap.captured[c] = x /\ heap.weakPtr[x] = c /\ heap.key[x] \in Keys
    BY <1>3, <1>4, <2>1 DEF Linked, Heaps
  <2>3. heap.entry[heap.key[x]] # x
    BY <1>2, <1>4, <2>1, <2>2
  <2> QED BY <2>2, <2>3 DEF CycleBroken
<1> QED BY <1>4, <1>5, <1>6, <1>7, <1>8, <1>9

\* A handle dies, and if it was the last its deleter holds on to the block.
LEMMA DropKeeps ==
  ASSUME NEW t \in Threads, HeapInv(heap, map, orphans), heap.drops[t] = None, Drop(t)
  PROVE  HeapInv(heap', map, orphans)
<1> USE NoneAssumption DEF HeapInv
<1> DEFINE b == heap.uses[t]
           last == Expired([heap EXCEPT !.uses[t] = None], b)
<1>1. b \in Blocks
  BY DEF Drop, Heaps
<1>2. last <=> \A v \in Threads : v # t => heap.uses[v] # b
  BY <1>1 DEF Expired, Heaps
<1>3. heap' = IF last THEN [heap EXCEPT !.uses[t] = None, !.drops[t] = b]
                      ELSE [heap EXCEPT !.uses[t] = None]
  BY DEF Drop
<1> HIDE DEF last
<1>4. /\ heap' \in Heaps
      /\ heap'.entry = heap.entry /\ heap'.key = heap.key /\ heap'.weakPtr = heap.weakPtr
      /\ heap'.captured = heap.captured
      /\ \A v \in Threads : /\ heap'.uses[v] = IF v = t THEN None ELSE heap.uses[v]
                            /\ heap'.drops[v] = IF v = t /\ last THEN b ELSE heap.drops[v]
  BY <1>1, <1>3 DEF Heaps
<1>5. \A c \in Blocks : Held(heap', c) <=> Held(heap, c)
  <2> SUFFICES ASSUME NEW c \in Blocks
               PROVE  Held(heap', c) <=> Held(heap, c)
    OBVIOUS
  <2>1. CASE c = b
    BY <1>2, <1>4, <2>1 DEF Held
  <2>2. CASE c # b
    BY <1>4, <2>2 DEF Held
  <2> QED BY <2>1, <2>2
<1>6. Linked(heap')
  BY <1>4, <1>5 DEF Linked
<1>7. DropsOnce(heap')
  BY <1>1, <1>2, <1>4 DEF DropsOnce
<1>8. NoGarbage(heap')
  BY <1>4, <1>5 DEF NoGarbage, ObjKept
<1>9. map => UsedIsListed(heap') /\ CycleBroken(heap', orphans)
  BY <1>4 DEF UsedIsListed, CycleBroken
<1> QED BY <1>4, <1>6, <1>7, <1>8, <1>9

\* The entries go with the last reference to Inner, when the map is gone.
LEMMA ReleasedKeeps ==
  ASSUME NEW h \in Heaps, Linked(h), DropsOnce(h), NEW lives \in BOOLEAN
  PROVE  /\ Released(h, lives) \in Heaps
         /\ Linked(Released(h, lives)) /\ DropsOnce(Released(h, lives))
<1> USE NoneAssumption
<1> DEFINE r == [h EXCEPT !.entry = Empty]
<1>1. /\ r \in Heaps
      /\ r.entry = Empty /\ r.key = h.key /\ r.weakPtr = h.weakPtr
      /\ r.captured = h.captured /\ r.uses = h.uses /\ r.drops = h.drops
  BY DEF Heaps, Empty
<1> HIDE DEF r
<1>2. \A b : Held(r, b) <=> Held(h, b)
  BY <1>1 DEF Held
<1>3. Linked(r) /\ DropsOnce(r)
  BY <1>1, <1>2 DEF Linked, DropsOnce, Empty
<1> QED BY <1>1, <1>3 DEF Released, r

\* Whoever destroys the map leaves what handles refer to.
LEMMA DestroyMapKeeps ==
  ASSUME HeapInv(heap, map, orphans), DestroyMap
  PROVE  HeapInv(heap', FALSE, orphans)
<1> DEFINE lives == \E t \in Threads : at[t] = "deleting"
<1>1. heap' = Collected(Released(heap, lives)) /\ lives \in BOOLEAN
  BY DEF DestroyMap
<1> QED BY <1>1, ReleasedKeeps, CollectedKeeps, CollectedFields DEF HeapInv

\* A deleter of a map that is gone has nothing to do.
LEMMA LockContainerKeeps ==
  ASSUME NEW t \in Threads, HeapInv(heap, map, orphans), LockContainer(t)
  PROVE  HeapInv(heap', map, orphans)
<1> USE DEF HeapInv
<1>1. CASE InnerAlive
  BY <1>1 DEF LockContainer
<1>2. CASE ~InnerAlive
  <2> DEFINE h == [heap EXCEPT !.drops[t] = None]
  <2>1. heap' = Collected(h) /\ ~map
    BY <1>2 DEF LockContainer, InnerAlive
  <2>2. /\ h \in Heaps
        /\ h.entry = heap.entry /\ h.key = heap.key /\ h.weakPtr = heap.weakPtr
        /\ h.captured = heap.captured /\ h.uses = heap.uses
        /\ \A v \in Threads : h.drops[v] = IF v = t THEN None ELSE heap.drops[v]
    BY DEF Heaps
  <2> HIDE DEF h
  <2>3. \A b \in Blocks : Held(h, b) => Held(heap, b)
    BY <2>2, NoneAssumption DEF Held
  <2>4. Linked(h) /\ DropsOnce(h)
    BY <2>2, <2>3 DEF Linked, DropsOnce
  <2> QED BY <2>1, <2>2, <2>4, CollectedKeeps, CollectedFields
<1> QED BY <1>1, <1>2

\* A deleter erases the entry of its key if nobody uses the object there, and lets
\* go of its own object.  If the two are not the same, the one erased is an orphan.
LEMMA DeleteKeeps ==
  ASSUME NEW t \in Threads, HeapInv(heap, map, orphans), heap.drops[t] # None, Delete(t)
  PROVE  HeapInv(heap', map', orphans')
<1> USE NoneAssumption DEF HeapInv
<1> DEFINE b == heap.drops[t]
           k == heap.key[heap.captured[b]]
           o == heap.entry[k]
           erase == o # None /\ Expired(heap, heap.weakPtr[o])
           done == [heap EXCEPT !.drops[t] = None]
           h == IF erase THEN [done EXCEPT !.captured[b] = None, !.entry[k] = None] ELSE done
           lives == map \/ \E u \in Threads : [at EXCEPT ![t] = "idle"][u] = "deleting"
           all == IF erase /\ heap.weakPtr[o] # b THEN orphans \cup {o} ELSE orphans
<1>1. /\ heap' = Collected(Released(h, lives)) /\ map' = map
      /\ orphans' = {x \in all : heap'.key[x] # None}
      /\ lives \in BOOLEAN /\ (map => lives = TRUE)
  BY DEF Delete
<1>2. b \in Blocks /\ k \in Keys /\ o \in Objs \cup {None}
  BY DEF Linked, Held, Heaps
<1>3. \A v \in Threads : heap.uses[v] # b /\ (v # t => heap.drops[v] # b)
  BY DEF DropsOnce
<1>4. erase <=> o # None /\ \A v \in Threads : heap.uses[v] # heap.weakPtr[o]
  BY DEF Expired
<1> HIDE DEF erase, lives
<1>5. /\ h \in Heaps
      /\ h.key = heap.key /\ h.weakPtr = heap.weakPtr /\ h.uses = heap.uses
      /\ \A l \in Keys : h.entry[l] = IF erase /\ l = k THEN None ELSE heap.entry[l]
      /\ \A c \in Blocks : h.captured[c] = IF erase /\ c = b THEN None ELSE heap.captured[c]
      /\ \A v \in Threads : h.drops[v] = IF v = t THEN None ELSE heap.drops[v]
  BY <1>2 DEF Heaps
<1> HIDE DEF h
<1>6. Linked(h)
  <2>1. \A c \in Blocks : Held(h, c) => Held(heap, c) /\ c # b
    BY <1>2, <1>3, <1>5 DEF Held
  <2>2. \A c \in Blocks : /\ h.captured[c] # None => h.key[h.captured[c]] # None
                          /\ Held(h, c) => h.captured[c] # None
    BY <1>5, <2>1 DEF Linked
  <2>3. \A x \in Objs : /\ h.key[x] = None => h.weakPtr[x] = None
                        /\ h.weakPtr[x] # None => h.captured[h.weakPtr[x]] \in {x, None}
    BY <1>5 DEF Linked, Heaps
  <2>4. \A l \in Keys : h.entry[l] # None => h.key[h.entry[l]] = l /\ h.weakPtr[h.entry[l]] # None
    BY <1>5 DEF Linked
  <2> QED BY <2>2, <2>3, <2>4 DEF Linked
<1>7. DropsOnce(h)
  BY <1>5 DEF DropsOnce
<1>8. map => UsedIsListed(h)
  <2> SUFFICES ASSUME map, NEW v \in Threads, h.uses[v] # None
               PROVE  LET x == h.captured[h.uses[v]] IN h.entry[h.key[x]] = x /\ h.weakPtr[x] = h.uses[v]
    BY DEF UsedIsListed
  <2> DEFINE x == heap.captured[heap.uses[v]]
  <2>1. heap.uses[v] \in Blocks /\ Held(heap, heap.uses[v]) /\ x \in Objs /\ heap.key[x] \in Keys
    BY <1>5 DEF Held, Linked, Heaps
  <2>2. heap.entry[heap.key[x]] = x /\ heap.weakPtr[x] = heap.uses[v]
    BY <1>5 DEF UsedIsListed
  <2>3. h.captured[h.uses[v]] = x
    BY <1>3, <1>5, <2>1
  <2>4. ~(erase /\ heap.key[x] = k)
    BY <1>4, <2>2
  <2> QED BY <1>5, <2>1, <2>2, <2>3, <2>4
<1>9. map => CycleBroken(h, all)
  <2> SUFFICES ASSUME map, NEW x \in Objs, NEW c \in Blocks,
                      h.captured[c] = x, h.weakPtr[x] = c, h.entry[h.key[x]] # x
               PROVE  x \in all
    BY DEF CycleBroken
  <2>1. heap.captured[c] = x /\ heap.weakPtr[x] = c /\ heap.key[x] \in Keys /\ (erase => c # b)
    BY <1>5 DEF Linked, Heaps
  <2>2. CASE heap.entry[heap.key[x]] # x
    BY <2>1, <2>2 DEF CycleBroken
  <2>3. CASE heap.entry[heap.key[x]] = x
    <3>1. erase /\ x = o
      BY <1>5, <2>1, <2>3
    <3> QED BY <2>1, <3>1
  <2> QED BY <2>2, <2>3
<1> HIDE DEF all
<1>10. /\ heap' \in Heaps /\ Linked(heap') /\ DropsOnce(heap') /\ NoGarbage(heap')
  BY <1>1, <1>5, <1>6, <1>7, ReleasedKeeps, CollectedKeeps, CollectedFields
<1>11. map => UsedIsListed(heap') /\ CycleBroken(heap', all)
  <2> SUFFICES ASSUME map PROVE UsedIsListed(heap') /\ CycleBroken(heap', all)
    OBVIOUS
  <2>1. heap' = Collected(h)
    BY <1>1 DEF Released
  <2> QED BY <1>5, <1>6, <1>7, <1>8, <1>9, <2>1, CollectedKeeps
<1>12. map => CycleBroken(heap', orphans')
  BY <1>1, <1>10, <1>11 DEF CycleBroken, Linked
<1> QED BY <1>1, <1>10, <1>11, <1>12

-----------------------------------------------------------------------------
(* What the threads do meanwhile *)

Runs == {"dropped", "deleting"}

LEMMA NotifiedKeeps ==
  ASSUME NEW after \in [Threads -> Ats]
  PROVE  /\ Notified(after) \in [Threads -> Ats]
         /\ \A t \in Threads : Notified(after)[t] \in Runs <=> after[t] \in Runs
  BY DEF Notified, Ats, Runs

\* Taking a handle runs no deleter.
LEMMA GetResourceDrops ==
  ASSUME NEW t \in Threads, NEW k \in Keys, heap \in Heaps, Linked(heap),
         Share(t, k) \/ Revive(t, k) \/ Construct(t, k)
  PROVE  heap'.drops = heap.drops
<1>1. CASE Share(t, k)
  BY <1>1 DEF Share, Heaps
<1>2. CASE Revive(t, k)
  BY <1>2 DEF Revive, Collected, WithBlock, Heaps
<1>3. CASE Construct(t, k)
  BY <1>3 DEF Construct, WithBlock, Heaps
<1> QED BY <1>1, <1>2, <1>3

\* The deleter of a thread is over.
LEMMA DeleteDrops ==
  ASSUME NEW t \in Threads, heap \in Heaps, Delete(t)
  PROVE  heap'.drops = [heap.drops EXCEPT ![t] = None]
<1> DEFINE b == heap.drops[t]
           k == heap.key[heap.captured[b]]
           o == heap.entry[k]
           erase == o # None /\ Expired(heap, heap.weakPtr[o])
           done == [heap EXCEPT !.drops[t] = None]
           h == IF erase THEN [done EXCEPT !.captured[b] = None, !.entry[k] = None] ELSE done
           lives == map \/ \E u \in Threads : [at EXCEPT ![t] = "idle"][u] = "deleting"
<1>1. heap' = Collected(Released(h, lives))
  BY DEF Delete
<1> HIDE DEF erase, lives
<1>2. h.drops = [heap.drops EXCEPT ![t] = None]
  BY DEF Heaps
<1> HIDE DEF h
<1> QED BY <1>1, <1>2 DEF Collected, Released

LEMMA MapStepInvariant == MapInv /\ [Next]_vars => MapInv'
<1> SUFFICES ASSUME MapInv, [Next]_vars
             PROVE  MapInv'
    OBVIOUS
<1> USE DEF MapInv
<1>0. heap \in Heaps /\ Linked(heap) /\ heap.drops \in [Threads -> Blocks \cup {None}]
  BY DEF HeapInv, Heaps
<1>1. CASE UNCHANGED vars
  BY <1>1 DEF vars, HeapInv, DropsWhenAt
<1>2. CASE DestroyMap
  <2>1. DropsWhenAt'
    <3>1. heap'.drops = heap.drops
      BY <1>2, CollectedFields, ReleasedKeeps DEF DestroyMap, HeapInv, Released, Heaps, Empty
    <3> QED BY <1>2, <3>1 DEF DropsWhenAt, DestroyMap
  <2> QED BY <1>2, <2>1, DestroyMapKeeps DEF DestroyMap, HeapInv
<1>3. ASSUME NEW t \in Threads, NEW k \in Keys, GetResource(t, k) PROVE MapInv'
  <2>1. /\ map /\ heap.uses[t] = None /\ heap.drops[t] = None
        /\ HeapInv(heap, TRUE, orphans)
        /\ UNCHANGED <<map, orphans>>
    BY <1>3 DEF GetResource, DropsWhenAt, HeapInv
  <2>2. HeapInv(heap', map', orphans')
    BY <1>3, <2>1, ShareKeeps, ReviveKeeps, ConstructKeeps DEF GetResource
  <2>3. heap'.drops = heap.drops /\ (at' = at \/ at' = Notified(at))
    BY <1>0, <1>3, GetResourceDrops DEF GetResource, Share, Revive, Construct
  <2>4. at' \in [Threads -> Ats] /\ DropsWhenAt'
    BY <2>3, NotifiedKeeps DEF DropsWhenAt, Runs
  <2> QED BY <2>1, <2>2, <2>4
<1>4. ASSUME NEW t \in Threads, NEW k \in Keys, ConstructorThrows(t, k) PROVE MapInv'
  BY <1>4 DEF ConstructorThrows, HeapInv, DropsWhenAt
<1>5. ASSUME NEW t \in Threads, NEW u \in Threads, Copy(t, u) PROVE MapInv'
  <2>1. heap.uses[t] \in Blocks /\ heap.uses[u] = None
    BY <1>5 DEF Copy, HeapInv, Heaps
  <2>2. HeapInv(heap', map, orphans)
    BY <1>5, <2>1, SharingKeeps DEF Copy
  <2>3. heap'.drops = heap.drops
    BY <1>5, <1>0 DEF Copy, Heaps
  <2> QED BY <1>5, <2>2, <2>3 DEF Copy, HeapInv, DropsWhenAt
<1>6. ASSUME NEW t \in Threads, Drop(t) PROVE MapInv'
  <2>1. heap.drops[t] = None /\ heap.uses[t] \in Blocks
    BY <1>6 DEF Drop, DropsWhenAt, HeapInv, Heaps
  <2>2. HeapInv(heap', map, orphans)
    BY <1>6, <2>1, DropKeeps
  <2>3. CASE Expired([heap EXCEPT !.uses[t] = None], heap.uses[t])
    <3>1. /\ heap'.drops = [heap.drops EXCEPT ![t] = heap.uses[t]]
          /\ at' = [at EXCEPT ![t] = "dropped"]
      BY <1>0, <1>6, <2>3 DEF Drop, Heaps
    <3> QED BY <1>0, <1>6, <2>1, <2>2, <3>1, NoneAssumption DEF Drop, HeapInv, DropsWhenAt, Ats
  <2>4. CASE ~Expired([heap EXCEPT !.uses[t] = None], heap.uses[t])
    <3>1. heap'.drops = heap.drops /\ at' = at
      BY <1>0, <1>6, <2>4 DEF Drop, Heaps
    <3> QED BY <1>6, <2>2, <3>1 DEF Drop, HeapInv, DropsWhenAt
  <2> QED BY <2>3, <2>4
<1>7. ASSUME NEW t \in Threads, LockContainer(t) PROVE MapInv'
  <2>1. HeapInv(heap', map, orphans)
    BY <1>7, LockContainerKeeps
  <2>2. CASE InnerAlive
    BY <1>7, <2>1, <2>2 DEF LockContainer, HeapInv, DropsWhenAt, Ats
  <2>3. CASE ~InnerAlive
    <3>1. heap'.drops = [heap.drops EXCEPT ![t] = None] /\ at' = [at EXCEPT ![t] = "idle"]
      BY <1>0, <1>7, <2>3 DEF LockContainer, Collected, Heaps
    <3> QED BY <1>0, <1>7, <2>1, <3>1 DEF LockContainer, HeapInv, DropsWhenAt, Ats
  <2> QED BY <2>2, <2>3
<1>8. ASSUME NEW t \in Threads, Delete(t) PROVE MapInv'
  <2>1. HeapInv(heap', map', orphans')
    BY <1>8, DeleteKeeps DEF DropsWhenAt, Delete
  <2>2. heap'.drops = [heap.drops EXCEPT ![t] = None]
    BY <1>0, <1>8, DeleteDrops
  <2> DEFINE after == [at EXCEPT ![t] = "idle"]
  <2>3. after \in [Threads -> Ats] /\ (at' = after \/ at' = Notified(after)) /\ map' = map
    BY <1>8 DEF Delete, Ats
  <2>4. \A u \in Threads : after[u] \in Runs <=> u # t /\ at[u] \in Runs
    BY DEF Runs
  <2> HIDE DEF after
  <2>5. at' \in [Threads -> Ats] /\ \A u \in Threads : at'[u] \in Runs <=> u # t /\ at[u] \in Runs
    BY <2>3, <2>4, NotifiedKeeps
  <2>6. DropsWhenAt'
    BY <1>0, <2>2, <2>5 DEF DropsWhenAt, Runs
  <2> QED BY <2>1, <2>3, <2>5, <2>6
<1>9. ASSUME NEW t \in Threads, Visit(t) PROVE MapInv'
  <2>1. PICK k \in Keys : /\ heap.entry[k] # None /\ ~Expired(heap, heap.weakPtr[heap.entry[k]])
                          /\ heap' = [heap EXCEPT !.uses[t] = heap.weakPtr[heap.entry[k]]]
    BY <1>9 DEF Visit
  <2>2. heap.weakPtr[heap.entry[k]] \in Blocks
    BY <1>0, <2>1 DEF Linked, Heaps
  <2>3. PICK u \in Threads : heap.uses[u] = heap.weakPtr[heap.entry[k]]
    BY <2>1 DEF Expired
  <2>4. HeapInv(heap', map, orphans)
    BY <1>9, <2>1, <2>2, <2>3, SharingKeeps DEF Visit
  <2>5. heap'.drops = heap.drops
    BY <1>0, <2>1 DEF Heaps
  <2> QED BY <1>9, <2>4, <2>5 DEF Visit, HeapInv, DropsWhenAt, Ats
<1>10. ASSUME NEW t \in Threads,
              EndForEach(t) \/ WaitForEmpty(t) \/ Retest(t) \/ SpuriousWakeup(t)
       PROVE  MapInv'
  <2>1. /\ UNCHANGED <<heap, map, orphans>> /\ at' \in [Threads -> Ats]
        /\ \A u \in Threads : at'[u] \in Runs <=> at[u] \in Runs
    BY <1>10 DEF EndForEach, WaitForEmpty, Retest, SpuriousWakeup, Ats, Runs
  <2> QED BY <2>1 DEF HeapInv, DropsWhenAt, Runs
<1> QED BY <1>1, <1>2, <1>3, <1>4, <1>5, <1>6, <1>7, <1>8, <1>9, <1>10 DEF Next, Step

-----------------------------------------------------------------------------
\* InUseIsInMap, what getResource relies on when it finds a key (SharedResourceMap.h):
\* whichever threads revive, copy and drop handles, the key of a resource in use leads to it.
THEOREM InUseIsInMapHolds == Spec => []InUseIsInMap
<1>1. MapInv => InUseIsInMap
  BY DEF MapInv, HeapInv, UsedIsListed, InUseIsInMap, Object
<1> QED BY <1>1, MapInitInvariant, MapStepInvariant, PTL DEF Spec

\* LeaksExplained: nothing but the two cases that the code has can leave a resource
\* behind that nobody can reach.
THEOREM LeaksExplainedHolds == Spec => []LeaksExplained
<1>1. ASSUME MapInv, NEW o \in Objs, Leaked(o), map PROVE o \in orphans
  <2>1. ObjKept(heap, o) /\ heap.key[o] \in Keys
    BY <1>1 DEF MapInv, HeapInv, NoGarbage, Leaked, Heaps
  <2>2. PICK b \in Blocks : heap.captured[b] = o /\ (Held(heap, b) \/ heap.weakPtr[o] = b)
    BY <1>1, <2>1 DEF ObjKept, Leaked
  <2>3. ~Held(heap, b)
    BY <1>1, <2>2, NoneAssumption DEF Held, Leaked
  <2> QED BY <1>1, <2>1, <2>2, <2>3 DEF MapInv, HeapInv, CycleBroken, Leaked
<1>2. MapInv => LeaksExplained
  BY <1>1 DEF LeaksExplained
<1> QED BY <1>2, MapInitInvariant, MapStepInvariant, PTL DEF Spec
=============================================================================
