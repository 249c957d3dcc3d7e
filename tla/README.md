# Verification of cxxheaders

cxxheaders is a header-only C++14 library of 150 headers. Most of them are
templates without state of their own (type traits, operators, formatting); the
logic that is hard to get right and hard to test is in some twenty headers of
threads, queues, locks and caches, and in as many of containers, numbers and
layouts. This directory holds TLA+ modules for those, TLC configurations that
check the modules on small instances, and TLAPS proofs of the results that matter
most, for instances of every size.

Line numbers and names below are those of `src/src/*.h`.

## 1. Inventory

### Concurrency

| Component | State | Operations | Interacts with | What makes it correct |
|---|---|---|---|---|
| `TicketSpinLock` | `m_active`, `m_next` (wrapping `size_t`) | `lock`, `unlock` | is `m_tailMutex` of `ThreadPool` and of `Strand` | one holder, first come first served, nobody spins for ever |
| `ThreadPool` | list of `TaskWrapper`s from `m_head` to the dummy at `m_tail`, `m_stop`; `m_headMutex`, `m_tailMutex`, `m_dataCond` | `submit`, `notifyStop`, `waitAndPop` with and without deadline, four worker functions | tasks call `submit` and `notifyStop`; `Strand` submits its slice | first in first out, each submission once, none lost, no lost wakeup, none starts after a stop |
| `SimpleThreadPool` | the above, `m_threads`, `m_threadsMutex` | constructor, `join`, `stopAndJoin`, destructor | owns its workers | a constructor that fails half way leaves no thread; joins terminate |
| `ParticipatoryThreadPool` | the above, `m_numParticipants`, `m_mutex`, `m_cond` | six `participate` functions, `join`, `stopAndJoin` | callers lend their threads | `join` returns only when nobody is inside; the counter never overflows |
| `Strand` | its job list, `m_threadPool`, `m_sliceTask`, `m_joinCond` | `submit`, `run` (the slice), `stopAndJoin`, `stopAndMaybeJoin` | puts one slice on a pool, which runs one job per turn | no two jobs in parallel, jobs in order, none stranded, `stopAndJoin` final |
| `Future`, `Promise`, `PackagedTask` | `SharedState`: value or exception, `m_continuation`, `isSet` | setters, `takeValue`, `wait*`, `then`, destruction and moves | continuations run in the thread of the setter or of `then` | a continuation runs exactly once, waiters wake, broken promises are seen |
| `TimeoutsThread` | multiset of tasks by time, `m_stopTask`, `m_cond` | `addTask`, `run`, `stop`, destructor | tasks add tasks, also themselves | never early, earliest first, `stop` ends the thread |
| `EventLoop`, `SingleThreadEventLoop` | epoll set, `m_closePipe`, `m_loopCounter`, `m_stopMutex` | `insert`, `modify`, `remove`, `run`, `stop`, the wait for the end of an iteration | the kernel's epoll and pipe; handlers call back | no handler is called after `remove` and the wait; waits and `stop` return |
| `MpscWaitFreeSemiIntrusiveQueue` | `m_tail`, `m_head`, linked `Node`s | `push`, `pop`, destructor | users own and recycle the nodes | FIFO, nothing lost, a node that was returned is unreachable |
| `CircBufferSCSP` | `m_readOffset`, `m_writeOffset`, `m_dataAvailable` under a mutex | `read`, `write` with pointer or actor, `haveRead`, `haveWritten`, waits | one producer, one consumer | bounded FIFO, copies never overlap, no lost wakeup |
| `SharedResourceMap` | map from key to object, its `weakPtr`, `m_mutex`, `m_cond` | `getResource`, deleter, `forEach`, `waitForEmpty` | users hold handles in other threads | a resource in use is in the map; entries go with the last handle |
| `Latch`, `SimpleWait`, `NoStartThread`, `Stoppable` | a counter or flag | count down, wait, notify, start, stop | stop tests of `CircBufferSCSP` | no lost wakeup, one last count down |

### Sequential, or with a mutex of its own

| Component | State | Operations | What makes it correct |
|---|---|---|---|
| `IdentifierPool` | `m_reserved`, `m_tryNextId`, holders | reserve, move, release | identifiers in use are pairwise different, released ones come back, exhaustion is reported |
| `LRU` | `m_cacheList`, `m_weakList`, the map of iterators into both | `insert`, `get`, `clear` | the map and both lists agree, the limit holds, the key used longest ago goes first, a living value is found |
| `UnorderedMap` | a multimap from hashes to shared pointers | find, emplace, assign, erase, copy, move, swap | colliding keys stay apart, equal keys together |
| `BitVector` | blocks, `m_num_bits`, undefined excess bits | resize, push, pop, flip, assign, append, serialize, `==` | agrees with a sequence of Booleans, whatever the excess bits are |
| `uint_t`, `uint128_t` | blocks; two halves | arithmetic, shifts, division, conversion, digits | agree with arithmetic modulo 2^w, unused bits stay zero |
| `Optional` | `m_containsValue` and a union | construct, assign, emplace, swap, reset, compare | every value is destroyed exactly once, also when its constructors throw |
| `StringView`, `Split`, `StringHasher` | a pointer and a size | views of views, searches, trimming, output, comparison, hash | agree with the definitions on strings; what is equal hashes alike |
| `NetworkMessage` | bytes and an offset, on each side | write, rewind, seek; read, skip | items come back as written, a failed read goes back |
| packed structures | bytes, the sums of sizes `m_sizes` | construct, copy, set and get fields, compare | fields neither overlap nor leave gaps |
| `ObjectTree` | parents, their children, a mutex each | register, destroy from either end | nobody is destroyed twice or refers to what has gone |
| `IntrusiveUnorderedSharedItemSet` | linked items, each with a pointer to itself | insert, erase, take, clear | no leak, nothing freed twice |
| flags, exceptions, ranges, metaprogramming | none, or one word | | types and single expressions |

`PROJECT.json` lists every component with its sources and, where it is not
modelled or in part only, the reason.

### What is hard here

* Locks that are taken in two parts (`m_headMutex` held during a sleep that
  releases only `m_tailMutex`), and data that is read under no lock at all
  because "only one thread" does it (`CircBufferSCSP` offsets, list heads).
* A notification that meets a deadline, a spurious wakeup, or a sleeper with
  another predicate.
* Hand-over of an object between threads: the strand's slice, the continuation of
  a future, the node that `pop` returns, the handler of an event.
* Joins and destructors that race with work that is just being scheduled.
* Callbacks that call back: a job that stops its strand, a task that adds
  itself, `forEach` with the last handle.
* Counters that wrap: tickets, ring offsets, identifiers.
* Iterators and pointers kept across containers (`LRU`), and objects that own
  themselves (`IntrusiveUnorderedSharedItemSet`) or are owned by hand (`Optional`).
* The last block: partly used, exactly full, or none (`BitVector`, `uint_t`), and
  the last place a needle fits, found by counting down in unsigned arithmetic.
* Reads that fail half way, and layouts computed by recursion over field lists.

The list of hazards in `PROJECT.json` gives each one its line.

## 2. Modules

One module models one component; where a component rests on another, the
upper one uses the lower one's *abstract* specification and the lower one is
shown to implement that.

| Abstract specification | Implemented by | Used by |
|---|---|---|
| `FifoLock` (who asks first, holds first) | `TicketSpinLock` (run `ticket`) | sections under `m_tailMutex` are one step of `ThreadPool` and `Strand` |
| `TaskQueue` (FIFO of jobs, workers, stop) | `ThreadPool` (run `partpool`); `Strand` with a single worker (run `strand`) | `Strand` runs on the pool that `TaskQueue` describes |
| `BoundedFifo` | `CircBuffer` (run `circbuffer`) | |
| `UnboundedFifo` | `MpscQueue` (run `mpsc`) | |
| `DueQueue` (tasks start when due, earliest first, in order of arrival) | `TimeoutsThread` (run `timeouts`) | |

`SimpleThreadPool` and `ParticipatoryThreadPool` extend `ThreadPool` as the classes
do, and their runs check it too. `MC*.cfg`, with an `MC*.tla` where one is
needed, give the constants their values. `Utilities` and `DataTypes` join the components that do not interact with any other
and `MCUtilities` adds the big integers (below). `*Proofs.tla` hold the theorems. Operators preceded by a comment that begins
with "Bug:" are deliberately wrong forms of the operator that follows them, kept
to see that the properties notice; nothing else refers to them. A `TypeOK` that no
run names documents the shape of the state.

History variables remember what happened and are read by no guard: `order` in `ThreadPool`
and `MpscQueue` (the nodes of the list, oldest first), `arrivals` in
`TimeoutsThread` (the waiting tasks in order of arrival), and those of the utilities.

A section under a mutex is one step throughout: the data it touches is touched
under that mutex only. Atomic accesses outside are one step each.

### TicketSpinLock (`lock`, `unlock`)

Drawing a ticket, seeing it served, loading `m_active` and storing its successor
are four actions, so that `unlock()` is not atomic. Counters are modulo
`TicketCount`; the code's is 2^64, and the only assumption is that there are not
more threads than tickets.

### ThreadPool, SimpleThreadPool, ParticipatoryThreadPool

The linked list is modelled with its pointers: `submit` fills the old dummy and links
a new one; `pop` takes `m_head` in two steps outside `m_tailMutex`. A worker that
sleeps keeps `m_headMutex`, as in `waitAndPop`. A timed wait may report its
timeout to a thread that has been notified as well. A job may submit the wrapper
it was called with again (`Reusable`), and another worker may then start it
before the first call returns. Freed wrappers are used again, and the `Wrappers`
are enough for memory not to run out (`WrappersAssumption`: more than there are jobs
and threads).

`SimpleThreadPool` adds the constructor, which may fail at any thread, the
members that join, for several callers, and the destructor.
`ParticipatoryThreadPool` adds the context objects that count participants in and
out, `join` and `stopAndJoin`; its counter can count fewer threads than there are.

### Strand

State and actions follow `Strand::Internal`: the job list, whether the pool is still
attached, whether the slice is parked. `run()` is split where it releases
`m_tailMutex`: before the job, after it, and at the decision to submit the slice
again or park it. Callers stop from outside, or from inside one of the strand's own
jobs, which `CallStack` recognises. Other users share the pool and it may be stopped
at any time. The thread that runs the slice holds its own reference to
`Internal`, therefore its lifetime is not an issue after a join and is left out.

### Future

A shared state has a result, a continuation, and owners of its promise and its
future. Resolving takes the continuation out under the mutex; the thread then
*carries* it until its function returns, throws, or returns a future, in which
case the thread blocks in that future's `takeValue()` and passes the result on.
States are numbered in order of creation, so that chains and continuations of
continuations up to the number of states occur. `Make` is `makeReadyFuture()` and
its like, which hand out the future of a state that is resolved already; `CallTask`
is a `PackagedTask`, a promise that is resolved once with what a function does.

### CircBuffer

Each side has a program counter that separates copying, changing `m_dataAvailable`
(under the mutex) and moving its own offset (without it). Transfers with a
pointer or an actor go chunk by chunk; values are `Values`, since the code never
looks at them. The first turn of an actor's loop is not split in two because a
chunk is never larger than the bound on a transfer (`N < SizeMax`). The stop test
is called with the mutex held and either returns or throws.

### MpscQueue

`push` is two steps (exchange of the tail, link from the old one), `pop` four (load,
move of the data, advance of the head, release of the old node). Memory is
sequentially consistent, as in a build for x86-64; see section 6.

### IdentifierPool

Identifiers are `0 .. M - 1`. `Reserve` searches cyclically from `m_tryNextId`
and throws through a `noexcept` constructor when none is free. Holders are
moved into each other. A holder assigned to itself recycles its identifier and
keeps it (line 120): the model has this step and remembers it in
`selfMoved`; the properties are stated until then.

### SharedResourceMap

Handles are counted in control blocks; when the last one goes, its deleter runs
later, and until it has `m_mutex` the resource may be revived (`getResource` makes a
new control block for the same object), dropped again and replaced. The cycle
between an object's `weakPtr` and the deleter that captures the object is in
the model, so it sees what leaks. The map may die before its handles.

### TimeoutsThread

The list is sorted by time with equal times in order of insertion; adding notifies
when the new task comes first. The thread sleeps to the time that was first when it
looked. Callbacks add reusable tasks, themselves included. Time is
`0 .. MaxTime`; tasks take times after the epoch, which `stop()` uses to come first.

### EventLoop

Descriptors, the batch `epoll_wait()` returned, the pipe's bytes, and the threads that
wait for the end of an iteration, each access to `m_loopCounter` and each
`try_lock` a step of its own. `epoll_ctl` is an operator on the set of descriptors
with its errors `EEXIST` and `ENOENT`, on which `insertOrModify` depends. A descriptor reported is disabled (`EPOLLONESHOT`).
`changed` holds the threads that would find the counter different from what
they loaded: this is exact unless an `unsigned` wraps around in between.
`run()` is not called again after it has thrown. A handler is destroyed only
after `remove` and the wait; when the pipe was closed by `stopAsync()` the wait
returns at once, and the history variable `unawaited` holds the handlers concerned.
`Flush` may find the pipe empty after reads of just `DISCARD_SIZE` bytes: the
loop then reads on until there is something to read (`Starved`), as the code does
where assertions are not compiled.

### The utilities

The remaining components call none of the others, and none calls them. Each has a
module, and all are checked in one run, in which the variable `part` says which one
a behaviour is about while the variables of the others keep one initial value.
`Utilities` instantiates the modules with constants of any value, and the proofs
are about it: `IdentifierPool`, `Latch`, `NoStartThread`, `Optional`, `ObjectTree`,
`SharedItemSet`, `LRU`, `UnorderedMap`, `BitVec` and `StringView`. `DataTypes` does the
same for `NetworkMessage` and `DynamicPackedStruct`, with a variable `datatype`.
`MCUtilities` extends both, adds `Uint` and `Uint128`, which compute with bitwise
operators, and gives all constants values. Most are containers or algorithms; their state is that
of the class, and history variables say what the object stands for: `contents`,
`bits`, `str`, `holds`, `items`, `written`. The properties compare the two.

| Module | What it models | What it leaves to a mark |
|---|---|---|
| `LRU` | list nodes that keep their identity when they are spliced between the two lists, iterators in the map, users who hold values; `get` in its three cases, `grow` after it | |
| `UnorderedMap` | the multimap by hash and the lookups by hash and predicate, by key and by linear search; insertion, assignment, removal, copy, move, swap | `copied`: copies share their elements, so mapped values are compared up to the first copy |
| `BitVec` | blocks with their excess bits as the code leaves them; every operation that changes or reads bits | `unaligned`: `append` at a size inside a block |
| `Uint`, `Uint128` | arithmetic block by block, shifts across blocks, long division, digits; the 128-bit products from pieces of halves | |
| `Optional` | how often the value in the union was constructed, from every constructor to `swap`, with constructors that throw; six comparisons | `broken`: a copying or moving constructor threw |
| `StringView` | the searches as the code counts, trimming on top of them, output with a width into a stream with little room, pieces of `split()`, the hashes and predicates of string tables | |
| `NetworkMessage` | writes with their checks for room, reads with their roll-backs, of the message that was written or of others; `WriteObject` for what overload resolution makes of a string that is not const | |
| `DynamicPackedStruct` | sums of sizes up to each dynamic field, the offset of a field from them, and the structs on that layout; lists without dynamic fields are `PackedStruct`s | |
| `Latch` | a counter and a flag, with the condition variables of `Latch` and `SimpleWait` and the stop requests of `Stoppable` | |
| `NoStartThread` | the thread, its promise, and an owner that sets, starts, stops, joins and destroys | |
| `ObjectTree` | registration after construction, destruction from the child's and from the parent's end, call stacks of two threads | `siblings`: a child's destructor destroyed another child |
| `SharedItemSet` | items linked, their own pointers, the users' pointers | `refused`: an equal item was there |

The marks stand for what the code really does in these cases (section 6), not for
guards: the step is in the model, and the properties are stated for states
without the mark.

## 3. Runs

Twelve runs, all exhaustive. Deadlock is checked in `ticket`, `partpool`,
`circbuffer` and `mpsc`; in the others the system may stop for good (a pool is
destroyed, all promises are resolved, the thread has ended, an object is not used
any more).

| Run | Instance | Shows |
|---|---|---|
| `ticket` | 3 threads, 4 tickets | `MutualExclusion`; it is a `FifoLock`; `NoStarvation`, across wrap-around |
| `simplepool` | 2 workers, 2 callers, 2 jobs, one of them reusable | `GoneIsQuiet`: no thread touches a pool that failed to be constructed or was destroyed; `StopTakesEffect`; `JobsServed` |
| `partpool` | 3 threads, a counter that can count 2, 1 job | `NoLostWakeup`, the pool is a `TaskQueue`, `JoinSawNobody`, `JoinReturns` |
| `strand` | 2 workers, 3 jobs, 1 other user, 2 callers | `NoParallelJobs`, `SliceHasWork`, `JoinedIsQuiet`, the strand is a `TaskQueue` with one worker (`ImplementsSerialQueue`), `JobsServed`, `JoinReturns` |
| `future` | 2 threads, 3 states | `ContinuationInOnePlace`; `ResolutionReaches`: waiters wake and continuations run |
| `circbuffer` | 3 places, 2 values, requests of up to 4 | `OffsetsAgree`, `NoRace`, `NobodySleepsOverRoom`, it is a `BoundedFifo` |
| `mpsc` | 3 producers, 4 nodes, 3 items | `HeldIsUnreachable`, it is an `UnboundedFifo`, `Delivered` |
| `identifiers_exhausted` | 3 identifiers, 4 holders | a violation, see section 6 |
| `resources` | 3 threads, 1 key, 2 objects, 3 control blocks | `InUseIsInMap`, `LeaksExplained`; `MapEmpties`: entries go and `waitForEmpty` returns |
| `timeouts` | 2 tasks, 1 reusable task, 4 moments | `NeverOversleeps`, it is a `DueQueue`; `TasksAndStopServed`: tasks start and a stop ends the thread |
| `eventloop` | 2 descriptors, 2 waiting threads, reads of 2 bytes from the pipe | `HandlersAlive`: no handler is called that was destroyed after a wait; `CallsReturn`: the waits for an iteration end, unless the loop starves in its flush, and so does `stop`, starving or not |
| `utilities` | the next table | `IdsHeld`, `ContainersAgree`, `NumbersAgree`, `TextAgrees`, `PiecesAgree`, `WaitersReleased`, `OwnersAgree` |

The parts of `utilities`:

| Part | Instance | Property |
|---|---|---|
| `ids` | 3 identifiers, 4 holders | `IdsHeld`: identifiers in use are different and are those reserved |
| `lru` | 3 keys, 3 values, a limit of 2, 4 nodes | `ContainersAgree`: the strong elements are those used last, in that order; what was inserted last is found while it lives |
| `map` | 2 maps, 5 elements, keys of which two are equal and a third has the same hash | `ContainersAgree`: each lookup finds what it should, once |
| `bits` | 2 vectors of up to 4 bits in blocks of 2 | `ContainersAgree`: bits, `==` and serialization are those of sequences of Booleans |
| `uint` | all pairs of numbers of 1 to 5 bits in blocks of 2 | `NumbersAgree`: every operation gives the value modulo 2^N and leaves unused bits zero |
| `uint128` | halves of 4 bits, all pairs from 0, 1, 7, 8, 13, 15 in either half | `NumbersAgree`, the same modulo 2^8 |
| `optional` | 3 optionals, 2 values | `OwnersAgree`: one lifetime if and only if the flag is set; the comparisons are one order |
| `string` | 5 texts over 3 characters, NUL among them; needles of up to 3 | `TextAgrees`: views, searches, comparisons, output, splits, hashes and predicates agree with their definitions on the string |
| `message` | bytes in base 3, sizes of 2 bytes, `size_t` up to 7, up to 2 items | `PiecesAgree`: items come back, failed reads go back |
| `packed` | 5 lists of fields, 2 structs, up to 2 elements each | `PiecesAgree`: fields keep their values, fill the memory and do not leave it |
| `latch` | 3 threads, 2 countdowns | `WaitersReleased`: nobody sleeps on, nobody leaves early |
| `thread` | 2 functions and the empty one | `WaitersReleased`: the function runs once if started, never if stopped first |
| `tree` | 2 threads, 2 parents, 3 children | `OwnersAgree`: both ends agree, nobody is destroyed twice |
| `set` | 3 items with 2 keys, up to 2 users' pointers each | `OwnersAgree`: linked items live, others go with their last pointer |

Why these bounds. Each run has the actors of every conflicting pair and a third that
can come between them where that makes a difference: a third thread at the
lock makes windows of tickets that are empty, partial and wrapped; a third
participant has to wait for room; a third producer appends behind a cut list; a
third control block belongs to a handle that is older than the one it overtakes. A
ring of three places and requests of four make transfers that end at the end of
the array, go beyond it, fill the array, and find too little room. Four holders of
three identifiers exhaust them. The pipe of the event loop gets up to eight bytes and is
emptied two at a time, so that a flush takes one read, several, or finds nothing left. In `utilities`, three keys overflow a cache of
two and leave one in the weak list; four bits in blocks of two pass through
empty, partial and full last blocks; numbers of five bits have three blocks
with the last partly used, and of four bits with the last one full; the lists of fields
have dynamic fields first, last, beside each other, and absent. Nodes, wrappers, identifiers, objects and blocks are
used again without limit, and there is no bound on the number of calls except
where objects are numbered (`Future`), the strand's and the pool's jobs are
different from each other while listed, and time ends (`MaxTime`).

`circbuffer` uses symmetry of `Values`; it has no liveness property. No other run
uses symmetry.

Fairness. A thread inside a function of the library is scheduled (weak fairness of
its steps, unless the step waits for a condition), user functions of jobs, callbacks,
handlers and continuations return, and time passes. Users never have to call
anything: nobody has to fulfil a promise, add a job or drop a handle; the one
exception is the consumer of `mpsc`, which must keep calling `pop` for `Delivered`.
Mutexes: for `m_headMutex` only that *some* thread gets a free mutex; `resources` and
`StopLock` of `eventloop` use strong fairness, that is, a `std::mutex` lets in a
thread that finds it free again and again. `JoinReturns` of `partpool`
assumes that callers stop coming back, since overlapping participants may keep the
count above zero for ever; `JoinReturns` of `strand` holds until the pool is
stopped, since a slice left in a stopped pool is never run or parked. The
`strand` run lets some worker take tasks, which `JobsServed` of `simplepool`
justifies.

Every property was also seen to fail: for each there is a "Bug:" operator in the
modules that breaks it (listed in `PROJECT.json`). A property of `utilities` that
joins several parts has one such operator, in one of them.

## 4. Proofs

All for every value of the constants that satisfies the named assumptions.

| Module | Theorems | Assumptions | Inductive invariant |
|---|---|---|---|
| `LockFreeProofs`: `TicketSpinLock` | `WindowIsInvariant`, `MutualExclusionHolds`, `AdmitsInOrder` | finitely many threads, at most as many as tickets | `TicketWindow`: the outstanding tickets are pairwise different and are the k successors of `m_active`, if k threads have one. Mutual exclusion alone is not inductive: nothing would keep a new ticket from being one that is still out after the wrap-around. The place of a thread in the queue of `FifoLock` is the distance of its ticket from `m_active`, which makes the refinement (its safety part) a step-by-step argument about distances modulo the number of tickets |
| `LockFreeProofs`: `MpscQueue` | `HeldIsUnreachableHolds`, `FifoSpecHolds` | the null node is no node | the links, with those producers are about to store, form chains: `OneSuccessor`, `OnePredecessor`, `TailIsLast`, `FrontIsFirst` (nothing points to the first node, which is the one pop returns), `PopHoldsFront`, and `ClosingIsAlone` for the destructor. Without `OnePredecessor`, a second node could still lead to the one that was returned. For the refinement, `Chain`: the links, stored or about to be, lead from each node of `order` to the next |
| `ThreadPoolProofs`: `ThreadPool` | `NoLostWakeupHolds`, `TaskQueueHolds` | finitely many jobs and threads, more wrappers than both; `None` is neither job nor wrapper | types, mutual exclusion in `m_headMutex`, and `NoLostWakeup`: there is at most one sleeper, so the one notification of `submit()` leaves none. For the refinement, `ListInv`: the list leads through `order` (`Chained`), the two moves of a pop hold its front (`Popped`), a wrapper is in the list or with one worker, and a job in one wrapper (`Owned`, `Busy`). That a free wrapper exists whenever a job is submitted follows by counting |
| `ThreadPoolProofs`: `SimpleThreadPool` | `GoneIsQuietHolds`, `SimplePoolHolds` | the owner is one of the callers | `QuietInv`: a thread that was not started is nowhere, and nothing but its start brings a thread into a worker function. Every step of the pool is a step of `ThreadPool` or leaves its variables alone, therefore what is proved of `ThreadPool` holds of the class that derives from it |
| `ThreadPoolProofs`: `ParticipatoryThreadPool` | `CounterInRange`, `JoinSawNobodyHolds`, `ParticipatoryPoolHolds` | the counter can count one thread, threads are finitely many | `CountInv`: the counter is the number of threads inside, and who is not inside is in no worker function |
| `InOrderProofs`: `Strand` | `SliceIsUnique`, `NoParallelJobsHolds`, `SliceHasWorkHolds`, `JoinedIsQuietHolds`, `SerialQueueHolds` | the slice is no other user's task | `AtMostOneSlice`: the slice is parked, or once in the queue, or held by one worker, and never two of these. "At most one job" needs it, because the next worker gets its slice from the queue. `SliceInv` adds that a live strand whose slice is queued or about to take a job has one: the uniqueness makes the one consumer the only one who can empty the list. `JoinInv` says that who waits has detached the pool, so that a parked slice stays parked. The refinement maps the holder of the slice to the single worker of a `TaskQueue` |
| `HandoverProofs`: `CircBuffer` | `OffsetsAgreeHolds`, `NoRaceHolds`, `NobodySleepsOverRoomHolds`, `FifoSpecHolds` | `0 < N < SizeMax` | types, `WithinRoom` (what a side is working on fits in what the counter grants it, although the counter is changed by the other side meanwhile) and `OffsetsAgree`. `NoRace` follows: the two regions are consecutive parts of one turn around the ring. The refinement of `BoundedFifo` adds `TakenIsOldest`: what the consumer has copied is the oldest part of the contents; the producer's places lie behind it, so its copying changes nothing that was published |
| `HandoverProofs`: `Future` | `ContinuationInOnePlaceHolds` | states are positive numbers | types, `ContinuationInOnePlace`, `StoredOnce` (the future of a state that has a continuation has been moved into it) and `Born` (promise and future are made together). Without `StoredOnce`, `then()` could find the place taken; without `Born`, a continuation could be a state that is created again |
| `TimeoutsProofs` | `NeverOversleepsHolds`, `QueueSpecHolds` | the stop task is no other task; there is a time | the list of the code is sorted (`Sorted`), lists each waiting task once (`Listed`), holds the same tasks as `arrivals` (`Arrived`), those of one time in the order of their arrival (`InOrder`), and a sleep ends no later than the first time (`SleepsToFirst`). The lemmas say what insertion at the upper bound and removal of an element do to a sorted sequence. The refinement maps the waiting tasks of `DueQueue` to `arrivals`, so the head of the sorted list must be the oldest of the earliest, which is what `InOrder` gives |
| `LifetimeProofs`: `EventLoop` | `HandlersAliveHolds` | the loop, the waiting threads, the descriptors and the null pointer are different | `WaitIsLongEnough`: who removed a descriptor that is in the loop's hands has not seen the counter change since, and has not found the mutex free; if he found the pipe closed, the handler is in `unawaited`; `BusyWhileDispatching`: the counter changes when the loop has nothing in its hands; `WatchedIsKept` and `TargetIsKept`: a removed descriptor does not come back, and nobody but who removed it destroys its handler |
| `LifetimeProofs`: `SharedResourceMap` | `InUseIsInMapHolds`, `LeaksExplainedHolds` | the null pointer is none of the others | about the heap in which keys, objects and control blocks refer to each other: `Linked` (no pointer leads to what has been freed), `DropsOnce` (a deleter runs once, when its last handle has gone), `NoGarbage` (what nothing refers to has been freed), `UsedIsListed`, which is `InUseIsInMap`, `CycleBroken` (an object leaves the map without the cycle of it and its deleter, unless an older deleter erased it), and `DropsWhenAt` (who runs a deleter). `NoGarbage` and `CycleBroken` give `LeaksExplained` |
| `UtilitiesProofs` | `IdsHeldHolds`, `WaitersReleasedHolds`, `OwnersAgreeHolds`, `ContainersAgreeHolds` | those of the next table | one invariant for each part |
| `InOrderProofs`: `NetworkMessage`, `DynamicPackedStruct` | `PiecesAgreeHolds` | there are digits; sizes fit in the bytes that a message has for them, words and strings are bytes; no field has a type of size 0 | `MsgInv`: the bytes of a message are those of its items, one after the other, and a reader that has read the first items stands behind the last of them (`InStep`) unless it once left the order; that what is put together item by item is the same taken apart at any item is a lemma on sums of lengths. `PackInv`: the data of a structure have exactly the bytes of its fields, each element that was set fills its place with its value (`Holds`), and `m_sizes` are the ends of the dynamic fields (`Ends`). The lemmas say that the places of two elements do not meet (`PlacesApart`), and that the sum from the last dynamic field before a place, which the code computes, is the sum from the beginning (`TailIs`) |
| `StringViewProofs` | `TextAgreesHolds` | characters are numbers, NUL being 0; every text is shorter than `npos` | `StrInv`: the view lies in the text and its string is that part of it. That a part of a part is a part makes it inductive. Each agreement of `TextAgrees` is a lemma about one state: least and greatest elements of sets of places, places in the text against places in the string, and prefixes of strings put one after the other. The two splits are recursions from place to place; what they give from a place on is shown from the end of the text backwards (`SplitFromEnd`) |

The parts of `UtilitiesProofs`:

| Part | Assumptions | Invariant |
|---|---|---|
| `ids` | at least one identifier | `IdsInv`, both conjuncts of `IdsHeld` together: a fresh identifier is new because all held ones are reserved; releasing one leaves exactly the others reserved because they are different |
| `latch`, `thread` | the count is a natural number | `WaitInv`, `LateInv`: who is asleep is waiting for what has not happened; the promise of a thread is resolved once, by what was chosen first |
| `set` | none | `SetInv`: what users have a pointer to is alive, what is alive has a pointer, and what has one to itself is in the set or was refused |
| `optional` | values are natural numbers, which the model's marks are not | `OptInv`: the number of lifetimes of each value is 1 if the flag is set and 0 if not, through every constructor, assignment and swap |
| `tree` | no parent is a child | `TreeInv`: about call stacks of any depth. A destructor that has begun is on one stack only; a parent's mutex is held by the thread whose stack says so; and what a parent's destructor has still to free is what its children say (`Locked`, `TodoIsLeft`, `Confined`, `Ends`) |
| `lru` | the limit is positive | `LruInv`: each iterator in the map leads to its element, in the list that the element's kind says, and the strong elements are those of the keys used last in that order (`Ordered`, `Iterators`, `Recent`, `Finds`) |
| `map` | the predicate is an equivalence that the hasher respects, which the standard asks of them | `MapInv`: the elements of a map stand for its contents one to one (`StandsFor`), so that a lookup finds the one that it should, and a comparison of elements is one of contents |
| `bits` | blocks have at least one bit, and the integer behind a block at least one | `BitsInv`: every bit below the size is at its place in the blocks (`HoldsBits`), nothing is said of those behind it. The lemmas are about quotients and remainders by the block's size and about blocks read as functions |

Each inductive invariant also holds in TLC's instance of its module.

Recursive functions (sums over fields, the digits of a size, sequences put together,
splits) are reasoned about without an induction theorem for formulas: a set of numbers
that is not empty has a least member (`Least`, from the well-foundedness of `<`),
hence a set that contains 0 and successors contains all (`Induction`). That there is
a function with the defining equations, which TLA+ leaves to be shown, is lemma
`Recursion`, and `JumpRecursion` for those that go on at a later place.

What stays model-checked:

* Liveness (`NoStarvation`, `JobsServed`, `JoinReturns`, `Delivered` and so on), and of
  `ImplementsFifoLock` the fairness: liveness is beyond the prover. Its safety is
  `AdmitsInOrder`.
* `StopTakesEffect` of `simplepool`, which is a leads-to property as well.
* `NumbersAgree`: the arithmetic of big integers uses bitwise operators, whose
  definition is recursive, and the provers have no such operator.
* The violation of run `identifiers_exhausted`.

## 5. What is not modelled

* Memory orders weaker than sequential consistency, exhaustion of memory, failing
  system calls other than `epoll_wait`.
* `EventLoop` outside Linux. `CircBufferNoLocking` (the same code without the mutex,
  for one thread).
* Several threads that wait on one `Future` object at once (`MaxWaiters`).
* Overlapping calls of `TimeoutsThread::stop()`.
* `SingleThreadEventLoop`'s destructor, which joins.
* `UnorderedMap`: buckets and allocators, which it hands to the standard container.
* `uint_t`, `uint128_t`: formatting by streams beyond the digits.
* `BasicStringView`: iterators. `Optional`: construction from lists, and which
  overloads take part. Packed structures: accessors over foreign memory.
* Messages written into messages, and the buffers of `Datum`, `InputMemoryStream` and `Uuid`.
* Wrappers of one resource without behaviour of their own, among the ownership helpers.
* Flags (each operation is one atomic instruction or one expression), exceptions and
  diagnostics, numbers and ranges, and template metaprogramming: types, text and
  single expressions, where a model would repeat the line.

## 6. Observations about the code

One divergence is checked by a run. `IdentifierPool` documents a
`ReserveException` for exhaustion and throws it in `reserve()`, but the constructor of
the holder that calls it is `noexcept`: the program ends in `std::terminate`
(`identifiers_exhausted`).

Others came up while modelling. Where a model has them as outcomes, a name in
parentheses is what its properties except, and therefore do not catch; the rest is
excluded by preconditions or lies outside the models:

* `IdentifierPool`: a holder assigned to itself recycles its identifier and goes
  on using it (line 120).
* `SharedResourceMap::forEach` passes handles to a function with `m_mutex` locked; if
  the function drops the last one, its deleter locks the mutex again in the same
  thread (`SelfDeadlock`, which `MapEmpties` excepts and therefore cannot catch). A resource leaks when its handle outlives the map, and
  when the deleter of an older handle, overtaken by a revival, removes the entry of
  the newer one (`LeaksExplained` shows that there are no other ways).
* `TimeoutsThread::stop()` tests and moves `m_stopTask` without the mutex (line 260).
* `EventLoop`: after `stopAsync()` the wait for the end of an iteration returns at
  once (`EBADF`, line 387) while handlers of the last one may still be called (`unawaited`);
  a failed `try_lock()` may be due to another waiting thread or to a loop past its
  last increment, and then the wait lasts until `run()` is called again; a pipe
  that holds a multiple of `DISCARD_SIZE` bytes leads to `rd == -1`, which the
  assertion of line 331 compares as an unsigned number, and without assertions to a
  loop on `EAGAIN` (`Starved`): who waits for that iteration waits for the next
  byte, while `stop()` still returns.
* `OutgoingNetworkMessage::write(T &&)` (line 412) is a better match than the overloads
  for a `std::string const &`, a message or a `char const *` when the argument is not
  const: the bytes of the object are written in place of its contents (`WriteObject`,
  whose items no read gives back).
* `MpscWaitFreeSemiIntrusiveQueue` links nodes with `memory_order_relaxed`: in the C++
  memory model the consumer's access to `data` races with the producer's.
* `Promise`'s defaulted move assignment drops a state without breaking it; its consumers
  wait for ever.
* `BitVector::append()` at a size that is no multiple of a block (line 296) ORs into
  excess bits that are not defined, allocates one block too many, and reads the first block
  of an empty argument, which has none (`unaligned`).
* `Optional`'s copying and moving constructors set `m_containsValue` before they
  construct the value (line 176): if that throws, the base class destroys a
  value that never was (`broken`).
* A copy of an `UnorderedMap` shares its elements with the original (line 371;
  `copied`).
* `ObjectTree`: a child whose destructor destroys another child of the parent that is
  destroying it locks that parent's mutex again in the same thread (`siblings`). A child
  destroyed by one thread while another destroys its parent reads `m_parent` without a
  lock: the model asks of its users not to do so.
* Code that does not compile when it is used: `UnorderedMap`'s assignment from a
  list, the assignment operators of `DynamicPackedStruct`, which return nothing, and
  `PackagedTask::reset()`.
* `rfind(CharT const *, pos)` has 0 as the default position, so that it looks at the
  beginning only; output of a view to a stream with a negative width writes
  nothing.
* `Strand::stopAndJoin()` waits for ever if the pool is stopped while it holds the slice.

## 7. Plan

The concurrent components were modelled first, then the utilities. What is left:

1. **Proofs**: every safety invariant and every refinement that a run checks has a
   theorem now, except `NumbersAgree`.
2. **Composition**: `Strand` directly on `SimpleThreadPool`, to drop the
   assumption that some worker takes tasks, and a `Strand` whose jobs resolve
   futures.
3. **Algorithms** that are left: `IntegralComparisons.h`, the buffers of `Datum` and
   `InputMemoryStream`.
