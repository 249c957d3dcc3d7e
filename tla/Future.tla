------------------------------- MODULE Future -------------------------------
(* src/src/Future.h: promises, futures and continuations over shared states. *)
(* Whoever resolves a state does it under the state's mutex, takes the       *)
(* continuation stored there and runs it after unlocking; then() stores the  *)
(* continuation, or runs it when the state is resolved already.  Running a   *)
(* continuation calls a user function and resolves the state of the          *)
(* continuation's own promise, which may carry the next continuation.        *)
EXTENDS Integers, FiniteSets

CONSTANTS Threads,
          States,      \* SharedState objects, numbered in order of creation
          MaxWaiters   \* threads that may wait on one Future object at a time

ASSUME StatesAssumption == States \subseteq Nat \ {0}

None == 0
Results == {"value", "exception", "broken"}
Ways == {"wait", "timed", "take"}   \* wait, waitFor/waitUntil, takeValue

VARIABLES result,   \* isSet and what was set
          cont,     \* m_continuation: the state its promise refers to, or None
          promise,  \* who owns the promise that refers to the state
          future,   \* who owns the future that refers to it
          carry,    \* the continuation a thread has taken and must run
          awaits,   \* the state a thread waits for
          way,      \* in which function
          asleep    \* it is blocked on the state's cond

threads == <<carry, awaits, way, asleep>>
futureVars == <<result, cont, promise, future, threads>>

FutureInit == /\ result = [s \in States |-> "unset"]
              /\ cont = [s \in States |-> None]
              /\ promise = [s \in States |-> "unborn"]
              /\ future = [s \in States |-> "unborn"]
              /\ carry = [t \in Threads |-> None]
              /\ awaits = [t \in Threads |-> None]
              /\ way = [t \in Threads |-> "none"]
              /\ asleep = [t \in Threads |-> FALSE]

Idle(t) == carry[t] = None /\ awaits[t] = None
Unborn == {s \in States : promise[s] = "unborn"}
IsNext(s) == s \in Unborn /\ \A u \in Unborn : s <= u
Waiters(s) == {t \in Threads : awaits[t] = s}

-----------------------------------------------------------------------------
(* SharedState                                                               *)

\* cond.notify_one()
NotifyWaiter(s, a) ==
    LET sleepers == {t \in Waiters(s) : asleep[t]}
    IN  IF sleepers = {} THEN asleep' = a
        ELSE \E t \in sleepers : asleep' = [a EXCEPT ![t] = FALSE]

\* Bug: the continuation is not taken out of the state.
ResolveForgets(t, s, r) ==
    /\ result' = [result EXCEPT ![s] = r]
    /\ promise' = [promise EXCEPT ![s] = "gone"]
    /\ carry' = [carry EXCEPT ![t] = None]
    /\ NotifyWaiter(s, asleep)
    /\ UNCHANGED cont

\* setException(), emplaceValue(), setReady() in thread t, under the mutex.
Resolve(t, s, r) ==
    /\ result' = [result EXCEPT ![s] = r]
    /\ promise' = [promise EXCEPT ![s] = "gone"]
    /\ carry' = [carry EXCEPT ![t] = cont[s]]
    /\ cont' = [cont EXCEPT ![s] = None]
    /\ NotifyWaiter(s, asleep)

-----------------------------------------------------------------------------
(* Promise and Future                                                        *)

\* Promise(); takeFuture()
Create(s) == /\ IsNext(s)
             /\ promise' = [promise EXCEPT ![s] = "client"]
             /\ future' = [future EXCEPT ![s] = "client"]
             /\ UNCHANGED <<result, cont, threads>>

\* makeReadyFuture(), makeExceptionalFuture(), makeBrokenFuture(): nobody else sees
\* the promise.
Make(s, r) == /\ IsNext(s)
              /\ result' = [result EXCEPT ![s] = r]
              /\ promise' = [promise EXCEPT ![s] = "gone"]
              /\ future' = [future EXCEPT ![s] = "client"]
              /\ UNCHANGED <<cont, threads>>

\* setValue(), setException(); abandon() and ~Promise() break the promise.
Fulfil(t, s, r) == /\ Idle(t)
                   /\ promise[s] = "client"
                   /\ Resolve(t, s, r)
                   /\ UNCHANGED <<future, awaits, way>>

\* A PackagedTask owns a promise; its call resolves it with what the function does.
CallTask(t, s) == \E r \in {"value", "exception"} : Fulfil(t, s, r)

\* operator=(Promise &&) is defaulted: the state the target referred to loses
\* its promise and is never resolved.
Overwrite(s) == /\ promise[s] = "client"
                /\ promise' = [promise EXCEPT ![s] = "overwritten"]
                /\ UNCHANGED <<result, cont, future, threads>>

\* Bug: the continuation is stored whether or not the state is resolved.
ThenStores(t, s, n) ==
    /\ Idle(t)
    /\ future[s] = "client" /\ Waiters(s) = {}
    /\ IsNext(n)
    /\ future' = [future EXCEPT ![s] = "moved", ![n] = "client"]
    /\ promise' = [promise EXCEPT ![n] = "task"]
    /\ cont' = [cont EXCEPT ![s] = n]
    /\ UNCHANGED <<result, threads>>

\* then(): the future moves into the continuation, whose promise refers to a
\* new state n.
Then(t, s, n) ==
    /\ Idle(t)
    /\ future[s] = "client" /\ Waiters(s) = {}
    /\ IsNext(n)
    /\ future' = [future EXCEPT ![s] = "moved", ![n] = "client"]
    /\ promise' = [promise EXCEPT ![n] = "task"]
    /\ IF result[s] = "unset"
       THEN cont' = [cont EXCEPT ![s] = n] /\ UNCHANGED carry
       ELSE carry' = [carry EXCEPT ![t] = n] /\ UNCHANGED cont
    /\ UNCHANGED <<result, awaits, way, asleep>>

\* wait(), waitFor(), waitUntil(), takeValue(): the test comes with Test.
Await(t, s, w) ==
    /\ Idle(t)
    /\ future[s] = "client"
    /\ Cardinality(Waiters(s)) < MaxWaiters
    /\ w = "take" => Waiters(s) = {}
    /\ future' = [future EXCEPT ![s] = IF w = "take" THEN "moved" ELSE "client"]
    /\ awaits' = [awaits EXCEPT ![t] = s]
    /\ way' = [way EXCEPT ![t] = w]
    /\ UNCHANGED <<result, cont, promise, carry, asleep>>

\* One evaluation of the predicate: asleep again, or the call returns.
TestUnset(t) == /\ awaits[t] # None /\ ~asleep[t]
                /\ result[awaits[t]] = "unset"
                /\ asleep' = [asleep EXCEPT ![t] = TRUE]
                /\ UNCHANGED <<result, cont, promise, future, carry, awaits, way>>

Leave(t) == /\ awaits' = [awaits EXCEPT ![t] = None]
            /\ way' = [way EXCEPT ![t] = "none"]

TestSet(t) == /\ awaits[t] # None /\ ~asleep[t] /\ carry[t] = None
              /\ result[awaits[t]] # "unset"
              /\ Leave(t)
              /\ UNCHANGED <<result, cont, promise, future, carry, asleep>>

\* The deadline passes and the state is still not resolved.
WaitTimesOut(t) == /\ way[t] = "timed" /\ asleep[t]
                   /\ result[awaits[t]] = "unset"
                   /\ Leave(t)
                   /\ asleep' = [asleep EXCEPT ![t] = FALSE]
                   /\ UNCHANGED <<result, cont, promise, future, carry>>

WaiterWakesSpuriously(t) == /\ asleep[t]
                            /\ asleep' = [asleep EXCEPT ![t] = FALSE]
                            /\ UNCHANGED <<result, cont, promise, future, carry, awaits, way>>

-----------------------------------------------------------------------------
(* Continuation::run()                                                       *)

\* The function returns a value, throws, or returns an invalid future.
RunReturns(t, r) == /\ carry[t] # None /\ awaits[t] = None
                    /\ Resolve(t, carry[t], r)
                    /\ UNCHANGED <<future, awaits, way>>

\* The function returns a future: the thread blocks in f2.takeValue().
RunFuture(t, x) == /\ carry[t] # None /\ awaits[t] = None
                   /\ future[x] = "client" /\ Waiters(x) = {}
                   /\ future' = [future EXCEPT ![x] = "moved"]
                   /\ awaits' = [awaits EXCEPT ![t] = x]
                   /\ way' = [way EXCEPT ![t] = "take"]
                   /\ UNCHANGED <<result, cont, promise, carry, asleep>>

\* ... and passes on what that future was resolved with.
RunInner(t) == /\ carry[t] # None /\ awaits[t] # None /\ ~asleep[t]
               /\ result[awaits[t]] # "unset"
               /\ Resolve(t, carry[t], result[awaits[t]])
               /\ Leave(t)
               /\ UNCHANGED future

Inside(t) == TestUnset(t) \/ TestSet(t) \/ RunInner(t)
Run(t) == \E r \in Results : RunReturns(t, r)

FutureNext == \/ \E s \in States : Create(s) \/ Overwrite(s)
              \/ \E s \in States, r \in Results : Make(s, r)
              \/ \E t \in Threads, s \in States :
                    \/ \E r \in Results : Fulfil(t, s, r)
                    \/ CallTask(t, s)
                    \/ \E n \in States : Then(t, s, n)
                    \/ \E w \in Ways : Await(t, s, w)
                    \/ RunFuture(t, s)
              \/ \E t \in Threads : Inside(t) \/ Run(t) \/ WaitTimesOut(t) \/ WaiterWakesSpuriously(t)

\* A thread inside a function of the library is scheduled; user functions of
\* continuations return.  Nobody has to fulfil a promise.
Fairness == \A t \in Threads : /\ WF_futureVars(Inside(t))
                               /\ WF_futureVars(Run(t) \/ \E x \in States : RunFuture(t, x))

FutureSpec == FutureInit /\ [][FutureNext]_futureVars /\ Fairness

-----------------------------------------------------------------------------
\* The fields of shared states, promises, futures and threads have their types.
FutureTypeOK == /\ result \in [States -> Results \cup {"unset"}]
                /\ cont \in [States -> States \cup {None}]
                /\ promise \in [States -> {"unborn", "client", "task", "gone", "overwritten"}]
                /\ future \in [States -> {"unborn", "client", "moved"}]
                /\ carry \in [Threads -> States \cup {None}]
                /\ awaits \in [Threads -> States \cup {None}]
                /\ way \in [Threads -> Ways \cup {"none"}]
                /\ asleep \in [Threads -> BOOLEAN]
                /\ \A t \in Threads : way[t] = "none" <=> awaits[t] = None

\* The race of then() with the resolution is never lost: no continuation stays
\* behind in a resolved state, and each is in one place until it has run.
ContinuationInOnePlace ==
    /\ \A s \in States : cont[s] # None => result[s] = "unset"
    /\ \A n \in States : promise[n] = "task"
          <=> (\E s \in States : cont[s] = n) \/ (\E t \in Threads : carry[t] = n)
    /\ \A s, u \in States : cont[s] # None /\ cont[s] = cont[u] => s = u
    /\ \A t, u \in Threads : carry[t] # None /\ carry[t] = carry[u] => t = u
    /\ \A s \in States, t \in Threads : cont[s] # None => cont[s] # carry[t]

\* A waiter (at most one on each future) leaves once the state is resolved.
WaiterWakes == \A t \in Threads, s \in States :
    awaits[t] = s /\ result[s] # "unset" ~> awaits[t] # s

\* A continuation whose antecedent is resolved, before or after then(), gets
\* its promise resolved, unless its function waits for a future nobody resolves.
Due(n) == promise[n] = "task" /\ \A s \in States : cont[s] = n => result[s] # "unset"
Blocked(n) == \E t \in Threads : carry[t] = n /\ awaits[t] # None /\ result[awaits[t]] = "unset"
ContinuationRuns == \A n \in States : Due(n) ~> result[n] # "unset" \/ Blocked(n)

\* Whoever depends on a resolved state goes on, waiting or as a continuation.
ResolutionReaches == WaiterWakes /\ ContinuationRuns
=============================================================================
