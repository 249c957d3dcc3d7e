--------------------------- MODULE NoStartThread ---------------------------
(* NoStartThread.h: a thread that runs its function once start() is called,  *)
(* and not if it is stopped before.  It and its owner share a promise, whose *)
(* value tells the thread which of the two has happened.                     *)
EXTENDS Sequences

CONSTANT Functions, NoFunction   \* the empty std::function

VARIABLES m_func,      \* the function that is to be run
          promise,     \* m_startPromise.isValid()
          state,       \* the shared state: "unset", "start" (true), "stop" (false)
          thread,      \* where run_() is
          owner,       \* what its owner does
          joinable,
          ran,         \* history: the functions that have been run, with repetition
          chosen       \* history: the function set when start() was called

vars == <<m_func, promise, state, thread, owner, joinable, ran, chosen>>

\* Both constructors
Init == /\ m_func \in Functions \cup {NoFunction}
        /\ promise = TRUE /\ state = "unset" /\ thread = "take" /\ owner = "free"
        /\ joinable = TRUE /\ ran = <<>> /\ chosen = "none"

\* setFunction(); after a start() it would race with the thread.
SetFunction(f) == /\ owner = "free" /\ promise
                  /\ m_func' = f
                  /\ UNCHANGED <<promise, state, thread, owner, joinable, ran, chosen>>

\* setValue(): the promise gives up the state.
Resolve(v) == promise' = FALSE /\ state' = v

\* start(), which asserts that the promise is valid
Start == /\ owner = "free" /\ promise
         /\ Resolve("start") /\ chosen' = m_func
         /\ UNCHANGED <<m_func, thread, owner, joinable, ran>>

\* stop() and the destructor: "next" tells them apart.
Stop(next) == /\ owner = "free"
              /\ IF promise THEN Resolve("stop") ELSE UNCHANGED <<promise, state>>
              /\ owner' = next
              /\ UNCHANGED <<m_func, thread, joinable, ran, chosen>>

\* join(): of a thread that is not joinable it throws.  A thread that was neither
\* started nor stopped would keep its owner for ever.
Join == /\ owner = "free" /\ joinable /\ ~promise
        /\ owner' = "joins"
        /\ UNCHANGED <<m_func, promise, state, thread, joinable, ran, chosen>>

\* std::thread::join() returns, or was not called.
Joined == /\ owner \in {"joins", "stops", "destroys"}
          /\ joinable => thread = "ended"
          /\ joinable' = FALSE
          /\ owner' = IF owner = "destroys" THEN "gone" ELSE "free"
          /\ UNCHANGED <<m_func, promise, state, thread, ran, chosen>>

\* run_(): takeFuture() reads a member of the promise that no setter touches.
Take == /\ thread = "take" /\ thread' = "wait"
        /\ UNCHANGED <<m_func, promise, state, owner, joinable, ran, chosen>>
GetValue == /\ thread = "wait" /\ state # "unset"
            /\ thread' = IF state = "start" THEN "call" ELSE "ended"
            /\ UNCHANGED <<m_func, promise, state, owner, joinable, ran, chosen>>
Call == /\ thread = "call" /\ thread' = "ended"
        /\ ran' = IF m_func = NoFunction THEN ran ELSE Append(ran, m_func)
        /\ UNCHANGED <<m_func, promise, state, owner, joinable, chosen>>

Next == \/ \E f \in Functions \cup {NoFunction} : SetFunction(f)
        \/ \E next \in {"stops", "destroys"} : Stop(next)
        \/ Start \/ Join \/ Joined \/ Take \/ GetValue \/ Call

Spec == Init /\ [][Next]_vars

-----------------------------------------------------------------------------
\* The function that was set when the thread was started is run once, and none if
\* it was stopped first; the object goes, and stop() returns, after the thread has
\* ended, and whoever joins it does so when the thread is sure to end.
RunsWhenStarted ==
    /\ ran = IF state = "start" /\ thread = "ended" /\ chosen # NoFunction THEN <<chosen>> ELSE <<>>
    /\ ~joinable => thread = "ended"
    /\ owner = "gone" => thread = "ended"
    /\ owner \in {"joins", "stops", "destroys"} => state # "unset"
=============================================================================
