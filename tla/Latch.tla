------------------------------- MODULE Latch -------------------------------
(* Latch.h, SimpleWait.h, Stoppable.h: threads wait for a counter to be     *)
(* zero, or for a flag, and some of the latter look from time to time       *)
(* whether they were asked to stop.                                          *)
EXTENDS Naturals

CONSTANTS Threads, N    \* the initial value of the counter

VARIABLES m_counter, m_isReady, m_stopRequested,
          waits,        \* what each thread waits for, "none" if nothing
          asleep,       \* the threads blocked on a condition variable
          last,         \* history: the countdowns that were told to be the last
          left,         \* history: what ended each thread's last wait
          asked         \* history: a stop has been requested at some time

vars == <<m_counter, m_isReady, m_stopRequested, waits, asleep, last, left, asked>>

Init == /\ m_counter = N /\ m_isReady = FALSE /\ m_stopRequested = FALSE
        /\ waits = [t \in Threads |-> "none"] /\ asleep = {}
        /\ last = 0 /\ left = [t \in Threads |-> "none"] /\ asked = FALSE

Waiters(what) == {t \in Threads : waits[t] \in what}
Leaves(t, why) == /\ waits' = [waits EXCEPT ![t] = "none"]
                  /\ left' = [left EXCEPT ![t] = why]

Flag == {"ready", "readyOrStop"}
Holds(what) == IF what = "latch" THEN m_counter = 0 ELSE m_isReady

\* One evaluation of the predicate with the mutex locked, after which the call
\* returns or the thread sleeps.
Test(t, what) == IF Holds(what) THEN Leaves(t, what) /\ UNCHANGED asleep
                 ELSE /\ waits' = [waits EXCEPT ![t] = what]
                      /\ asleep' = asleep \cup {t} /\ UNCHANGED left

NotifyAll(what) == asleep' = asleep \ Waiters(what)

\* Bug: notify_one()
CountDownWakesOne ==
    /\ m_counter > 0
    /\ m_counter' = m_counter - 1
    /\ IF m_counter = 1
       THEN /\ \/ NotifyAll({"latch"})
               \/ \E t \in asleep \cap Waiters({"latch"}) : asleep' = asleep \ {t}
            /\ last' = last + 1
       ELSE UNCHANGED <<asleep, last>>
    /\ UNCHANGED <<m_isReady, m_stopRequested, waits, left, asked>>

\* countDown()
CountDown == /\ m_counter > 0
             /\ m_counter' = m_counter - 1
             /\ IF m_counter = 1 THEN NotifyAll({"latch"}) /\ last' = last + 1
                ELSE UNCHANGED <<asleep, last>>
             /\ UNCHANGED <<m_isReady, m_stopRequested, waits, left, asked>>

\* countDownAndWait()
CountDownAndWait(t) ==
    /\ waits[t] = "none" /\ m_counter > 0
    /\ m_counter' = m_counter - 1
    /\ IF m_counter = 1 THEN NotifyAll({"latch"}) /\ Leaves(t, "latch")
       ELSE /\ waits' = [waits EXCEPT ![t] = "latch"]
            /\ asleep' = asleep \cup {t} /\ UNCHANGED left
    /\ UNCHANGED <<m_isReady, m_stopRequested, last, asked>>

\* Latch::wait(), SimpleWait::wait(), waitOrStop()
Wait(t, what) == /\ waits[t] = "none" /\ Test(t, what)
                 /\ UNCHANGED <<m_counter, m_isReady, m_stopRequested, last, asked>>

\* notifyReady()
NotifyReady == /\ m_isReady' = TRUE /\ NotifyAll(Flag)
               /\ UNCHANGED <<m_counter, m_stopRequested, waits, last, left, asked>>

\* A notified thread has the mutex again.
Resume(t) == /\ waits[t] # "none" /\ t \notin asleep
             /\ Test(t, waits[t])
             /\ UNCHANGED <<m_counter, m_isReady, m_stopRequested, last, asked>>

SpuriousWakeup(t) == /\ t \in asleep /\ asleep' = asleep \ {t}
                     /\ UNCHANGED <<m_counter, m_isReady, m_stopRequested, waits, last, left, asked>>

\* wait_for() returns with a timeout, whether or not the thread was notified too:
\* stopTest() throws, or the loop goes on.
Timeout(t) == /\ waits[t] = "readyOrStop"
              /\ IF m_stopRequested THEN Leaves(t, "stopped") /\ asleep' = asleep \ {t}
                 ELSE Test(t, waits[t])
              /\ UNCHANGED <<m_counter, m_isReady, m_stopRequested, last, asked>>

\* Stoppable
Stop == /\ m_stopRequested' = TRUE /\ asked' = TRUE
        /\ UNCHANGED <<m_counter, m_isReady, waits, asleep, last, left>>
Reset == /\ m_stopRequested' = FALSE
         /\ UNCHANGED <<m_counter, m_isReady, waits, asleep, last, left, asked>>

Next == \/ CountDown \/ NotifyReady \/ Stop \/ Reset
        \/ \E t \in Threads : \/ CountDownAndWait(t) \/ Resume(t) \/ SpuriousWakeup(t) \/ Timeout(t)
                              \/ \E what \in Flag \cup {"latch"} : Wait(t, what)

Spec == Init /\ [][Next]_vars

-----------------------------------------------------------------------------
\* Nobody sleeps on when what it waits for has happened, nobody goes on before, an
\* exception ends only the waits that allow it, and exactly one countdown is told
\* that it was the last.
WaitersAreReleased ==
    /\ \A t \in asleep : ~Holds(waits[t])
    /\ \A t \in Threads : /\ left[t] \notin {"none", "stopped"} => Holds(left[t])
                          /\ left[t] = "stopped" => asked
    /\ m_counter > 0 => last = 0
    /\ last <= 1
=============================================================================
