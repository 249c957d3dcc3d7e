----------------------------- MODULE EventLoop ------------------------------
(* src/src/EventLoop.h: a loop over epoll_wait() that calls handlers, and a  *)
(* pipe through which it is woken. A user who removes a descriptor and wants *)
(* to destroy its handler has to know that the loop is not about to call it: *)
(* he waits for the end of the iteration (spinUntilLoopIterationEnd). The    *)
(* same pipe, closed at the writing end, stops the loop.                     *)
(*                                                                           *)
(* A descriptor stands for its handler and may be ready whenever it is       *)
(* enabled. m_loopCounter is modelled by the set of spinners that would find *)
(* it changed, which is exact unless it wraps around between two of their    *)
(* looks. epoll_wait() reports the pipe whenever there is something in it.   *)
EXTENDS Naturals, FiniteSets

CONSTANTS Fds,          \* descriptors with their handlers
          Spinners,     \* threads that remove descriptors and wait
          Nobody,
          DISCARD_SIZE  \* bytes read from the pipe at once

ASSUME DiscardAssumption == DISCARD_SIZE \in Nat \ {0}
ASSUME NamesAssumption == /\ Nobody \notin Fds \cup Spinners \cup {"loop"}
                          /\ "loop" \notin Spinners

VARIABLES interest,   \* epoll's interest list; EPOLLONESHOT disables
          alive,      \* the handlers that exist
          unawaited,  \* history: handlers whose destruction a closed pipe did not delay
          pipe,       \* bytes in m_closePipe
          writeEnd,   \* its writing end is open
          m_stopMutex,
          pc,         \* the loop
          failed,     \* an exception has left run()
          batch,      \* the events yet to be handled in this iteration
          signal,     \* what the iteration heard from the pipe
          handling,   \* the handler being called
          spin,       \* the spinners
          target,     \* the descriptor each of them has removed
          changed,    \* the spinners for which m_loopCounter differs from start
          stopper     \* a call of stop()

events == <<interest, alive, unawaited>>
closePipe == <<pipe, writeEnd>>
loop == <<pc, failed, batch, signal, handling>>
spinners == <<spin, target, changed>>
loopVars == <<events, closePipe, m_stopMutex, loop, spinners, stopper>>

LoopInit == /\ interest = [f \in Fds |-> "absent"]
            /\ alive = Fds
            /\ unawaited = {}
            /\ pipe = 0
            /\ writeEnd = TRUE
            /\ m_stopMutex = Nobody
            /\ pc = "idle"
            /\ failed = FALSE
            /\ batch = {}
            /\ signal = "none"
            /\ handling = Nobody
            /\ spin = [s \in Spinners |-> "idle"]
            /\ target = [s \in Spinners |-> Nobody]
            /\ changed = {}
            /\ stopper = "idle"

-----------------------------------------------------------------------------
(* Descriptors. A user does not touch one that a spinner has removed. *)

Mine(f) == \A s \in Spinners : target[s] # f

\* A disabled descriptor has the null handler and no events.
States == {"enabled", "disabled"}

\* epoll_ctl(), retried when it was interrupted: add, which fails with EEXIST and
\* changes nothing, modify and delete, which fail with ENOENT
epollInsert(f, state) == interest[f] = "absent" /\ interest' = [interest EXCEPT ![f] = state]
epollCtl(f, state)    == interest[f] # "absent" /\ interest' = [interest EXCEPT ![f] = state]
epollRemove(f)        == interest[f] # "absent" /\ interest' = [interest EXCEPT ![f] = "absent"]
epollInsertOrModify(f, state) == epollInsert(f, state) \/ epollCtl(f, state)

Untouched == UNCHANGED <<alive, unawaited, closePipe, m_stopMutex, loop, spinners, stopper>>

\* insert() and insertDisabled(); modify() and disable(); and what does either
Insert(f) == /\ f \in alive /\ Mine(f)
             /\ \E state \in States : epollInsert(f, state)
             /\ Untouched
Modify(f) == (\E state \in States : epollCtl(f, state)) /\ Untouched
InsertOrModify(f) == /\ f \in alive /\ (interest[f] = "absent" => Mine(f))
                     /\ \E state \in States : epollInsertOrModify(f, state)
                     /\ Untouched

\* A new handler for a descriptor whose handler was destroyed
Create(f) == /\ f \notin alive
             /\ alive' = alive \cup {f}
             /\ unawaited' = unawaited \ {f}
             /\ UNCHANGED <<interest, closePipe, m_stopMutex, loop, spinners, stopper>>

\* remove() in thread s, which will destroy the handler
Remove(s, f) == /\ spin[s] = "idle" /\ target[s] = Nobody
                /\ epollRemove(f)
                /\ target' = [target EXCEPT ![s] = f]
                /\ spin' = [spin EXCEPT ![s] = "start"]
                /\ UNCHANGED <<alive, unawaited, closePipe, m_stopMutex, loop, changed, stopper>>

-----------------------------------------------------------------------------
(* spinUntilLoopIterationEnd(), yieldUntilLoopIterationEnd() *)

Goto(s, at) == /\ spin' = [spin EXCEPT ![s] = at]
               /\ UNCHANGED target

LoadStart(s) == /\ spin[s] = "start"
                /\ changed' = changed \ {s}
                /\ Goto(s, "try")
                /\ UNCHANGED <<events, closePipe, m_stopMutex, loop, stopper>>

\* m_stopMutex.try_lock(): nobody is in run() ...
TryLock(s) == /\ spin[s] = "try"
              /\ m_stopMutex = Nobody
              /\ m_stopMutex' = s
              /\ Goto(s, "unlock")
              /\ UNCHANGED <<events, closePipe, loop, changed, stopper>>

Unlock(s) == /\ spin[s] = "unlock"
             /\ m_stopMutex' = Nobody
             /\ Goto(s, "done")
             /\ UNCHANGED <<events, closePipe, loop, changed, stopper>>

\* ... or somebody has the mutex.
TryLockFails(s) == /\ spin[s] = "try"
                   /\ m_stopMutex # Nobody
                   /\ Goto(s, "check")
                   /\ UNCHANGED <<events, closePipe, m_stopMutex, loop, changed, stopper>>

Check(s) == /\ spin[s] = "check"
            /\ Goto(s, IF s \in changed THEN "done" ELSE "write")
            /\ UNCHANGED <<events, closePipe, m_stopMutex, loop, changed, stopper>>

\* One byte into the pipe, unless its writing end is closed: EBADF, and the
\* call returns without having waited, although the last iteration may still
\* be calling handlers. A pipe is never full here.
WriteByte(s) == /\ spin[s] = "write"
                /\ IF writeEnd
                   THEN pipe' = pipe + 1 /\ Goto(s, "spin") /\ UNCHANGED unawaited
                   ELSE /\ unawaited' = unawaited \cup {target[s]}
                        /\ Goto(s, "done") /\ UNCHANGED pipe
                /\ UNCHANGED <<interest, alive, writeEnd, m_stopMutex, loop, changed, stopper>>

SpinEnds(s) == /\ spin[s] = "spin"
               /\ s \in changed
               /\ Goto(s, "done")
               /\ UNCHANGED <<events, closePipe, m_stopMutex, loop, changed, stopper>>

\* The call has returned; the handler is destroyed.
Destroy(s) == /\ spin[s] = "done"
              /\ alive' = alive \ {target[s]}
              /\ spin' = [spin EXCEPT ![s] = "idle"]
              /\ target' = [target EXCEPT ![s] = Nobody]
              /\ UNCHANGED <<interest, unawaited, closePipe, m_stopMutex, loop, changed, stopper>>

Spinner(s) == \/ LoadStart(s) \/ TryLock(s) \/ Unlock(s) \/ TryLockFails(s)
              \/ Check(s) \/ WriteByte(s) \/ SpinEnds(s)

-----------------------------------------------------------------------------
(* run() *)

\* m_loopCounter.fetch_add(1u)
LoopIterationFinish == changed' = Spinners

\* run() is called again and again, but not after it has failed.
Run == /\ pc = "idle" /\ ~failed
       /\ m_stopMutex = Nobody
       /\ m_stopMutex' = "loop"
       /\ pc' = "wait"
       /\ UNCHANGED <<events, closePipe, batch, signal, handling, failed, spinners, stopper>>

\* epoll_wait() returns some of the enabled descriptors, or times out.
Poll == /\ pc = "wait"
        /\ \E ready \in SUBSET {f \in Fds : interest[f] = "enabled"} :
              /\ batch' = ready
              /\ interest' = [f \in Fds |-> IF f \in ready THEN "disabled" ELSE interest[f]]
        /\ signal' = IF ~writeEnd THEN "hup" ELSE IF pipe > 0 THEN "data" ELSE "none"
        /\ pc' = "dispatch"
        /\ UNCHANGED <<alive, unawaited, closePipe, m_stopMutex, handling, failed, spinners, stopper>>

\* epoll_wait() fails with something else than EINTR: an exception leaves run().
PollFails == /\ pc = "wait"
             /\ pc' = "leave"
             /\ failed' = TRUE
             /\ UNCHANGED <<events, closePipe, m_stopMutex, batch, signal, handling, spinners, stopper>>

\* Events are handled in any order, those behind the signal before it.
HandleEvent == /\ pc = "dispatch" /\ handling = Nobody
               /\ \E f \in batch : handling' = f /\ batch' = batch \ {f}
               /\ UNCHANGED <<events, closePipe, m_stopMutex, pc, failed, signal, spinners, stopper>>

\* Bug: the iteration is counted inside the loop over its events.
HandlerReturnsFinishes ==
                  /\ handling # Nobody
                  /\ handling' = Nobody
                  /\ LoopIterationFinish
                  /\ UNCHANGED <<events, closePipe, m_stopMutex, pc, failed, batch, signal, spin, target, stopper>>

HandlerReturns == /\ handling # Nobody
                  /\ handling' = Nobody
                  /\ UNCHANGED <<events, closePipe, m_stopMutex, pc, failed, batch, signal, spinners, stopper>>

\* The batch is done: go on according to the signal.
EndBatch == /\ pc = "dispatch" /\ handling = Nobody /\ batch = {}
            /\ pc' = CASE signal = "none" -> "finish"
                       [] signal = "data" -> "flush"
                       [] signal = "hup"  -> "leave"
            /\ UNCHANGED <<events, closePipe, m_stopMutex, batch, signal, handling, failed, spinners, stopper>>

\* read() until it returns less than it was asked for. From an empty pipe it
\* returns 0 if the writing end is closed. If not, it fails with EAGAIN: the
\* assertion before the test of rd fails, and where assertions are not
\* compiled, the loop reads until there is something to read (Starved).
Flush == /\ pc = "flush"
         /\ pipe > 0 \/ ~writeEnd
         /\ pipe' = IF pipe > DISCARD_SIZE THEN pipe - DISCARD_SIZE ELSE 0
         /\ pc' = IF pipe = 0 THEN "leave" ELSE IF pipe < DISCARD_SIZE THEN "finish" ELSE "flush"
         /\ UNCHANGED <<events, writeEnd, m_stopMutex, batch, signal, handling, failed, spinners, stopper>>

Finish == /\ pc = "finish"
          /\ LoopIterationFinish
          /\ pc' = "wait"
          /\ UNCHANGED <<events, closePipe, m_stopMutex, batch, signal, handling, failed, spin, target, stopper>>

\* Bug: no SHAREMIND_SCOPE_EXIT.
LeaveSilent ==
         /\ pc = "leave"
         /\ pc' = "unlock"
         /\ UNCHANGED <<events, closePipe, m_stopMutex, batch, signal, handling, failed, spinners, stopper>>

\* SHAREMIND_SCOPE_EXIT(loopIterationFinish())
Leave == /\ pc = "leave"
         /\ LoopIterationFinish
         /\ pc' = "unlock"
         /\ UNCHANGED <<events, closePipe, m_stopMutex, batch, signal, handling, failed, spin, target, stopper>>

ReturnFromRun == /\ pc = "unlock"
                 /\ m_stopMutex' = Nobody
                 /\ pc' = "idle"
                 /\ UNCHANGED <<events, closePipe, batch, signal, handling, failed, spinners, stopper>>

LoopStep == \/ Poll \/ HandleEvent \/ HandlerReturns \/ EndBatch \/ Flush \/ Finish
            \/ Leave \/ ReturnFromRun

-----------------------------------------------------------------------------
(* stopAsync() and stop() *)

StopAsync == /\ writeEnd
             /\ writeEnd' = FALSE
             /\ UNCHANGED <<events, pipe, m_stopMutex, loop, spinners, stopper>>

Stop == /\ stopper = "idle"
        /\ ~writeEnd
        /\ stopper' = "lock"
        /\ UNCHANGED <<events, closePipe, m_stopMutex, loop, spinners>>

StopLock == /\ stopper = "lock"
            /\ m_stopMutex = Nobody
            /\ stopper' = "stopped"
            /\ UNCHANGED <<events, closePipe, m_stopMutex, loop, spinners>>

LoopNext == \/ \E f \in Fds : Insert(f) \/ Modify(f) \/ InsertOrModify(f) \/ Create(f)
            \/ \E s \in Spinners : \/ \E f \in Fds : Remove(s, f)
                                   \/ Spinner(s) \/ Destroy(s)
            \/ Run \/ PollFails \/ LoopStep
            \/ StopAsync \/ Stop \/ StopLock

\* The loop and its handlers proceed, and so do the threads that spin.
LoopFairness == /\ WF_loopVars(LoopStep)
                /\ \A s \in Spinners : WF_loopVars(Spinner(s))
                /\ SF_loopVars(StopLock)

LoopSpec == LoopInit /\ [][LoopNext]_loopVars /\ LoopFairness

-----------------------------------------------------------------------------
\* The fields hold what their types allow. The pipe holds four bytes of each
\* spinner at most.
LoopTypeOK == /\ interest \in [Fds -> {"absent", "enabled", "disabled"}]
              /\ alive \subseteq Fds /\ unawaited \subseteq Fds
              /\ pipe \in 0 .. 4 * Cardinality(Spinners)
              /\ writeEnd \in BOOLEAN
              /\ m_stopMutex \in Spinners \cup {"loop", Nobody}
              /\ pc \in {"idle", "wait", "dispatch", "flush", "finish", "leave", "unlock"}
              /\ failed \in BOOLEAN
              /\ batch \subseteq Fds
              /\ signal \in {"none", "data", "hup"}
              /\ handling \in Fds \cup {Nobody}
              /\ spin \in [Spinners -> {"idle", "start", "try", "unlock", "check", "write", "spin", "done"}]
              /\ target \in [Spinners -> Fds \cup {Nobody}]
              /\ changed \subseteq Spinners
              /\ stopper \in {"idle", "lock", "stopped"}

\* No handler is called after it was destroyed, although its event may have
\* been in the hands of the loop when the descriptor was removed: the wait for
\* the end of the iteration is long enough. The one exception are handlers for
\* which there was no wait, because the pipe had been closed by stopAsync().
HandlersAlive == handling # Nobody => handling \in alive \cup unawaited

\* The flush has read all there was in reads of just DISCARD_SIZE bytes.
Starved == pc = "flush" /\ pipe = 0 /\ writeEnd

\* Nobody who waits for the end of an iteration of a running loop waits for
\* ever, also if the loop is stopped or fails meanwhile, unless the loop itself
\* starves for ever. stop() returns, from a loop that starves as well.
SpinReturns == \A s \in Spinners :
    spin[s] = "spin" /\ pc \notin {"idle", "unlock"} ~> (spin[s] # "spin" \/ []Starved)
StopReturns == stopper = "lock" ~> stopper = "stopped"
CallsReturn == SpinReturns /\ StopReturns
=============================================================================
