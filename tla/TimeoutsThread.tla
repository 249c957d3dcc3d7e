--------------------------- MODULE TimeoutsThread ---------------------------
(* src/src/TimeoutsThread.h: one thread that runs tasks at given times. The  *)
(* tasks wait in an intrusive multiset ordered by m_timePoint and own        *)
(* themselves through m_selfPtr while they do; m_mutex guards the multiset   *)
(* and m_cond wakes the thread when one is added. The thread sleeps until    *)
(* the time of the first task as it was when it fell asleep. stop() adds a   *)
(* task at the epoch of the clock, which ends run() by an exception.         *)
(*                                                                           *)
(* A critical section under m_mutex is one step. The clock is a counter that *)
(* may advance at any moment.                                                *)
EXTENDS Naturals, SequencesExt

CONSTANTS Tasks,       \* the tasks of the users
          Reusable,    \* those from createReusableTask()
          StopTask,    \* the task of stop()
          None,
          MaxTime      \* where the clock of the model stops

ASSUME TasksAssumption == /\ Reusable \subseteq Tasks
                          /\ StopTask \notin Tasks
                          /\ None \notin Tasks \cup {StopTask}
ASSUME TimeAssumption == MaxTime \in Nat \ {0}

Epoch == 0
Times == Epoch .. MaxTime
Never == MaxTime + 1
AllTasks == Tasks \cup {StopTask}

VARIABLES now,          \* Clock::now()
          m_tasks,      \* the multiset, in its order
          m_timePoint,
          m_selfPtr,    \* the tasks that own themselves
          place,        \* who has the task
          m_stopTask,   \* stop() has not taken its task yet
          pc,           \* the thread
          until,        \* the time it sleeps to
          runTask,      \* the task it executes
          stopping,     \* the calls of stop() by the owner and by a callback
          life,
          arrivals      \* history: the waiting tasks in order of arrival

data == <<m_tasks, m_timePoint, m_selfPtr, place, arrivals>>
thread == <<pc, until, runTask>>
control == <<m_stopTask, stopping, life>>
vars == <<now, data, thread, control>>

Stoppers == {"owner", "callback"}

Init == /\ now = Epoch + 1
        /\ m_tasks = <<>>
        /\ m_timePoint = [t \in AllTasks |-> Epoch]
        /\ m_selfPtr = {}
        /\ place = [t \in AllTasks |-> "user"]
        /\ m_stopTask = TRUE
        /\ pc = "look"
        /\ until = Never
        /\ runTask = None
        /\ stopping = [s \in Stoppers |-> "idle"]
        /\ life = "open"
        /\ arrivals = <<>>

Tick == now < MaxTime /\ now' = now + 1 /\ UNCHANGED <<data, thread, control>>

-----------------------------------------------------------------------------
\* addTask() up to the mutex; addTimeoutTask() has read the clock before.
AddTask(t, timePoint) == /\ m_selfPtr' = m_selfPtr \cup {t}
                         /\ m_timePoint' = [m_timePoint EXCEPT ![t] = timePoint]
                         /\ place' = [place EXCEPT ![t] = "transit"]
                         /\ UNCHANGED <<m_tasks, arrivals>>

\* A user adds a task, at any time point if it is a one-shot task.
UserAdd(t) == /\ life = "open"
              /\ place[t] = "user"
              /\ \E d \in Times \ {Epoch} :
                    (t \in Reusable => d >= now) /\ AddTask(t, d)
              /\ UNCHANGED <<now, thread, control>>

\* The callback of a reusable task adds the task again.
CallbackAdd == /\ pc = "run"
               /\ runTask \in Reusable
               /\ place[runTask] = "running"
               /\ \E d \in now .. MaxTime : AddTask(runTask, d)
               /\ UNCHANGED <<now, thread, control>>

\* Bug: a task goes before those of the same time.
LowerBound(t) == 1 + Cardinality({i \in DOMAIN m_tasks :
                                    m_timePoint[m_tasks[i]] < m_timePoint[t]})

\* Where boost::intrusive::multiset inserts: behind all that are not later.
UpperBound(t) == 1 + Cardinality({i \in DOMAIN m_tasks :
                                    m_timePoint[m_tasks[i]] <= m_timePoint[t]})

\* Bug: a sleeping thread is woken only by the first task of an empty list.
NotifyIfEmpty == /\ pc' = IF pc = "sleep" /\ m_tasks = <<>> THEN "look" ELSE pc
                 /\ UNCHANGED <<until, runTask>>

\* m_cond.notify_one(): only the thread waits on m_cond.
NotifyOne == /\ pc' = IF pc = "sleep" THEN "look" ELSE pc
             /\ UNCHANGED <<until, runTask>>

\* The critical section of addTask().
Insert(t) == /\ place[t] = "transit"
             /\ m_tasks' = InsertAt(m_tasks, UpperBound(t), t)
             /\ place' = [place EXCEPT ![t] = "listed"]
             /\ arrivals' = Append(arrivals, [task |-> t, time |-> m_timePoint[t]])
             /\ NotifyOne
             /\ stopping' = IF t = StopTask
                            THEN [s \in Stoppers |-> IF stopping[s] = "insert"
                                                     THEN "idle" ELSE stopping[s]]
                            ELSE stopping
             /\ UNCHANGED <<now, m_timePoint, m_selfPtr, m_stopTask, life>>

-----------------------------------------------------------------------------
\* if (m_stopTask): the pointer is read and moved without the mutex, so that
\* calls must not overlap.
StopTest(s) == /\ \A r \in Stoppers : stopping[r] = "idle"
               /\ stopping[s] = "idle"
               /\ stopping' = [stopping EXCEPT ![s] = IF m_stopTask THEN "move" ELSE "idle"]

Stop(s) == /\ life = "open"
           /\ s = "callback" => pc = "run" /\ runTask # StopTask
           /\ m_stopTask
           /\ StopTest(s)
           /\ UNCHANGED <<now, data, thread, m_stopTask, life>>

\* addTask(Clock::time_point(), std::move(m_stopTask)).
StopMove(s) == /\ stopping[s] = "move"
               /\ m_stopTask
               /\ m_stopTask' = FALSE
               /\ stopping' = [stopping EXCEPT ![s] = "insert"]
               /\ AddTask(StopTask, Epoch)
               /\ UNCHANGED <<now, thread, life>>

\* ~TimeoutsThread(): stop(), then join(). Calls of users have returned.
Destroy == /\ life = "open"
           /\ stopping["owner"] = "idle"
           /\ \A t \in Tasks : place[t] = "transit" => t = runTask
           /\ StopTest("owner")
           /\ life' = "destroying"
           /\ UNCHANGED <<now, data, thread, m_stopTask>>

\* m_thread.join() returns, ~Tasks() destroys what is left.
Join == /\ life = "destroying"
        /\ stopping["owner"] = "idle"
        /\ pc = "ended"
        /\ life' = "gone"
        /\ m_tasks' = <<>>
        /\ m_selfPtr' = m_selfPtr \ Range(m_tasks)
        /\ place' = [t \in AllTasks |-> IF t \in Range(m_tasks) THEN "dead" ELSE place[t]]
        /\ arrivals' = <<>>
        /\ UNCHANGED <<now, m_timePoint, thread, m_stopTask, stopping>>

-----------------------------------------------------------------------------
\* takeFirstTask(); the thread leaves the critical section with the task.
TakeFirstTask ==
    LET t == Head(m_tasks) IN
    /\ m_tasks' = Tail(m_tasks)
    /\ m_selfPtr' = m_selfPtr \ {t}
    /\ place' = [place EXCEPT ![t] = "running"]
    /\ \E i \in DOMAIN arrivals : arrivals[i].task = t /\ arrivals' = RemoveAt(arrivals, i)
    /\ runTask' = t
    /\ pc' = "run"
    /\ UNCHANGED m_timePoint

\* m_cond.wait(lock)
WaitForAny == /\ pc = "look"
              /\ m_tasks = <<>>
              /\ pc' = "sleep"
              /\ until' = Never
              /\ UNCHANGED <<now, data, runTask, control>>

TakeDue == /\ pc = "look"
           /\ m_tasks # <<>>
           /\ m_timePoint[Head(m_tasks)] <= now
           /\ TakeFirstTask
           /\ UNCHANGED <<now, until, control>>

\* Bug: wait() where wait_until() is called for.
WaitForNews == /\ pc = "look"
               /\ m_tasks # <<>>
               /\ m_timePoint[Head(m_tasks)] > now
               /\ pc' = "sleep"
               /\ until' = Never
               /\ UNCHANGED <<now, data, runTask, control>>

\* m_cond.wait_until(lock, nextTimePoint)
WaitForFirst == /\ pc = "look"
                /\ m_tasks # <<>>
                /\ m_timePoint[Head(m_tasks)] > now
                /\ pc' = "sleep"
                /\ until' = m_timePoint[Head(m_tasks)]
                /\ UNCHANGED <<now, data, runTask, control>>

SpuriousWakeup == /\ pc = "sleep"
                  /\ pc' = "look"
                  /\ UNCHANGED <<now, data, until, runTask, control>>

\* wait_until() returns std::cv_status::timeout, with the mutex to be had yet.
TimeOut == /\ pc = "sleep"
           /\ until <= now
           /\ pc' = "expired"
           /\ UNCHANGED <<now, data, until, runTask, control>>

\* After a timeout the first task is taken whatever its time is.
TakeExpired == /\ pc = "expired"
               /\ TakeFirstTask
               /\ UNCHANGED <<now, until, control>>

\* The callback has returned; a task it did not move away is destroyed.
Return == /\ pc = "run"
          /\ runTask # StopTask
          /\ place[runTask] # "transit"
          /\ stopping["callback"] = "idle"
          /\ \/ /\ place[runTask] = "running"
                /\ place' = [place EXCEPT ![runTask] = "dead"]
             \/ /\ place[runTask] = "running" /\ runTask \in Reusable
                /\ place' = [place EXCEPT ![runTask] = "user"]
             \/ place[runTask] # "running" /\ UNCHANGED place
          /\ pc' = "look"
          /\ runTask' = None
          /\ UNCHANGED <<now, m_tasks, m_timePoint, m_selfPtr, arrivals, until, control>>

\* throw StopException(): run() returns.
ReturnFromRun == /\ pc = "run"
                 /\ runTask = StopTask
                 /\ place' = [place EXCEPT ![runTask] = "dead"]
                 /\ pc' = "ended"
                 /\ runTask' = None
                 /\ UNCHANGED <<now, m_tasks, m_timePoint, m_selfPtr, arrivals, until, control>>

Run == \/ WaitForAny \/ TakeDue \/ WaitForFirst \/ TimeOut \/ TakeExpired
       \/ Return \/ ReturnFromRun

Next == \/ Tick
        \/ \E t \in Tasks : UserAdd(t)
        \/ \E t \in AllTasks : Insert(t)
        \/ CallbackAdd
        \/ \E s \in Stoppers : Stop(s) \/ StopMove(s)
        \/ Destroy \/ Join
        \/ Run \/ SpuriousWakeup

\* Time passes, threads proceed and callbacks return.
Fairness == /\ WF_vars(Tick)
            /\ WF_vars(Run)
            /\ WF_vars(Join)
            /\ \A t \in AllTasks : WF_vars(Insert(t))
            /\ \A s \in Stoppers : WF_vars(StopMove(s))

SafetySpec == Init /\ [][Next]_vars

Spec == SafetySpec /\ Fairness

-----------------------------------------------------------------------------
\* The fields hold what their types allow; until is a time or Never.
TypeOK == /\ now \in Times
          /\ m_tasks \in Seq(AllTasks)
          /\ m_timePoint \in [AllTasks -> Times]
          /\ m_selfPtr \subseteq AllTasks
          /\ place \in [AllTasks -> {"user", "transit", "listed", "running", "dead"}]
          /\ m_stopTask \in BOOLEAN
          /\ pc \in {"look", "sleep", "expired", "run", "ended"}
          /\ until \in Times \cup {Never}
          /\ runTask \in AllTasks \cup {None}
          /\ stopping \in [Stoppers -> {"idle", "move", "insert"}]
          /\ life \in {"open", "destroying", "gone"}

\* The thread never sleeps past the time of a task, one added during the sleep
\* included, and when a sleep has run out there is a task whose time has come.
NeverOversleeps ==
    /\ pc = "sleep" => \A i \in DOMAIN m_tasks : until <= m_timePoint[m_tasks[i]]
    /\ pc = "expired" => m_tasks # <<>> /\ m_timePoint[Head(m_tasks)] <= now

\* Tasks start at their time, earliest first, and in order of arrival among
\* those of the same time, although the thread looks only at the first of a
\* list that changes while it sleeps.
Queue == INSTANCE DueQueue WITH Tasks <- AllTasks, waiting <- arrivals,
                                running <- runTask
QueueSpec == Queue!Spec

\* Every task that was added is started, unless the thread is stopped, although
\* others are added again and again.
Started == \A t \in Tasks : place[t] = "listed" ~> place[t] # "listed" \/ ~m_stopTask

\* A stop ends the thread although tasks are due or add themselves again, and
\* the destructor returns.
StopEnds == /\ ~m_stopTask ~> pc = "ended"
            /\ life = "destroying" ~> life = "gone"

\* Whatever is listed meanwhile, tasks start and the thread can be stopped.
TasksAndStopServed == Started /\ StopEnds
=============================================================================
