----------------------------- MODULE CircBuffer -----------------------------
(* CircBufferSCSP.h: a ring of N places shared by one producer and one       *)
(* consumer thread.  The template FifoBufferActions makes one algorithm of   *)
(* reading and writing, and so does this module: a side is the producer      *)
(* ("write") or the consumer ("read"), and its room is the number of places  *)
(* it may use.  Only m_dataAvailable is shared, under m_dataAvailableMutex;  *)
(* each critical section is one step.  The copies happen outside the mutex   *)
(* and the offset of a side moves after its room has already been given to   *)
(* the other side: those are steps of their own.                             *)
EXTENDS Naturals, Sequences

CONSTANTS N,           \* m_bufferSize
          SizeMax,     \* the largest std::size_t
          Values,      \* what is stored
          MaxRequest   \* bound: the largest size passed to read and write

ASSUME SizesAssumption == /\ N \in Nat \ {0} /\ SizeMax \in Nat /\ N < SizeMax
                          /\ MaxRequest \in 0..SizeMax

VARIABLES buffer,           \* m_buffer
          m_dataAvailable,
          offset,           \* [Sides -> Places]: m_writeOffset and m_readOffset
          at,               \* where each thread is
          how,              \* the function a side is in
          left,             \* operate: size, respectively maxTransfer
          chunk,            \* the number of elements being transferred, from offset on
          enough,           \* operate returns after this chunk
          ret,              \* what haveWritten or haveRead has read: the room after it
          taken             \* what the consumer has copied and not yet released

vars == <<buffer, m_dataAvailable, offset, at, how, left, chunk, enough, ret, taken>>

Sides == {"write", "read"}
Places == 0..N-1
Ats == {"idle", "copy", "done", "move", "blocked", "woken"}
Hows == {"none", "pointer", "actor", "place", "wait", "poll"}
Other(s) == IF s = "write" THEN "read" ELSE "write"
Least(a, b) == IF a < b THEN a ELSE b

Init == /\ buffer \in [Places -> Values]
        /\ m_dataAvailable = 0
        /\ offset = [s \in Sides |-> 0]
        /\ at = [s \in Sides |-> "idle"]
        /\ how = [s \in Sides |-> "none"]
        /\ left = [s \in Sides |-> 0]
        /\ chunk = [s \in Sides |-> 0]
        /\ enough = [s \in Sides |-> FALSE]
        /\ ret = [s \in Sides |-> 0]
        /\ taken = <<>>

\* spaceAvailable() and dataAvailable()
Room(s) == IF s = "read" THEN m_dataAvailable ELSE N - m_dataAvailable

\* Bug: the end of the array only, not the room.
UntilEndOnly(room, o) == N - o

\* spaceAvailableUntilBufferEnd() and dataAvailableUntilBufferEnd()
UntilEnd(room, o) == Least(room, N - o)

\* Bug: what wrapped is forgotten.
AdvancedToStart(o, size) == IF o < N - size THEN o + size ELSE 0

\* The offset haveWritten and haveRead compute for size elements more
Advanced(o, size) == IF o < N - size THEN o + size ELSE size - (N - o)

\* The place i places after o: what ptrAdd and a wrapping user of arrayStart() address
Nth(o, i) == IF o + i < N THEN o + i ELSE o + i - N

-----------------------------------------------------------------------------
(* operate: the chunks *)

\* In function h, side s goes on with a chunk when there is room, and returns
\* otherwise.
GoOn(s, h, room, o, rest) ==
    LET ube == UntilEnd(room, o) IN
    /\ at' = [at EXCEPT ![s] = IF ube = 0 THEN "idle" ELSE "copy"]
    /\ how' = [how EXCEPT ![s] = IF ube = 0 THEN "none" ELSE h]
    /\ chunk' = [chunk EXCEPT ![s] = Least(ube, rest)]
    /\ left' = [left EXCEPT ![s] = IF ube = 0 THEN 0 ELSE rest]

\* write and read with a pointer and a size, or with an actor
Operate(s) ==
    /\ at[s] = "idle"
    /\ \/ \E size \in 1..MaxRequest : GoOn(s, "pointer", Room(s), offset[s], size)
       \/ GoOn(s, "actor", Room(s), offset[s], SizeMax)
    /\ UNCHANGED <<buffer, m_dataAvailable, offset, enough, ret, taken>>

\* A user works in the array itself, wrapping at its end, and will call
\* haveWritten or haveRead.
InPlace(s) ==
    /\ at[s] = "idle"
    /\ at' = [at EXCEPT ![s] = "copy"]
    /\ how' = [how EXCEPT ![s] = "place"]
    /\ \E size \in 1..Room(s) : /\ chunk' = [chunk EXCEPT ![s] = size]
                               /\ left' = [left EXCEPT ![s] = size]
    /\ UNCHANGED <<buffer, m_dataAvailable, offset, enough, ret, taken>>

\* The places of a transfer of n elements by side s
Region(s, n) == {Nth(offset[s], i) : i \in 0..n-1}

\* Bug: what was offered counts as transferred.
TransferredAll(s, n) ==
    /\ at[s] = "copy"
    /\ n = chunk[s] \/ how[s] = "actor"
    /\ at' = [at EXCEPT ![s] = "done"]
    /\ enough' = [enough EXCEPT ![s] = n < chunk[s] \/ chunk[s] = left[s]]
    /\ UNCHANGED <<m_dataAvailable, offset, how, left, ret, chunk>>

\* n elements of the chunk were transferred; only an actor may stop short.
Transferred(s, n) ==
    /\ at[s] = "copy"
    /\ n = chunk[s] \/ how[s] = "actor"
    /\ at' = [at EXCEPT ![s] = "done"]
    /\ chunk' = [chunk EXCEPT ![s] = n]
    /\ enough' = [enough EXCEPT ![s] = n < chunk[s] \/ chunk[s] = left[s]]
    /\ UNCHANGED <<m_dataAvailable, offset, how, left, ret>>

\* copySecondToFirstData, or the actor, fills the places.
Fill == \E n \in 0..chunk["write"] : \E new \in [Region("write", n) -> Values] :
           /\ Transferred("write", n)
           /\ buffer' = [p \in Places |-> IF p \in DOMAIN new THEN new[p] ELSE buffer[p]]
           /\ UNCHANGED taken

\* copyFirstToSecondData, or the actor, takes the elements from the places.
Drain == \E n \in 0..chunk["read"] :
           /\ Transferred("read", n)
           /\ taken' = [i \in 1..n |-> buffer[Nth(offset["read"], i - 1)]]
           /\ UNCHANGED buffer

-----------------------------------------------------------------------------
(* haveWritten and haveRead *)

\* Bug: nobody is notified.
NotifyNobody(pc) == at' = pc

\* m_dataAvailableCondition.notify_one() in a thread that is then at pc[...]:
\* a waiting thread wakes, if there is one.
NotifyOne(pc) == LET Blocked == {s \in Sides : at[s] = "blocked"} IN
                 IF Blocked = {} THEN at' = pc
                 ELSE \E s \in Blocked : at' = [pc EXCEPT ![s] = "woken"]

\* increaseDataAvailable and decreaseDataAvailable
Publish(s) ==
    /\ at[s] = "done"
    /\ m_dataAvailable' = IF s = "write" THEN m_dataAvailable + chunk[s]
                                         ELSE m_dataAvailable - chunk[s]
    /\ ret' = [ret EXCEPT ![s] = Room(s) - chunk[s]]
    /\ NotifyOne([at EXCEPT ![s] = "move"])
    /\ taken' = IF s = "read" THEN <<>> ELSE taken
    /\ UNCHANGED <<buffer, offset, how, left, chunk, enough>>

\* The offset moves, and operate goes on or returns.
Advance(s) ==
    /\ at[s] = "move"
    /\ LET o == Advanced(offset[s], chunk[s]) IN
         /\ offset' = [offset EXCEPT ![s] = o]
         /\ GoOn(s, how[s], IF enough[s] THEN 0 ELSE ret[s], o, left[s] - chunk[s])
    /\ ret' = [ret EXCEPT ![s] = 0]
    /\ enough' = [enough EXCEPT ![s] = FALSE]
    /\ UNCHANGED <<buffer, m_dataAvailable, taken>>

-----------------------------------------------------------------------------
(* waitSpaceAvailable and waitDataAvailable *)

Transfer == <<buffer, m_dataAvailable, offset, left, chunk, enough, ret, taken>>

\* The loop of waitAvailable, with the mutex held: return, or wait on the
\* condition variable.
Test(s, h) ==
    /\ at' = [at EXCEPT ![s] = IF Room(s) # 0 THEN "idle" ELSE "blocked"]
    /\ how' = [how EXCEPT ![s] = IF Room(s) # 0 THEN "none" ELSE h]
    /\ UNCHANGED Transfer

\* The first form waits, the second polls a stop test.
Wait(s) == at[s] = "idle" /\ \E h \in {"wait", "poll"} : Test(s, h)

\* The thread has the mutex again.
Retest(s) == at[s] = "woken" /\ Test(s, how[s])

Wakes(s) == /\ at' = [at EXCEPT ![s] = "woken"]
            /\ UNCHANGED <<how, Transfer>>

\* wait_for ends after loopDuration.
Timeout(s) == at[s] = "blocked" /\ how[s] = "poll" /\ Wakes(s)

SpuriousWakeup(s) == at[s] = "blocked" /\ how[s] = "wait" /\ Wakes(s)

\* The stop test throws and the exception leaves waitAvailable.
StopTest(s) == /\ at[s] = "woken" /\ how[s] = "poll" /\ Room(s) = 0
               /\ at' = [at EXCEPT ![s] = "idle"]
               /\ how' = [how EXCEPT ![s] = "none"]
               /\ UNCHANGED Transfer

Step(s) == Publish(s) \/ Advance(s) \/ Retest(s)
Next == \/ \E s \in Sides : \/ Operate(s) \/ InPlace(s) \/ Step(s) \/ Wait(s)
                            \/ Timeout(s) \/ SpuriousWakeup(s) \/ StopTest(s)
        \/ Fill \/ Drain

Spec == Init /\ [][Next]_vars

-----------------------------------------------------------------------------
(* Properties *)

\* The shapes, and the assertions m_readOffset < m_bufferSize,
\* m_writeOffset < m_bufferSize and m_dataAvailable <= m_bufferSize.
TypeOK ==
    /\ buffer \in [Places -> Values]
    /\ m_dataAvailable \in 0..N
    /\ offset \in [Sides -> Places]
    /\ at \in [Sides -> Ats]
    /\ how \in [Sides -> Hows]
    /\ left \in [Sides -> 0..SizeMax]
    /\ chunk \in [Sides -> 0..N]
    /\ enough \in [Sides -> BOOLEAN]
    /\ ret \in [Sides -> 0..N]
    /\ taken \in Seq(Values) /\ Len(taken) <= N

\* Where a side will go on once it has moved past what it has published
Position(s) == IF at[s] = "move" THEN Nth(offset[s], chunk[s]) ELSE offset[s]

\* The offsets, which no lock protects and which move late, and the counter,
\* which the mutex protects, agree: the producer is m_dataAvailable places
\* ahead of the consumer (haveWritten, haveRead).
OffsetsAgree == Position("write") = Nth(Position("read"), m_dataAvailable)

\* The two threads never touch the same place at the same time, although
\* neither holds a lock while it copies (operatePtr, copyAction).
NoRace == at["write"] = "copy" /\ at["read"] = "copy" =>
              Region("write", chunk["write"]) \cap Region("read", chunk["read"]) = {}

\* No lost wakeup: nobody is asleep while there is something for it, with one
\* condition variable and notify_one for two threads waiting for different
\* things (waitAvailable).
NobodySleepsOverRoom == \A s \in Sides : at[s] = "blocked" => Room(s) = 0

\* The elements in the buffer are a bounded FIFO.
Contents == [i \in 1..m_dataAvailable |-> buffer[Nth(Position("read"), i - 1)]]
Fifo == INSTANCE BoundedFifo WITH Capacity <- N, queue <- Contents, reading <- taken
FifoSpec == Fifo!Spec
=============================================================================
