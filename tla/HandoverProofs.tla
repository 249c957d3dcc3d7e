--------------------------- MODULE HandoverProofs ---------------------------
(* What one thread hands over to another, in CircBuffer and in Future.       *)
(*                                                                           *)
(* For every size of the array: the offsets and the counter of a             *)
(* CircBufferSCSP agree, the two threads never touch the same place, and no  *)
(* wakeup is lost.  The argument is linear arithmetic around the ring: a     *)
(* side never uses more places than its room, and only the side itself makes *)
(* its room smaller.  Then it is shown that the elements in the ring are a   *)
(* BoundedFifo: whatever their number, every step maps to a step of that     *)
(* queue or leaves it alone.                                                 *)
(*                                                                           *)
(* For all threads and states: a continuation is in one place until it has   *)
(* run.  Beside the types this needs that the future of a state with a       *)
(* continuation has been moved into it, so that then() never finds the place *)
(* taken, and that what is not created yet has neither promise nor future.   *)
EXTENDS CircBuffer, Future, SequenceTheorems, TLAPS

\* Of the type invariant, what the argument needs.
Typed == /\ m_dataAvailable \in 0..N
         /\ offset \in [Sides -> Places]
         /\ at \in [Sides -> Ats]
         /\ chunk \in [Sides -> 0..N]
         /\ ret \in [Sides -> 0..N]
         /\ left \in [Sides -> 0..SizeMax]
         /\ enough \in [Sides -> BOOLEAN]

\* A side uses no more than its room, also when it has read its room long ago.
WithinRoom == \A s \in Sides :
    /\ at[s] \in {"copy", "done"} => chunk[s] <= Room(s)
    /\ at[s] \in {"copy", "done", "move"} => chunk[s] <= left[s]
    /\ at[s] = "move" => ret[s] <= Room(s)

IInv == Typed /\ WithinRoom /\ OffsetsAgree /\ NobodySleepsOverRoom

LEMMA InitIInv == Init => IInv
  BY SizesAssumption
  DEF Init, IInv, Typed, WithinRoom, OffsetsAgree, NobodySleepsOverRoom, Room, Position,
      Nth, Sides, Places, Ats

\* haveWritten and haveRead compute the position of the side after the transfer.
LEMMA AdvancedIsNth ==
  ASSUME NEW o \in Places, NEW n \in 0..N
  PROVE  Advanced(o, n) = Nth(o, n) /\ Advanced(o, n) \in Places
  BY SizesAssumption DEF Advanced, Nth, Places

\* What operate does next keeps the side within its room.
LEMMA GoOnWithinRoom ==
  ASSUME NEW s \in Sides, NEW h, NEW room \in 0..N, NEW o \in Places, NEW rest \in 0..SizeMax,
         Typed, GoOn(s, h, room, o, rest)
  PROVE  /\ at' \in [Sides -> Ats] /\ chunk' \in [Sides -> 0..N] /\ left' \in [Sides -> 0..SizeMax]
         /\ at'[s] \in {"idle", "copy"} /\ chunk'[s] <= room /\ chunk'[s] <= left'[s]
         /\ \A u \in Sides \ {s} : at'[u] = at[u] /\ chunk'[u] = chunk[u] /\ left'[u] = left[u]
<1> DEFINE ube == UntilEnd(room, o)
<1>1. ube \in 0..N /\ ube <= room
  BY SizesAssumption DEF UntilEnd, Least, Places
<1>2. /\ Least(ube, rest) \in 0..N /\ Least(ube, rest) <= room
      /\ Least(ube, rest) <= (IF ube = 0 THEN 0 ELSE rest)
  BY <1>1, SizesAssumption DEF Least
<1> QED BY <1>1, <1>2, SizesAssumption DEF GoOn, Typed, Ats

\* A step of a side that leaves the counter and the offsets alone.
LEMMA Planned ==
  ASSUME IInv, NEW s \in Sides, UNCHANGED <<m_dataAvailable, offset>>,
         ret' \in [Sides -> 0..N], enough' \in [Sides -> BOOLEAN],
         at' \in [Sides -> Ats], chunk' \in [Sides -> 0..N], left' \in [Sides -> 0..SizeMax],
         at[s] # "move", at'[s] # "move",
         at'[s] \in {"copy", "done"} => chunk'[s] <= Room(s) /\ chunk'[s] <= left'[s],
         at'[s] = "blocked" => Room(s) = 0,
         \A u \in Sides \ {s} : /\ at'[u] = at[u] /\ chunk'[u] = chunk[u]
                                /\ left'[u] = left[u] /\ ret'[u] = ret[u]
  PROVE  IInv'
<1>1. \A u \in Sides : Room(u)' = Room(u)
  BY DEF Room
<1>2. \A u \in Sides : Position(u)' = Position(u)
  BY DEF Position
<1>3. Typed'
  BY DEF IInv, Typed
<1>4. WithinRoom' /\ NobodySleepsOverRoom'
  BY <1>1 DEF IInv, WithinRoom, NobodySleepsOverRoom
<1>5. OffsetsAgree'
  BY <1>2 DEF IInv, OffsetsAgree, Sides, Nth
<1> QED BY <1>3, <1>4, <1>5 DEF IInv

LEMMA OperateStep ==
  ASSUME IInv, NEW s \in Sides, Operate(s)
  PROVE  IInv'
<1>1. PICK h, size : size \in 0..SizeMax /\ GoOn(s, h, Room(s), offset[s], size)
  BY SizesAssumption DEF Operate
<1>2. Room(s) \in 0..N /\ offset[s] \in Places
  BY SizesAssumption DEF IInv, Typed, Room
<1>3. Typed
  BY DEF IInv
<1>4. /\ at' \in [Sides -> Ats] /\ chunk' \in [Sides -> 0..N] /\ left' \in [Sides -> 0..SizeMax]
      /\ at'[s] \in {"idle", "copy"} /\ chunk'[s] <= Room(s) /\ chunk'[s] <= left'[s]
      /\ \A u \in Sides \ {s} : at'[u] = at[u] /\ chunk'[u] = chunk[u] /\ left'[u] = left[u]
  BY <1>1, <1>2, <1>3, GoOnWithinRoom
<1>5. /\ at[s] = "idle" /\ UNCHANGED <<m_dataAvailable, offset, ret, enough>>
      /\ ret \in [Sides -> 0..N] /\ enough \in [Sides -> BOOLEAN]
  BY <1>3 DEF Operate, Typed
<1> QED BY <1>4, <1>5, Planned

LEMMA InPlaceStep ==
  ASSUME IInv, NEW s \in Sides, InPlace(s)
  PROVE  IInv'
<1>1. Room(s) \in 0..N /\ Typed
  BY SizesAssumption DEF IInv, Typed, Room
<1>2. PICK size \in 1..Room(s) : chunk' = [chunk EXCEPT ![s] = size] /\ left' = [left EXCEPT ![s] = size]
  BY DEF InPlace
<1>3. size \in 0..N /\ size \in 0..SizeMax /\ size <= Room(s)
  BY <1>1, SizesAssumption
<1>4. /\ at[s] = "idle" /\ at' = [at EXCEPT ![s] = "copy"]
      /\ UNCHANGED <<m_dataAvailable, offset, ret, enough>>
  BY DEF InPlace
<1>5. at' \in [Sides -> Ats] /\ chunk' \in [Sides -> 0..N] /\ left' \in [Sides -> 0..SizeMax]
  BY <1>1, <1>2, <1>3, <1>4 DEF Typed, Ats
<1>6. at'[s] = "copy" /\ chunk'[s] = size /\ left'[s] = size
  BY <1>1, <1>2, <1>4 DEF Typed
<1>7. \A u \in Sides \ {s} : at'[u] = at[u] /\ chunk'[u] = chunk[u] /\ left'[u] = left[u]
  BY <1>1, <1>2, <1>4 DEF Typed
<1>8. ret' \in [Sides -> 0..N] /\ enough' \in [Sides -> BOOLEAN] /\ ret' = ret
  BY <1>1, <1>4 DEF Typed
<1>9. chunk'[s] <= left'[s]
  BY <1>3, <1>6
<1> QED BY <1>3, <1>4, <1>5, <1>6, <1>7, <1>8, <1>9, Planned

LEMMA TransferredStep ==
  ASSUME IInv, NEW s \in Sides, NEW n \in 0..chunk[s], Transferred(s, n)
  PROVE  IInv'
<1>1. Room(s) \in 0..N /\ Typed /\ chunk[s] \in 0..N /\ left[s] \in 0..SizeMax
  BY SizesAssumption DEF IInv, Typed, Room
<1>2. chunk[s] <= Room(s) /\ chunk[s] <= left[s] /\ at[s] = "copy"
  BY DEF Transferred, IInv, WithinRoom
<1>3. n \in 0..N /\ n <= Room(s) /\ n <= left[s]
  <2> DEFINE c == chunk[s]  r == Room(s)  l == left[s]
  <2>1. /\ N \in Nat /\ SizeMax \in Nat /\ c \in 0..N /\ r \in 0..N /\ l \in 0..SizeMax
        /\ n \in 0..c /\ c <= r /\ c <= l
    BY <1>1, <1>2, SizesAssumption
  <2> HIDE DEF c, r, l
  <2>2. n \in 0..N /\ n <= r /\ n <= l
    BY <2>1
  <2> QED BY <2>2 DEF r, l
<1>4. /\ at' = [at EXCEPT ![s] = "done"] /\ chunk' = [chunk EXCEPT ![s] = n]
      /\ enough' \in [Sides -> BOOLEAN]
      /\ UNCHANGED <<m_dataAvailable, offset, left, ret>>
  BY <1>1 DEF Transferred, Typed
<1>5. at' \in [Sides -> Ats] /\ chunk' \in [Sides -> 0..N]
  BY <1>1, <1>3, <1>4 DEF Typed, Ats
<1>6. at'[s] = "done" /\ chunk'[s] = n /\ left' = left /\ ret' = ret
  BY <1>1, <1>4 DEF Typed
<1>7. \A u \in Sides \ {s} : at'[u] = at[u] /\ chunk'[u] = chunk[u]
  BY <1>1, <1>4 DEF Typed
<1>8. left \in [Sides -> 0..SizeMax] /\ ret \in [Sides -> 0..N]
  BY <1>1 DEF Typed
<1> QED BY <1>2, <1>3, <1>4, <1>5, <1>6, <1>7, <1>8, Planned

\* increaseDataAvailable and decreaseDataAvailable wake the other side if it is asleep.
LEMMA PublishWakes ==
  ASSUME Typed, NEW s \in Sides, Publish(s)
  PROVE  /\ at' \in [Sides -> Ats] /\ at'[s] = "move"
         /\ at'[Other(s)] = IF at[Other(s)] = "blocked" THEN "woken" ELSE at[Other(s)]
<1>1. Typed /\ at[s] = "done"
  BY DEF Publish
<1>2. /\ Other(s) \in Sides /\ Other(s) # s
      /\ \A u \in Sides : u = s \/ u = Other(s)
  BY DEF Other, Sides
<1>3. at' \in [Sides -> Ats] /\ at'[s] = "move"
  <2>1. [at EXCEPT ![s] = "move"] \in [Sides -> Ats]
    BY <1>1 DEF Typed, Ats
  <2>2. CASE at' = [at EXCEPT ![s] = "move"]
    BY <2>1, <2>2, <1>1 DEF Typed
  <2>3. CASE \E u \in Sides : at[u] = "blocked" /\ at' = [[at EXCEPT ![s] = "move"] EXCEPT ![u] = "woken"]
    <3>1. PICK u \in Sides : at[u] = "blocked" /\ at' = [[at EXCEPT ![s] = "move"] EXCEPT ![u] = "woken"]
      BY <2>3
    <3>2. u # s
      BY <3>1, <1>1
    <3> QED BY <3>1, <3>2, <2>1, <1>1 DEF Typed, Ats
  <2> QED BY <2>2, <2>3 DEF Publish, NotifyOne
<1>4. at'[Other(s)] = IF at[Other(s)] = "blocked" THEN "woken" ELSE at[Other(s)]
  <2>1. CASE at[Other(s)] = "blocked"
    <3>1. PICK u \in Sides : at[u] = "blocked" /\ at' = [[at EXCEPT ![s] = "move"] EXCEPT ![u] = "woken"]
      BY <2>1, <1>2 DEF Publish, NotifyOne
    <3>2. u = Other(s)
      BY <3>1, <1>1, <1>2
    <3> QED BY <3>1, <3>2, <2>1, <1>1, <1>2 DEF Typed
  <2>2. CASE at[Other(s)] # "blocked"
    <3>1. \A u \in Sides : at[u] # "blocked"
      BY <2>2, <1>1, <1>2
    <3>2. at' = [at EXCEPT ![s] = "move"]
      BY <3>1 DEF Publish, NotifyOne
    <3> QED BY <3>2, <2>2, <1>1, <1>2 DEF Typed
  <2> QED BY <2>1, <2>2
<1> QED BY <1>3, <1>4

\* Publishing moves the position of the side as far as the counter.
LEMMA PublishStep ==
  ASSUME IInv, NEW s \in Sides, Publish(s)
  PROVE  IInv'
<1>1. Typed /\ WithinRoom /\ OffsetsAgree /\ NobodySleepsOverRoom /\ at[s] = "done"
  BY DEF IInv, Publish
<1>2. /\ Other(s) \in Sides /\ Other(s) # s
      /\ \A u \in Sides : u = s \/ u = Other(s)
  BY DEF Other, Sides
<1>3. /\ Room(s) \in 0..N /\ chunk[s] \in 0..N /\ chunk[s] <= Room(s) /\ chunk[s] <= left[s]
      /\ m_dataAvailable \in 0..N
  BY <1>1, SizesAssumption DEF Typed, Room, WithinRoom
<1>4. /\ m_dataAvailable' = IF s = "write" THEN m_dataAvailable + chunk[s]
                                           ELSE m_dataAvailable - chunk[s]
      /\ ret' = [ret EXCEPT ![s] = Room(s) - chunk[s]]
      /\ UNCHANGED <<offset, left, chunk, enough>>
  BY DEF Publish
<1>5. m_dataAvailable' \in 0..N /\ Room(s)' = Room(s) - chunk[s]
  BY <1>2, <1>3, <1>4, SizesAssumption DEF Room, Sides
<1>6. Room(Other(s))' = Room(Other(s)) + chunk[s] /\ Room(Other(s)) \in 0..N
  BY <1>2, <1>3, <1>4, SizesAssumption DEF Room, Sides, Other
<1>7. at' \in [Sides -> Ats] /\ at'[s] = "move"
  BY <1>1, PublishWakes
<1>8. at'[Other(s)] = IF at[Other(s)] = "blocked" THEN "woken" ELSE at[Other(s)]
  BY <1>1, PublishWakes
<1>9. Typed'
  <2>1. Room(s) - chunk[s] \in 0..N
    BY <1>3, SizesAssumption
  <2>2. ret' \in [Sides -> 0..N]
    BY <1>1, <1>4, <2>1 DEF Typed
  <2> QED BY <1>1, <1>4, <1>5, <1>7, <2>2 DEF Typed
<1>10. WithinRoom' /\ NobodySleepsOverRoom'
  <2>1. /\ ret'[s] = Room(s)' /\ ret'[Other(s)] = ret[Other(s)]
        /\ chunk' = chunk /\ left' = left
    BY <1>1, <1>2, <1>4, <1>5 DEF Typed
  <2>2. /\ chunk[Other(s)] \in 0..N /\ ret[Other(s)] \in 0..N
        /\ at[Other(s)] \in {"copy", "done"} => chunk[Other(s)] <= Room(Other(s))
        /\ at[Other(s)] \in {"copy", "done", "move"} => chunk[Other(s)] <= left[Other(s)]
        /\ at[Other(s)] = "move" => ret[Other(s)] <= Room(Other(s))
    BY <1>1, <1>2 DEF Typed, WithinRoom
  <2>3. /\ at'[Other(s)] \in {"copy", "done"} => chunk'[Other(s)] <= Room(Other(s))'
        /\ at'[Other(s)] \in {"copy", "done", "move"} => chunk'[Other(s)] <= left'[Other(s)]
        /\ at'[Other(s)] = "move" => ret'[Other(s)] <= Room(Other(s))'
        /\ at'[Other(s)] # "blocked"
    BY <1>3, <1>6, <1>8, <2>1, <2>2
  <2>4. /\ chunk'[s] <= left'[s] /\ at'[s] = "move" /\ ret'[s] <= Room(s)'
    BY <1>3, <1>5, <1>7, <2>1
  <2> QED BY <1>2, <2>3, <2>4 DEF WithinRoom, NobodySleepsOverRoom
<1>11. OffsetsAgree'
  <2>1. /\ Position(s) = offset[s] /\ Position(s)' = Nth(offset[s], chunk[s])
        /\ Position(Other(s))' = Position(Other(s))
    BY <1>1, <1>2, <1>4, <1>7, <1>8 DEF Position, Nth
  <2>2. offset[s] \in Places /\ Position(Other(s)) \in Places
    BY <1>1, <1>2, SizesAssumption DEF Typed, Position, Nth, Places
  <2>3. CASE s = "write"
    <3>1. Position("write") = Nth(Position("read"), m_dataAvailable)
      BY <1>1 DEF OffsetsAgree
    <3>2. /\ Position("write") = offset[s] /\ Position("write")' = Nth(offset[s], chunk[s])
          /\ Position("read")' = Position("read") /\ Position("read") \in Places
          /\ m_dataAvailable' = m_dataAvailable + chunk[s]
      BY <2>1, <2>2, <2>3, <1>4 DEF Other
    <3>3. Position("write")' = Nth(Position("read"), m_dataAvailable')
      BY <3>1, <3>2, <2>2, <1>3, <1>5, SizesAssumption DEF Nth, Places
    <3> QED BY <3>2, <3>3 DEF OffsetsAgree, Nth
  <2>4. CASE s = "read"
    <3>1. Position("write") = Nth(Position("read"), m_dataAvailable)
      BY <1>1 DEF OffsetsAgree
    <3>2. /\ Position("read") = offset[s] /\ Position("read")' = Nth(offset[s], chunk[s])
          /\ Position("write")' = Position("write") /\ Position("write") \in Places
          /\ m_dataAvailable' = m_dataAvailable - chunk[s]
      BY <2>1, <2>2, <2>4, <1>4 DEF Other
    <3>3. Position("write") = Nth(Nth(offset[s], chunk[s]), m_dataAvailable')
      BY <3>1, <3>2, <2>2, <1>3, <1>5, SizesAssumption DEF Nth, Places
    <3> QED BY <3>2, <3>3 DEF OffsetsAgree, Nth
  <2> QED BY <2>3, <2>4 DEF Sides
<1> QED BY <1>9, <1>10, <1>11 DEF IInv

\* Moving the offset leaves the position where it was.
LEMMA AdvanceStep ==
  ASSUME IInv, NEW s \in Sides, Advance(s)
  PROVE  IInv'
<1>1. Typed /\ WithinRoom /\ OffsetsAgree /\ NobodySleepsOverRoom /\ at[s] = "move"
  BY DEF IInv, Advance
<1> DEFINE o == Advanced(offset[s], chunk[s])
           room == IF enough[s] THEN 0 ELSE ret[s]
<1>2. /\ offset[s] \in Places /\ chunk[s] \in 0..N /\ chunk[s] <= left[s]
      /\ ret[s] \in 0..N /\ ret[s] <= Room(s) /\ Room(s) \in 0..N /\ left[s] \in 0..SizeMax
  BY <1>1, SizesAssumption DEF Typed, WithinRoom, Room
<1>3. o = Nth(offset[s], chunk[s]) /\ o \in Places
  BY <1>2, AdvancedIsNth
<1>4. room \in 0..N /\ room <= Room(s) /\ left[s] - chunk[s] \in 0..SizeMax
  BY <1>2, SizesAssumption
<1>5. /\ offset' = [offset EXCEPT ![s] = o]
      /\ GoOn(s, how[s], room, o, left[s] - chunk[s])
      /\ ret' = [ret EXCEPT ![s] = 0] /\ enough' = [enough EXCEPT ![s] = FALSE]
      /\ m_dataAvailable' = m_dataAvailable
  BY DEF Advance
<1>6. /\ at' \in [Sides -> Ats] /\ chunk' \in [Sides -> 0..N] /\ left' \in [Sides -> 0..SizeMax]
      /\ at'[s] \in {"idle", "copy"} /\ chunk'[s] <= room /\ chunk'[s] <= left'[s]
      /\ \A u \in Sides \ {s} : at'[u] = at[u] /\ chunk'[u] = chunk[u] /\ left'[u] = left[u]
  BY <1>1, <1>3, <1>4, <1>5, GoOnWithinRoom
<1>7. Typed'
  <2>1. offset' \in [Sides -> Places]
    BY <1>1, <1>3, <1>5 DEF Typed
  <2>2. ret' \in [Sides -> 0..N]
    BY <1>1, <1>5, SizesAssumption DEF Typed
  <2>3. enough' \in [Sides -> BOOLEAN]
    BY <1>1, <1>5 DEF Typed
  <2> QED BY <1>1, <1>5, <1>6, <2>1, <2>2, <2>3 DEF Typed
<1>8. \A u \in Sides : Room(u)' = Room(u) /\ Room(u) \in 0..N
  BY <1>1, <1>5, SizesAssumption DEF Room, Typed
<1>9. WithinRoom' /\ NobodySleepsOverRoom'
  <2>1. chunk'[s] \in 0..N /\ chunk'[s] <= Room(s)'
    BY <1>2, <1>4, <1>6, <1>8
  <2>2. \A u \in Sides \ {s} : ret'[u] = ret[u]
    BY <1>1, <1>5 DEF Typed
  <2> QED BY <1>1, <1>6, <1>8, <2>1, <2>2 DEF WithinRoom, NobodySleepsOverRoom
<1>10. \A u \in Sides : Position(u)' = Position(u)
  <2>1. Position(s) = o /\ Position(s)' = o
    BY <1>1, <1>3, <1>5, <1>6 DEF Position, Typed
  <2>2. \A u \in Sides \ {s} : Position(u)' = Position(u)
    BY <1>1, <1>5, <1>6 DEF Position, Typed, Nth
  <2> QED BY <2>1, <2>2
<1>11. OffsetsAgree'
  BY <1>1, <1>5, <1>10 DEF OffsetsAgree, Sides, Nth
<1> QED BY <1>7, <1>9, <1>11 DEF IInv

\* Waiting, waking and giving up: one side changes its place and nothing else.
LEMMA WaitStep ==
  ASSUME IInv, NEW s \in Sides, UNCHANGED Transfer, at[s] \in {"idle", "blocked", "woken"},
         \E a \in {"idle", "blocked", "woken"} : /\ at' = [at EXCEPT ![s] = a]
                                                 /\ a = "blocked" => Room(s) = 0
  PROVE  IInv'
<1>1. Typed /\ UNCHANGED <<m_dataAvailable, offset, left, chunk, enough, ret>>
  BY DEF IInv, Transfer
<1>2. /\ at' \in [Sides -> Ats] /\ at'[s] \in {"idle", "blocked", "woken"}
      /\ at'[s] = "blocked" => Room(s) = 0
      /\ \A u \in Sides \ {s} : at'[u] = at[u]
  BY <1>1 DEF Typed, Ats
<1>3. /\ left' \in [Sides -> 0..SizeMax] /\ chunk' \in [Sides -> 0..N] /\ ret' \in [Sides -> 0..N]
      /\ enough' \in [Sides -> BOOLEAN]
  BY <1>1 DEF Typed
<1> QED BY <1>1, <1>2, <1>3, Planned

LEMMA Steps ==
  ASSUME IInv, [Next]_vars
  PROVE  IInv'
<1>1. CASE UNCHANGED vars
  BY <1>1 DEF vars, IInv, Typed, WithinRoom, OffsetsAgree, NobodySleepsOverRoom, Room, Position, Nth
<1>2. CASE Fill
  BY <1>2, TransferredStep DEF Fill, Sides
<1>3. CASE Drain
  BY <1>3, TransferredStep DEF Drain, Sides
<1>4. ASSUME NEW s \in Sides, Operate(s) PROVE IInv'
  BY <1>4, OperateStep
<1>5. ASSUME NEW s \in Sides, InPlace(s) PROVE IInv'
  BY <1>5, InPlaceStep
<1>6. ASSUME NEW s \in Sides, Publish(s) PROVE IInv'
  BY <1>6, PublishStep
<1>7. ASSUME NEW s \in Sides, Advance(s) PROVE IInv'
  BY <1>7, AdvanceStep
<1>8. ASSUME NEW s \in Sides, Retest(s) \/ Wait(s) PROVE IInv'
  BY <1>8, WaitStep DEF Retest, Wait, Test
<1>9. ASSUME NEW s \in Sides, Timeout(s) \/ SpuriousWakeup(s) PROVE IInv'
  <2>1. UNCHANGED Transfer /\ at[s] = "blocked" /\ at' = [at EXCEPT ![s] = "woken"]
    BY <1>9 DEF Timeout, SpuriousWakeup, Wakes
  <2> QED BY <2>1, WaitStep
<1>10. ASSUME NEW s \in Sides, StopTest(s) PROVE IInv'
  <2>1. UNCHANGED Transfer /\ at[s] = "woken" /\ at' = [at EXCEPT ![s] = "idle"]
    BY <1>10 DEF StopTest
  <2> QED BY <2>1, WaitStep
<1> QED BY <1>1, <1>2, <1>3, <1>4, <1>5, <1>6, <1>7, <1>8, <1>9, <1>10 DEF Next, Step

LEMMA Invariance == Spec => []IInv
<1>1. Init => IInv
  BY InitIInv
<1>2. IInv /\ [Next]_vars => IInv'
  BY Steps
<1> QED BY <1>1, <1>2, PTL DEF Spec

\* The offsets, which no lock protects, and the counter agree.
THEOREM OffsetsAgreeHolds == Spec => []OffsetsAgree
<1>1. IInv => OffsetsAgree
  BY DEF IInv
<1> QED BY <1>1, Invariance, PTL

\* No wakeup is lost: a thread asleep has nothing to wake up for.
THEOREM NobodySleepsOverRoomHolds == Spec => []NobodySleepsOverRoom
<1>1. IInv => NobodySleepsOverRoom
  BY DEF IInv
<1> QED BY <1>1, Invariance, PTL

\* The producer and the consumer copy at the same time without a lock and never
\* touch the same place.
THEOREM NoRaceHolds == Spec => []NoRace
<1>1. IInv => NoRace
  <2> SUFFICES ASSUME IInv, at["write"] = "copy", at["read"] = "copy",
                      NEW i \in 0..chunk["write"] - 1, NEW j \in 0..chunk["read"] - 1
               PROVE  Nth(offset["write"], i) # Nth(offset["read"], j)
    BY DEF NoRace, Region
  <2>1. /\ offset["write"] \in Places /\ offset["read"] \in Places /\ m_dataAvailable \in 0..N
        /\ chunk["write"] \in 0..N /\ chunk["read"] \in 0..N
    BY DEF IInv, Typed, Sides
  <2>2. chunk["write"] <= N - m_dataAvailable /\ chunk["read"] <= m_dataAvailable
    BY DEF IInv, WithinRoom, Room, Sides
  <2>3. offset["write"] = Nth(offset["read"], m_dataAvailable)
    BY DEF IInv, OffsetsAgree, Position
  <2> QED BY <2>1, <2>2, <2>3, SizesAssumption DEF Nth, Places
<1> QED BY <1>1, Invariance, PTL

-----------------------------------------------------------------------------
(* The elements in the buffer are a bounded FIFO: every step writes at the    *)
(* end of Contents, reads or releases at its beginning, or leaves it alone.   *)

\* n elements of the array b from the place o on
ViewOf(b, o, n) == [i \in 1..n |-> b[Nth(o, i - 1)]]

\* The consumer releases what it has copied, and the producer does not write there.
TakenIsOldest ==
    /\ buffer \in [Places -> Values]
    /\ taken = IF at["read"] = "done" THEN ViewOf(buffer, offset["read"], chunk["read"]) ELSE <<>>

LEMMA NthIsPlace ==
  ASSUME NEW o \in Places, NEW n \in 0..N
  PROVE  Nth(o, n) \in Places
  BY SizesAssumption DEF Nth, Places

LEMMA NthOfNth ==
  ASSUME NEW o \in Places, NEW m \in Nat, NEW n \in Nat, m + n <= N
  PROVE  Nth(Nth(o, m), n) = Nth(o, m + n)
  BY SizesAssumption DEF Nth, Places

LEMMA ViewProperties ==
  ASSUME NEW b \in [Places -> Values], NEW o \in Places, NEW n \in 0..N
  PROVE  /\ ViewOf(b, o, n) \in Seq(Values) /\ Len(ViewOf(b, o, n)) = n
         /\ \A i \in 1..n : ViewOf(b, o, n)[i] = b[Nth(o, i - 1)]
<1>1. n \in Nat /\ \A i \in 1..n : i - 1 \in 0..N
  BY SizesAssumption
<1>2. \A i \in 1..n : b[Nth(o, i - 1)] \in Values
  BY <1>1, NthIsPlace
<1>3. ViewOf(b, o, n) \in Seq(Values)
  BY <1>1, <1>2, IsASeq DEF ViewOf
<1>4. DOMAIN ViewOf(b, o, n) = 1..n
  BY DEF ViewOf
<1>5. Len(ViewOf(b, o, n)) = n
  BY <1>1, <1>3, <1>4, LenProperties
<1> QED BY <1>3, <1>5 DEF ViewOf

\* What is written behind the first m elements is appended.
LEMMA ViewExtends ==
  ASSUME NEW b \in [Places -> Values], NEW o \in Places, NEW m \in Nat, NEW n \in Nat, m + n <= N
  PROVE  ViewOf(b, o, m + n) = ViewOf(b, o, m) \o ViewOf(b, Nth(o, m), n)
<1>1. m \in 0..N /\ n \in 0..N /\ m + n \in 0..N /\ Nth(o, m) \in Places
  BY SizesAssumption, NthIsPlace
<1> DEFINE u == ViewOf(b, o, m)  v == ViewOf(b, Nth(o, m), n)  w == ViewOf(b, o, m + n)
<1>2. /\ u \in Seq(Values) /\ v \in Seq(Values) /\ w \in Seq(Values)
      /\ Len(u) = m /\ Len(v) = n /\ Len(w) = m + n
      /\ \A i \in 1..m : u[i] = b[Nth(o, i - 1)]
      /\ \A i \in 1..n : v[i] = b[Nth(Nth(o, m), i - 1)]
      /\ \A i \in 1..m + n : w[i] = b[Nth(o, i - 1)]
  BY <1>1, ViewProperties
<1> HIDE DEF u, v, w
<1>3. /\ u \o v \in Seq(Values) /\ Len(u \o v) = m + n
      /\ \A i \in 1..m + n : (u \o v)[i] = IF i <= m THEN u[i] ELSE v[i - m]
  BY <1>2, ConcatProperties
<1>4. ASSUME NEW i \in 1..m + n PROVE w[i] = (u \o v)[i]
  <2>1. CASE i \in 1..m
    <3>1. i <= m
      BY <2>1
    <3>2. (u \o v)[i] = u[i]
      BY <3>1, <1>3
    <3> QED BY <2>1, <3>2, <1>2
  <2>2. CASE i \in m + 1..m + n
    <3>1. /\ i - m \in 1..n /\ (i - m) - 1 \in Nat /\ ~(i <= m)
          /\ m + ((i - m) - 1) = i - 1 /\ m + ((i - m) - 1) <= N
      BY <2>2, SizesAssumption
    <3>2. Nth(Nth(o, m), (i - m) - 1) = Nth(o, i - 1)
      BY <3>1, NthOfNth
    <3>3. (u \o v)[i] = v[i - m]
      BY <3>1, <1>3
    <3>4. v[i - m] = b[Nth(Nth(o, m), (i - m) - 1)]
      BY <3>1, <1>2
    <3> QED BY <3>2, <3>3, <3>4, <1>2
  <2>3. i \in 1..m \/ i \in m + 1..m + n
    OBVIOUS
  <2> QED BY <2>1, <2>2, <2>3
<1>5. w = u \o v
  BY <1>2, <1>3, <1>4, SeqEqual
<1> QED BY <1>5 DEF u, v, w

\* The first m elements, and the others.
LEMMA ViewParts ==
  ASSUME NEW b \in [Places -> Values], NEW o \in Places, NEW n \in 0..N, NEW m \in 0..n
  PROVE  /\ SubSeq(ViewOf(b, o, n), 1, m) = ViewOf(b, o, m)
         /\ SubSeq(ViewOf(b, o, n), m + 1, n) = ViewOf(b, Nth(o, m), n - m)
<1>1. /\ m \in 0..N /\ n - m \in 0..N /\ Nth(o, m) \in Places
      /\ m \in Int /\ n \in Int /\ m + 1 \in Int /\ m <= n
  BY SizesAssumption, NthIsPlace
<1> DEFINE u == ViewOf(b, o, m)  v == ViewOf(b, Nth(o, m), n - m)  w == ViewOf(b, o, n)
           first == SubSeq(w, 1, m)  rest == SubSeq(w, m + 1, n)
<1>2. /\ u \in Seq(Values) /\ v \in Seq(Values) /\ w \in Seq(Values)
      /\ Len(u) = m /\ Len(v) = n - m /\ Len(w) = n
      /\ \A i \in 1..m : u[i] = b[Nth(o, i - 1)]
      /\ \A i \in 1..n - m : v[i] = b[Nth(Nth(o, m), i - 1)]
      /\ \A i \in 1..n : w[i] = b[Nth(o, i - 1)]
  BY <1>1, ViewProperties
<1> HIDE DEF u, v, w
<1>3. \A i \in 1..n : w[i] \in Values
  BY <1>2, ElementOfSeq
<1>4. /\ first \in Seq(Values) /\ Len(first) = m
      /\ \A i \in 1..m : first[i] = w[i]
  <2>1. \A i \in 1..m : w[i] \in Values
    BY <1>1, <1>3
  <2>2. /\ first \in Seq(Values) /\ Len(first) = IF 1 <= m THEN m - 1 + 1 ELSE 0
        /\ \A i \in 1..m - 1 + 1 : first[i] = w[1 + i - 1]
    BY <1>1, <2>1, SubSeqProperties
  <2> HIDE DEF first
  <2>3. m - 1 + 1 = m /\ \A i \in 1..m : 1 + i - 1 = i
    BY <1>1
  <2> QED BY <1>1, <2>2, <2>3
<1>5. /\ rest \in Seq(Values) /\ Len(rest) = n - m
      /\ \A i \in 1..n - m : rest[i] = w[m + i]
  <2>1. \A i \in m + 1..n : w[i] \in Values
    BY <1>1, <1>3
  <2>2. /\ rest \in Seq(Values) /\ Len(rest) = IF m + 1 <= n THEN n - (m + 1) + 1 ELSE 0
        /\ \A i \in 1..n - (m + 1) + 1 : rest[i] = w[m + 1 + i - 1]
    BY <1>1, <2>1, SubSeqProperties
  <2> HIDE DEF rest
  <2>3. n - (m + 1) + 1 = n - m /\ \A i \in 1..n - m : m + 1 + i - 1 = m + i
    BY <1>1
  <2> QED BY <1>1, <2>2, <2>3
<1> HIDE DEF first, rest
<1>6. first = u
  <2>1. ASSUME NEW i \in 1..m PROVE first[i] = u[i]
    <3>1. i \in 1..n
      BY <1>1
    <3> QED BY <3>1, <1>2, <1>4
  <2> QED BY <1>2, <1>4, <2>1, SeqEqual
<1>7. rest = v
  <2>1. ASSUME NEW i \in 1..n - m PROVE rest[i] = v[i]
    <3>1. /\ i - 1 \in Nat /\ m \in Nat /\ m + (i - 1) <= N /\ m + i \in 1..n
          /\ m + (i - 1) = m + i - 1
      BY <1>1, SizesAssumption
    <3>2. Nth(Nth(o, m), i - 1) = Nth(o, m + i - 1)
      BY <3>1, NthOfNth
    <3>3. v[i] = b[Nth(Nth(o, m), i - 1)]
      BY <1>2
    <3>4. rest[i] = w[m + i] /\ w[m + i] = b[Nth(o, m + i - 1)]
      BY <3>1, <1>2, <1>5
    <3> QED BY <3>2, <3>3, <3>4
  <2> QED BY <1>2, <1>5, <2>1, SeqEqual
<1> QED BY <1>6, <1>7 DEF u, v, w, first, rest

\* The places the producer writes to are behind what is in the buffer.
LEMMA FillIsBehind ==
  ASSUME IInv, at["write"] = "copy", NEW n \in 0..chunk["write"], NEW i \in Nat, i < m_dataAvailable
  PROVE  Nth(Position("read"), i) \notin Region("write", n)
<1> SUFFICES ASSUME NEW j \in 0..n - 1 PROVE Nth(Position("read"), i) # Nth(offset["write"], j)
  BY DEF Region
<1> DEFINE p == Position("read")  c == chunk["write"]  d == m_dataAvailable
<1>1. d \in 0..N /\ c \in 0..N /\ c <= N - d
  BY SizesAssumption DEF IInv, Typed, WithinRoom, Room, Sides
<1>2. p \in Places
  BY SizesAssumption, NthIsPlace DEF IInv, Typed, Position, Sides
<1>3. offset["write"] = Nth(p, d)
  BY DEF IInv, OffsetsAgree, Position
<1> HIDE DEF p, c, d
<1>4. j \in Nat /\ d + j < N /\ i \in Nat /\ i < d
  BY <1>1, SizesAssumption DEF c, d
<1>5. d \in Nat /\ d + j <= N
  BY <1>1, <1>4, SizesAssumption
<1>6. Nth(Nth(p, d), j) = Nth(p, d + j)
  BY <1>2, <1>4, <1>5, NthOfNth
<1>7. Nth(p, i) # Nth(p, d + j)
  BY <1>1, <1>2, <1>4, <1>5, SizesAssumption DEF Nth, Places
<1> QED BY <1>3, <1>6, <1>7 DEF p

\* A step that leaves the elements, the counter, the consumer's position and its
\* copies alone
Quiet == /\ UNCHANGED <<buffer, m_dataAvailable, taken>>
         /\ Position("read")' = Position("read")
         /\ at'["read"] = "done" <=> at["read"] = "done"
         /\ at["read"] = "done" => offset'["read"] = offset["read"] /\ chunk'["read"] = chunk["read"]

LEMMA QuietStep ==
  ASSUME TakenIsOldest, Quiet
  PROVE  TakenIsOldest' /\ UNCHANGED <<Contents, taken>>
<1>1. Contents' = Contents
  BY DEF Quiet, Contents, Nth
<1>2. CASE at["read"] = "done"
  BY <1>1, <1>2 DEF Quiet, TakenIsOldest, ViewOf, Nth
<1>3. CASE at["read"] # "done"
  BY <1>1, <1>3 DEF Quiet, TakenIsOldest
<1> QED BY <1>2, <1>3

\* The steps of the producer and the consumer between transfers are quiet.
LEMMA QuietSteps ==
  ASSUME IInv, NEW s \in Sides,
         \/ Operate(s) \/ InPlace(s) \/ Advance(s) \/ Retest(s) \/ Wait(s)
         \/ Timeout(s) \/ SpuriousWakeup(s) \/ StopTest(s)
  PROVE  Quiet
<1>t. Typed /\ "read" \in Sides
  BY DEF IInv, Sides
<1>1. CASE Operate(s)
  <2>1. PICK h, size : size \in 0..SizeMax /\ GoOn(s, h, Room(s), offset[s], size)
    BY <1>1, SizesAssumption DEF Operate
  <2>2. Room(s) \in 0..N /\ offset[s] \in Places
    BY <1>t, SizesAssumption DEF Typed, Room
  <2>3. /\ at'[s] \in {"idle", "copy"}
        /\ \A u \in Sides \ {s} : at'[u] = at[u] /\ chunk'[u] = chunk[u]
    BY <1>t, <2>1, <2>2, GoOnWithinRoom
  <2> QED BY <1>1, <1>t, <2>3 DEF Operate, Quiet, Position
<1>2. CASE InPlace(s)
  BY <1>2, <1>t DEF InPlace, Typed, Quiet, Position, Sides
<1>3. CASE Advance(s)
  <2> DEFINE o == Advanced(offset[s], chunk[s])
             room == IF enough[s] THEN 0 ELSE ret[s]
  <2>1. /\ offset[s] \in Places /\ chunk[s] \in 0..N /\ chunk[s] <= left[s]
        /\ ret[s] \in 0..N /\ left[s] \in 0..SizeMax /\ at[s] = "move"
    BY <1>3, <1>t DEF Typed, IInv, WithinRoom, Advance
  <2>2. o = Nth(offset[s], chunk[s]) /\ o \in Places
    BY <2>1, AdvancedIsNth
  <2>3. room \in 0..N /\ left[s] - chunk[s] \in 0..SizeMax
    BY <2>1, SizesAssumption
  <2>4. /\ offset' = [offset EXCEPT ![s] = o]
        /\ GoOn(s, how[s], room, o, left[s] - chunk[s])
        /\ UNCHANGED <<buffer, m_dataAvailable, taken>>
    BY <1>3 DEF Advance
  <2>5. /\ at'[s] \in {"idle", "copy"}
        /\ \A u \in Sides \ {s} : at'[u] = at[u] /\ chunk'[u] = chunk[u]
    BY <1>t, <2>2, <2>3, <2>4, GoOnWithinRoom
  <2>6. CASE s = "read"
    BY <2>1, <2>2, <2>4, <2>5, <2>6, <1>t DEF Quiet, Position, Typed
  <2>7. CASE s # "read"
    BY <2>4, <2>5, <2>7, <1>t DEF Quiet, Position, Typed, Nth
  <2> QED BY <2>6, <2>7
<1>4. CASE Retest(s) \/ Wait(s)
  BY <1>4, <1>t DEF Retest, Wait, Test, Transfer, Typed, Quiet, Position, Nth
<1>5. CASE Timeout(s) \/ SpuriousWakeup(s) \/ StopTest(s)
  BY <1>5, <1>t DEF Timeout, SpuriousWakeup, StopTest, Wakes, Transfer, Typed, Quiet, Position, Nth
<1> QED BY <1>1, <1>2, <1>3, <1>4, <1>5

\* Contents is a view, of as many elements as the counter says.
LEMMA ContentsView ==
  ASSUME Typed
  PROVE  /\ Position("read") \in Places /\ m_dataAvailable \in 0..N
         /\ Contents = ViewOf(buffer, Position("read"), m_dataAvailable)
  BY SizesAssumption, NthIsPlace DEF Typed, Position, Sides, Contents, ViewOf

\* The producer fills free places: neither Contents nor the consumer's copies change.
LEMMA FillStep ==
  ASSUME IInv, TakenIsOldest, Fill
  PROVE  TakenIsOldest' /\ UNCHANGED <<Contents, taken>>
<1>1. PICK n \in 0..chunk["write"] : \E new \in [Region("write", n) -> Values] :
          /\ Transferred("write", n)
          /\ buffer' = [p \in Places |-> IF p \in DOMAIN new THEN new[p] ELSE buffer[p]]
          /\ UNCHANGED taken
  BY DEF Fill
<1>2. PICK new \in [Region("write", n) -> Values] :
          buffer' = [p \in Places |-> IF p \in DOMAIN new THEN new[p] ELSE buffer[p]]
  BY <1>1
<1>3. /\ at["write"] = "copy" /\ UNCHANGED <<m_dataAvailable, offset, taken>> /\ Typed
      /\ at'["read"] = at["read"] /\ chunk'["read"] = chunk["read"]
  BY <1>1 DEF Transferred, IInv, Typed, Sides
<1>4. buffer \in [Places -> Values] /\ buffer' \in [Places -> Values]
  BY <1>2 DEF TakenIsOldest
<1>5. Position("read") \in Places /\ m_dataAvailable \in 0..N
  BY <1>3, ContentsView
<1>6. ASSUME NEW i \in Nat, i < m_dataAvailable
      PROVE  buffer'[Nth(Position("read"), i)] = buffer[Nth(Position("read"), i)]
  <2>1. i \in 0..N
    BY <1>5, <1>6, SizesAssumption
  <2>2. Nth(Position("read"), i) \in Places
    BY <1>5, <2>1, NthIsPlace
  <2>3. Nth(Position("read"), i) \notin Region("write", n)
    BY <1>3, <1>6, FillIsBehind
  <2> QED BY <1>2, <2>2, <2>3
<1>7. Position("read")' = Position("read")
  BY <1>3 DEF Position, Nth
<1>8. Contents' = Contents
  <2>1. \A i \in 1..m_dataAvailable :
          buffer'[Nth(Position("read"), i - 1)] = buffer[Nth(Position("read"), i - 1)]
    BY <1>5, <1>6
  <2>2. Contents' = [i \in 1..m_dataAvailable |-> buffer'[Nth(Position("read"), i - 1)]]
    BY <1>3, <1>7 DEF Contents, Nth
  <2> QED BY <2>1, <2>2 DEF Contents
<1>9. CASE at["read"] = "done"
  <2>1. chunk["read"] <= m_dataAvailable /\ chunk["read"] \in 0..N
    BY <1>3, <1>9 DEF IInv, WithinRoom, Room, Sides, Typed
  <2>2. Position("read") = offset["read"]
    BY <1>9 DEF Position
  <2>3. ASSUME NEW i \in 1..chunk["read"]
        PROVE  buffer'[Nth(offset["read"], i - 1)] = buffer[Nth(offset["read"], i - 1)]
    <3>1. i - 1 \in Nat /\ i - 1 < m_dataAvailable
      BY <1>5, <2>1, SizesAssumption
    <3> QED BY <1>6, <2>2, <3>1
  <2>4. ViewOf(buffer', offset["read"], chunk["read"]) = ViewOf(buffer, offset["read"], chunk["read"])
    BY <2>3 DEF ViewOf
  <2>5. TakenIsOldest'
    BY <1>3, <1>4, <1>9, <2>4 DEF TakenIsOldest, ViewOf, Nth
  <2> QED BY <1>3, <1>8, <2>5
<1>10. CASE at["read"] # "done"
  <2>1. TakenIsOldest'
    BY <1>3, <1>4, <1>10 DEF TakenIsOldest
  <2> QED BY <1>3, <1>8, <2>1
<1> QED BY <1>9, <1>10

LEMMA NoElements ==
  ASSUME NEW b \in [Places -> Values], NEW o \in Places
  PROVE  ViewOf(b, o, 0) = <<>>
<1>1. ViewOf(b, o, 0) \in Seq(Values) /\ Len(ViewOf(b, o, 0)) = 0
  BY ViewProperties, SizesAssumption
<1> QED BY <1>1, EmptySeq

\* The consumer copies the oldest elements.
LEMMA DrainStep ==
  ASSUME IInv, TakenIsOldest, Drain
  PROVE  TakenIsOldest' /\ [Fifo!Look]_<<Contents, taken>>
<1>1. PICK n \in 0..chunk["read"] :
          /\ Transferred("read", n)
          /\ taken' = [i \in 1..n |-> buffer[Nth(offset["read"], i - 1)]]
          /\ UNCHANGED buffer
  BY DEF Drain
<1>2. /\ Typed /\ at["read"] = "copy" /\ at'["read"] = "done" /\ chunk'["read"] = n
      /\ UNCHANGED <<buffer, m_dataAvailable, offset>> /\ taken' = ViewOf(buffer, offset["read"], n)
  BY <1>1 DEF Transferred, IInv, Typed, Sides, ViewOf
<1>3. buffer \in [Places -> Values] /\ taken = <<>>
  BY <1>2 DEF TakenIsOldest
<1>4. /\ Position("read") = offset["read"] /\ Position("read")' = offset["read"]
      /\ offset["read"] \in Places /\ m_dataAvailable \in 0..N
      /\ Contents = ViewOf(buffer, offset["read"], m_dataAvailable) /\ Contents' = Contents
  BY <1>2, ContentsView DEF Position, Contents, Nth
<1>5. n \in 0..m_dataAvailable /\ n \in 0..N
  <2>1. chunk["read"] <= m_dataAvailable /\ chunk["read"] \in 0..N
    BY <1>2 DEF IInv, WithinRoom, Room, Sides, Typed
  <2> QED BY <1>4, <2>1, SizesAssumption
<1>6. TakenIsOldest'
  BY <1>2, <1>3 DEF TakenIsOldest, ViewOf, Nth
<1>7. CASE n = 0
  BY <1>2, <1>3, <1>4, <1>6, <1>7, NoElements
<1>8. CASE n # 0
  <2>1. n \in 1..Len(Contents)
    BY <1>3, <1>4, <1>5, <1>8, ViewProperties
  <2>2. taken' = SubSeq(Contents, 1, n)
    BY <1>2, <1>3, <1>4, <1>5, ViewParts
  <2> QED BY <1>3, <1>4, <1>6, <2>1, <2>2 DEF Fifo!Look
<1> QED BY <1>7, <1>8

\* haveWritten appends to the contents what lies behind them.
LEMMA PublishWriteStep ==
  ASSUME IInv, TakenIsOldest, Publish("write")
  PROVE  TakenIsOldest' /\ [Fifo!Put]_<<Contents, taken>>
<1> DEFINE p == Position("read")  c == chunk["write"]  d == m_dataAvailable
           xs == ViewOf(buffer, Nth(p, d), c)
<1>1. /\ Typed /\ at["write"] = "done" /\ "write" \in Sides /\ "read" \in Sides
      /\ buffer \in [Places -> Values]
  BY DEF IInv, Publish, Sides, TakenIsOldest
<1>2. /\ UNCHANGED <<buffer, offset, chunk, taken>> /\ m_dataAvailable' = d + c
      /\ at'["read"] = IF at["read"] = "blocked" THEN "woken" ELSE at["read"]
  BY <1>1, PublishWakes DEF Publish, Other
<1>3. p \in Places /\ d \in 0..N /\ Contents = ViewOf(buffer, p, d)
  BY <1>1, ContentsView
<1>4. c \in 0..N /\ c <= N - d
  BY <1>1 DEF IInv, Typed, WithinRoom, Room
<1>5. Position("read")' = p
  BY <1>2 DEF Position, Nth
<1>6. Contents' = ViewOf(buffer, p, d + c)
  BY <1>2, <1>5 DEF Contents, ViewOf, Nth
<1>7. TakenIsOldest'
  BY <1>1, <1>2 DEF TakenIsOldest, ViewOf, Nth
<1> HIDE DEF p, c, d
<1>8. c \in Nat /\ d \in Nat /\ d + c <= N /\ Nth(p, d) \in Places
  BY <1>3, <1>4, SizesAssumption, NthIsPlace
<1>9. CASE c = 0
  <2>1. d + c = d
    BY <1>3, <1>9, SizesAssumption
  <2> QED BY <1>2, <1>3, <1>6, <1>7, <2>1
<1>10. CASE c # 0
  <2>1. Contents' = Contents \o xs
    BY <1>1, <1>3, <1>6, <1>8, ViewExtends
  <2>2. Len(Contents) = d
    BY <1>1, <1>3, ViewProperties
  <2>3. c \in 1..N - Len(Contents)
    BY <1>4, <1>8, <1>10, <2>2, SizesAssumption
  <2>4. xs \in [1..c -> Values]
    <3>1. xs \in Seq(Values) /\ Len(xs) = c
      BY <1>1, <1>4, <1>8, ViewProperties
    <3> QED BY <3>1, LenProperties
  <2> HIDE DEF xs
  <2>5. Fifo!Put
    BY <1>2, <2>1, <2>3, <2>4 DEF Fifo!Put
  <2> QED BY <1>7, <2>5
<1> QED BY <1>9, <1>10

\* haveRead takes from the contents what the consumer has copied.
LEMMA PublishReadStep ==
  ASSUME IInv, TakenIsOldest, Publish("read")
  PROVE  TakenIsOldest' /\ Fifo!Release
<1> DEFINE o == offset["read"]  c == chunk["read"]  d == m_dataAvailable
<1>1. /\ Typed /\ at["read"] = "done" /\ "read" \in Sides
      /\ buffer \in [Places -> Values] /\ taken = ViewOf(buffer, o, c)
  BY DEF IInv, Publish, Sides, TakenIsOldest
<1>2. /\ UNCHANGED <<buffer, offset, chunk>> /\ m_dataAvailable' = d - c
      /\ taken' = <<>> /\ at'["read"] = "move"
  BY <1>1, PublishWakes DEF Publish
<1>3. o \in Places /\ d \in 0..N /\ Contents = ViewOf(buffer, o, d)
  BY <1>1, ContentsView DEF Position
<1>4. c \in 0..d /\ c \in 0..N
  <2>1. c \in 0..N /\ c <= d
    BY <1>1 DEF IInv, Typed, WithinRoom, Room
  <2> QED BY <1>3, <2>1, SizesAssumption
<1>5. Position("read")' = Nth(o, c)
  BY <1>2 DEF Position, Nth
<1>6. Contents' = ViewOf(buffer, Nth(o, c), d - c)
  BY <1>2, <1>5 DEF Contents, ViewOf, Nth
<1>7. TakenIsOldest'
  BY <1>1, <1>2 DEF TakenIsOldest
<1> HIDE DEF o, c, d
<1>8. Len(Contents) = d /\ Len(taken) = c
  BY <1>1, <1>3, <1>4, ViewProperties
<1>9. Contents' = SubSeq(Contents, c + 1, Len(Contents))
  <2>1. SubSeq(ViewOf(buffer, o, d), c + 1, d) = ViewOf(buffer, Nth(o, c), d - c)
    BY <1>1, <1>3, <1>4, ViewParts
  <2> QED BY <1>3, <1>6, <1>8, <2>1
<1>10. c \in 0..Len(taken)
  BY <1>4, <1>8, SizesAssumption
<1> QED BY <1>2, <1>7, <1>9, <1>10 DEF Fifo!Release

\* Every step of the ring is one of the FIFO or changes nothing that it sees.
LEMMA FifoSteps ==
  ASSUME IInv, TakenIsOldest, [Next]_vars
  PROVE  TakenIsOldest' /\ [Fifo!Next]_<<Contents, taken>>
<1>1. CASE UNCHANGED vars
  <2>1. Quiet
    BY <1>1 DEF vars, Quiet, Position, Nth
  <2> QED BY <2>1, QuietStep
<1>2. CASE Fill
  BY <1>2, FillStep
<1>3. CASE Drain
  BY <1>3, DrainStep DEF Fifo!Next
<1>4. ASSUME NEW s \in Sides, Publish(s)
      PROVE  TakenIsOldest' /\ [Fifo!Next]_<<Contents, taken>>
  BY <1>4, PublishWriteStep, PublishReadStep DEF Sides, Fifo!Next
<1>5. ASSUME NEW s \in Sides,
             \/ Operate(s) \/ InPlace(s) \/ Advance(s) \/ Retest(s) \/ Wait(s)
             \/ Timeout(s) \/ SpuriousWakeup(s) \/ StopTest(s)
      PROVE  TakenIsOldest' /\ [Fifo!Next]_<<Contents, taken>>
  <2>1. Quiet
    BY <1>5, QuietSteps
  <2> QED BY <2>1, QuietStep
<1> QED BY <1>1, <1>2, <1>3, <1>4, <1>5 DEF Next, Step

LEMMA FifoInit == Init => TakenIsOldest /\ Fifo!Init
<1> SUFFICES ASSUME Init PROVE TakenIsOldest /\ Fifo!Init
  OBVIOUS
<1>1. IInv /\ buffer \in [Places -> Values] /\ taken = <<>> /\ at["read"] = "idle" /\ m_dataAvailable = 0
  BY InitIInv DEF Init, Sides
<1>2. Position("read") \in Places /\ Contents = ViewOf(buffer, Position("read"), 0)
  BY <1>1, ContentsView DEF IInv
<1>3. Contents = <<>>
  BY <1>1, <1>2, NoElements
<1> QED BY <1>1, <1>3 DEF TakenIsOldest, Fifo!Init

\* A CircBufferSCSP of any size is a bounded FIFO: elements leave in the order they
\* came, unmodified, however the transfers of the two threads overlap and wrap.
THEOREM FifoSpecHolds == Spec => FifoSpec
<1>1. Init => IInv /\ TakenIsOldest /\ Fifo!Init
  BY InitIInv, FifoInit
<1>2. IInv /\ TakenIsOldest /\ [Next]_vars
        => IInv' /\ TakenIsOldest' /\ [Fifo!Next]_<<Contents, taken>>
  BY Steps, FifoSteps
<1> QED BY <1>1, <1>2, PTL DEF Spec, FifoSpec, Fifo!Spec

-----------------------------------------------------------------------------
(* Future                                                                    *)

\* A state with a continuation gives no second one.
StoredOnce == \A s \in States : cont[s] # None => future[s] = "moved"

\* The promise and the future of a state are made together.
Born == \A s \in States : promise[s] = "unborn" <=> future[s] = "unborn"

FutureInv == FutureTypeOK /\ ContinuationInOnePlace /\ StoredOnce /\ Born

LEMMA NoneIsNoState == None \notin States
  BY StatesAssumption DEF None

LEMMA FutureInitIInv == FutureInit => FutureInv
  BY NoneIsNoState DEF FutureInit, FutureInv, FutureTypeOK, ContinuationInOnePlace, StoredOnce, Born, Ways

\* Where continuations are changes only with the following variables.
LEMMA Elsewhere ==
  ASSUME ContinuationInOnePlace, UNCHANGED <<result, cont, promise, carry>>
  PROVE  ContinuationInOnePlace'
  BY DEF ContinuationInOnePlace

\* A waiting thread that sleeps or wakes up keeps its type.
LEMMA NotifyTypes ==
  ASSUME NEW s, NEW a \in [Threads -> BOOLEAN], NotifyWaiter(s, a)
  PROVE  asleep' \in [Threads -> BOOLEAN]
<1>1. CASE asleep' = a
  BY <1>1
<1>2. CASE \E t \in Threads : asleep' = [a EXCEPT ![t] = FALSE]
  BY <1>2
<1> QED BY <1>1, <1>2 DEF NotifyWaiter, Waiters

\* The thread that resolves a state leaves with its continuation.  The state is the
\* client's, or that of the continuation the thread has just run.
LEMMA ResolveStep ==
  ASSUME FutureInv, NEW t \in Threads, NEW s \in States, NEW r \in Results, Resolve(t, s, r),
         future' \in [States -> {"unborn", "client", "moved"}],
         \A u \in States : future[u] = "moved" => future'[u] = "moved",
         \/ promise[s] = "client" /\ carry[t] = None
         \/ carry[t] = s
  PROVE  ContinuationInOnePlace' /\ StoredOnce'
<1> USE NoneIsNoState DEF FutureInv
<1>1. /\ promise' = [promise EXCEPT ![s] = "gone"]
      /\ carry' = [carry EXCEPT ![t] = cont[s]]
      /\ cont' = [cont EXCEPT ![s] = None]
      /\ result' = [result EXCEPT ![s] = r]
  BY DEF Resolve
<1>2. \A u \in States : cont[u] # s
  BY DEF ContinuationInOnePlace, FutureTypeOK
<1>3. \A u \in Threads : u # t => carry[u] # s
  BY DEF ContinuationInOnePlace, FutureTypeOK
<1>4. \A u \in States : cont'[u] # None => cont'[u] = cont[u] /\ u # s
  BY <1>1 DEF FutureTypeOK
<1>5. StoredOnce'
  BY <1>4 DEF StoredOnce
<1>6. \A u \in States : cont'[u] # None => result'[u] = "unset"
  BY <1>1, <1>4 DEF ContinuationInOnePlace, FutureTypeOK
<1>7. ASSUME NEW n \in States
      PROVE  promise'[n] = "task" <=> (\E u \in States : cont'[u] = n) \/ (\E u \in Threads : carry'[u] = n)
  <2>1. CASE n = s
    BY <1>1, <1>2, <1>3, <2>1 DEF FutureTypeOK
  <2>2. CASE n # s /\ cont[s] = n
    <3>1. carry'[t] = n /\ promise'[n] = promise[n]
      BY <1>1, <2>2 DEF FutureTypeOK
    <3>2. promise[n] = "task"
      BY <2>2 DEF ContinuationInOnePlace
    <3> QED BY <3>1, <3>2
  <2>3. CASE n # s /\ cont[s] # n
    <3>1. promise'[n] = promise[n]
      BY <1>1, <2>3 DEF FutureTypeOK
    <3>2. (\E u \in States : cont'[u] = n) <=> (\E u \in States : cont[u] = n)
      BY <1>1, <2>3 DEF FutureTypeOK
    <3>3. carry[t] # n
      BY <2>3
    <3>4. (\E u \in Threads : carry'[u] = n) <=> (\E u \in Threads : carry[u] = n)
      BY <1>1, <2>3, <3>3 DEF FutureTypeOK
    <3> QED BY <3>1, <3>2, <3>4 DEF ContinuationInOnePlace
  <2> QED BY <2>1, <2>2, <2>3
<1>8. \A u, v \in States : cont'[u] # None /\ cont'[u] = cont'[v] => u = v
  BY <1>4 DEF ContinuationInOnePlace
<1>9. \A u, v \in Threads : carry'[u] # None /\ carry'[u] = carry'[v] => u = v
  BY <1>1 DEF ContinuationInOnePlace, FutureTypeOK
<1>10. \A u \in States, v \in Threads : cont'[u] # None => cont'[u] # carry'[v]
  BY <1>1, <1>4 DEF ContinuationInOnePlace, FutureTypeOK
<1> QED BY <1>5, <1>6, <1>7, <1>8, <1>9, <1>10 DEF ContinuationInOnePlace

\* then() stores a new continuation or carries it away.
LEMMA ThenStep ==
  ASSUME FutureInv, NEW t \in Threads, NEW s \in States, NEW n \in States, Then(t, s, n)
  PROVE  ContinuationInOnePlace' /\ StoredOnce'
<1> USE NoneIsNoState DEF FutureInv
<1>1. /\ future' = [future EXCEPT ![s] = "moved", ![n] = "client"]
      /\ promise' = [promise EXCEPT ![n] = "task"]
      /\ UNCHANGED result
      /\ carry[t] = None /\ cont[s] = None
  BY DEF Then, Idle, StoredOnce
<1>2. promise[n] = "unborn" /\ future[n] = "unborn" /\ n # s /\ cont[n] = None
  BY DEF Then, IsNext, Unborn, Born, StoredOnce
<1>3. /\ \A u \in States : cont[u] # n
      /\ \A u \in Threads : carry[u] # n
  BY <1>2 DEF ContinuationInOnePlace
<1>4. /\ future'[s] = "moved"
      /\ \A u \in States : future[u] = "moved" => future'[u] = "moved"
      /\ promise'[n] = "task" /\ \A u \in States : u # n => promise'[u] = promise[u]
  BY <1>1, <1>2 DEF FutureTypeOK
<1>5. CASE result[s] = "unset"
  <2>1. cont' = [cont EXCEPT ![s] = n] /\ UNCHANGED carry
    BY <1>5 DEF Then
  <2>2. cont'[s] = n /\ \A u \in States : u # s => cont'[u] = cont[u]
    BY <2>1 DEF FutureTypeOK
  <2>3. \A m \in States : promise'[m] = "task"
           <=> (\E u \in States : cont'[u] = m) \/ (\E u \in Threads : carry'[u] = m)
    BY <1>1, <1>3, <1>4, <2>1, <2>2 DEF ContinuationInOnePlace
  <2>4. ContinuationInOnePlace'
    BY <1>1, <1>3, <1>5, <2>1, <2>2, <2>3 DEF ContinuationInOnePlace
  <2> QED BY <1>4, <2>2, <2>4 DEF StoredOnce
<1>6. CASE result[s] # "unset"
  <2>1. carry' = [carry EXCEPT ![t] = n] /\ UNCHANGED cont
    BY <1>6 DEF Then
  <2>2. carry'[t] = n /\ \A u \in Threads : u # t => carry'[u] = carry[u]
    BY <2>1 DEF FutureTypeOK
  <2>3. \A m \in States : promise'[m] = "task"
           <=> (\E u \in States : cont'[u] = m) \/ (\E u \in Threads : carry'[u] = m)
    BY <1>1, <1>3, <1>4, <2>1, <2>2 DEF ContinuationInOnePlace
  <2>4. ContinuationInOnePlace'
    BY <1>1, <1>3, <2>1, <2>2, <2>3 DEF ContinuationInOnePlace
  <2> QED BY <1>4, <2>1, <2>4 DEF StoredOnce
<1> QED BY <1>5, <1>6

\* Every step of the clients and of the library keeps the types.
LEMMA TypeStep ==
  ASSUME FutureInv, [FutureNext]_futureVars
  PROVE  FutureTypeOK' /\ Born'
<1> USE NoneIsNoState DEF FutureInv
<1> DEFINE Goal == FutureTypeOK' /\ Born'
<1>1. ASSUME NEW t \in Threads, NEW s \in States, NEW r \in Results, Resolve(t, s, r),
             promise[s] # "unborn"
      PROVE  /\ result' \in [States -> Results \cup {"unset"}]
             /\ cont' \in [States -> States \cup {None}]
             /\ promise' \in [States -> {"unborn", "client", "task", "gone", "overwritten"}]
             /\ \A u \in States : promise'[u] = "unborn" <=> promise[u] = "unborn"
             /\ carry' \in [Threads -> States \cup {None}]
             /\ asleep' \in [Threads -> BOOLEAN]
  BY <1>1, NotifyTypes DEF FutureTypeOK, Resolve
<1>2. ASSUME NEW t \in Threads, NEW s \in States, NEW r \in Results, Fulfil(t, s, r) PROVE Goal
  BY <1>1, <1>2 DEF Fulfil, FutureTypeOK, Born
<1>3. ASSUME NEW t \in Threads, NEW r \in Results, RunReturns(t, r) PROVE Goal
  <2>1. carry[t] \in States /\ promise[carry[t]] = "task"
    BY <1>3 DEF RunReturns, FutureTypeOK, ContinuationInOnePlace
  <2> QED BY <1>1, <1>3, <2>1 DEF RunReturns, FutureTypeOK, Born
<1>4. ASSUME NEW t \in Threads, RunInner(t) PROVE Goal
  <2>1. carry[t] \in States /\ promise[carry[t]] = "task"
    BY <1>4 DEF RunInner, FutureTypeOK, ContinuationInOnePlace
  <2>2. result[awaits[t]] \in Results
    BY <1>4 DEF RunInner, FutureTypeOK
  <2> QED BY <1>1, <1>4, <2>1, <2>2 DEF RunInner, Leave, FutureTypeOK, Born
<1>5. ASSUME NEW s \in States, Create(s) \/ Overwrite(s) PROVE Goal
  BY <1>5 DEF Create, Overwrite, IsNext, Unborn, threads, FutureTypeOK, Born
<1>6. ASSUME NEW s \in States, NEW r \in Results, Make(s, r) PROVE Goal
  BY <1>6 DEF Make, IsNext, Unborn, threads, FutureTypeOK, Born
<1>7. ASSUME NEW t \in Threads, NEW s \in States, NEW n \in States, Then(t, s, n) PROVE Goal
  BY <1>7 DEF Then, IsNext, Unborn, FutureTypeOK, Born
<1>8. ASSUME NEW t \in Threads, NEW s \in States, (\E w \in Ways : Await(t, s, w)) \/ RunFuture(t, s) PROVE Goal
  BY <1>8 DEF Await, RunFuture, Ways, FutureTypeOK, Born
<1>9. ASSUME NEW t \in Threads, TestUnset(t) \/ TestSet(t) \/ WaitTimesOut(t) \/ WaiterWakesSpuriously(t) PROVE Goal
  <2>1. UNCHANGED <<result, cont, promise, future, carry>> /\ asleep' \in [Threads -> BOOLEAN]
    BY <1>9 DEF TestUnset, TestSet, WaitTimesOut, WaiterWakesSpuriously, FutureTypeOK
  <2>2. \/ UNCHANGED <<awaits, way>>
        \/ awaits' = [awaits EXCEPT ![t] = None] /\ way' = [way EXCEPT ![t] = "none"]
    BY <1>9 DEF TestUnset, TestSet, WaitTimesOut, WaiterWakesSpuriously, Leave
  <2>3. /\ awaits' \in [Threads -> States \cup {None}] /\ way' \in [Threads -> Ways \cup {"none"}]
        /\ \A u \in Threads : way'[u] = "none" <=> awaits'[u] = None
    BY <2>2 DEF FutureTypeOK
  <2> QED BY <2>1, <2>3 DEF FutureTypeOK, Born
<1>10. CASE UNCHANGED futureVars
  BY <1>10 DEF futureVars, threads, FutureTypeOK, Born
<1> QED BY <1>2, <1>3, <1>4, <1>5, <1>6, <1>7, <1>8, <1>9, <1>10 DEF FutureNext, Inside, Run, CallTask, Results

LEMMA FutureNextIInv == FutureInv /\ [FutureNext]_futureVars => FutureInv'
<1> SUFFICES ASSUME FutureInv, [FutureNext]_futureVars PROVE ContinuationInOnePlace' /\ StoredOnce'
  BY TypeStep DEF FutureInv
<1> USE NoneIsNoState DEF FutureInv
<1> DEFINE Goal == ContinuationInOnePlace' /\ StoredOnce'
<1>0. future' \in [States -> {"unborn", "client", "moved"}]
  BY TypeStep DEF FutureTypeOK
<1>1. ASSUME NEW t \in Threads, NEW s \in States, NEW r \in Results, Fulfil(t, s, r) PROVE Goal
  BY <1>0, <1>1, ResolveStep DEF Fulfil, Idle
<1>2. ASSUME NEW t \in Threads, NEW r \in Results, RunReturns(t, r) PROVE Goal
  <2>1. carry[t] \in States
    BY <1>2 DEF RunReturns, FutureTypeOK
  <2> QED BY <1>0, <1>2, <2>1, ResolveStep DEF RunReturns
<1>3. ASSUME NEW t \in Threads, RunInner(t) PROVE Goal
  <2>1. carry[t] \in States /\ result[awaits[t]] \in Results
    BY <1>3 DEF RunInner, FutureTypeOK
  <2> QED BY <1>0, <1>3, <2>1, ResolveStep DEF RunInner
<1>4. ASSUME NEW t \in Threads, NEW s \in States, NEW n \in States, Then(t, s, n) PROVE Goal
  BY <1>4, ThenStep
<1>5. ASSUME NEW s \in States, Create(s) PROVE Goal
  <2>1. promise[s] = "unborn" /\ future[s] = "unborn"
    BY <1>5 DEF Create, IsNext, Unborn, Born
  <2>2. ContinuationInOnePlace'
    BY <1>5, <2>1 DEF Create, threads, FutureTypeOK, ContinuationInOnePlace
  <2> QED BY <1>5, <2>1, <2>2 DEF Create, FutureTypeOK, StoredOnce
<1>6. ASSUME NEW s \in States, Overwrite(s) PROVE Goal
  BY <1>6 DEF Overwrite, threads, FutureTypeOK, ContinuationInOnePlace, StoredOnce
<1>7. ASSUME NEW s \in States, NEW r \in Results, Make(s, r) PROVE Goal
  <2>1. promise[s] = "unborn" /\ future[s] = "unborn" /\ cont[s] = None
    BY <1>7 DEF Make, IsNext, Unborn, Born, StoredOnce
  <2>2. ContinuationInOnePlace'
    BY <1>7, <2>1 DEF Make, threads, FutureTypeOK, ContinuationInOnePlace
  <2> QED BY <1>7, <2>1, <2>2 DEF Make, FutureTypeOK, StoredOnce
<1>8. ASSUME NEW t \in Threads, NEW s \in States, (\E w \in Ways : Await(t, s, w)) \/ RunFuture(t, s) PROVE Goal
  <2>1. ContinuationInOnePlace'
    BY <1>8, Elsewhere DEF Await, RunFuture
  <2>2. \A u \in States : future[u] = "moved" => future'[u] = "moved"
    BY <1>8 DEF Await, RunFuture, FutureTypeOK
  <2> QED BY <1>8, <2>1, <2>2 DEF Await, RunFuture, StoredOnce
<1>9. ASSUME NEW t \in Threads, TestUnset(t) \/ TestSet(t) \/ WaitTimesOut(t) \/ WaiterWakesSpuriously(t) PROVE Goal
  BY <1>9, Elsewhere DEF TestUnset, TestSet, WaitTimesOut, WaiterWakesSpuriously, StoredOnce
<1>10. CASE UNCHANGED futureVars
  BY <1>10, Elsewhere DEF futureVars, threads, StoredOnce
<1> QED BY <1>1, <1>2, <1>3, <1>4, <1>5, <1>6, <1>7, <1>8, <1>9, <1>10 DEF FutureNext, Inside, Run, CallTask, Results

\* Future.h, then() against the setters: a continuation is stored or carried, never
\* both, never twice, and never left behind in a resolved state.
THEOREM ContinuationInOnePlaceHolds == FutureSpec => []ContinuationInOnePlace
<1>1. FutureInv => ContinuationInOnePlace
  BY DEF FutureInv
<1> QED BY <1>1, FutureInitIInv, FutureNextIInv, PTL DEF FutureSpec
=============================================================================
