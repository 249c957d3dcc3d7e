-------------------------- MODULE UtilitiesProofs ---------------------------
(* For parts of every size: identifiers are unique and reserved are those of *)
(* the holders; waiting threads are released; a thread runs the function it  *)
(* was started with; optionals, trees and sets own what they should; caches, *)
(* maps and vectors of bits hold what was put into them.                     *)
EXTENDS Utilities, Sequences, FiniteSetTheorems, SequenceTheorems, TLAPS

-----------------------------------------------------------------------------
(* IdentifierPool: that no identifier is with two holders and that those of  *)
(* the holders are reserved need each other.  One is not given out twice     *)
(* because those of the holders are reserved, and releasing one leaves the   *)
(* others reserved because they are different.                               *)

IdsTyped == /\ m_reserved \subseteq Ids /\ m_tryNextId \in Ids
         /\ m_id \in [Holders -> Ids]
         /\ m_state \in [Holders -> BOOLEAN]

Distinct == \A h, k \in Holders : m_state[h] /\ m_state[k] /\ m_id[h] = m_id[k] => h = k
Reserved == m_reserved = {m_id[h] : h \in {k \in Holders : m_state[k]}}
IdsGood == IdsTyped /\ Distinct /\ Reserved

IdsInv == ~selfMoved => IdsGood

\* The cyclic search stays in the type.
LEMMA ModInIds ==
  ASSUME NEW n \in Nat
  PROVE  n % M \in Ids
  BY SizeAssumption DEF Ids

LEMMA IdsInit == Init => IdsGood
<1>1. 0 \in Ids
  BY SizeAssumption DEF Ids
<1> QED BY <1>1 DEF Init, IdsGood, IdsTyped, Distinct, Reserved

\* A reserved identifier is new.
LEMMA ReserveStep ==
  ASSUME IdsGood, NEW h \in Holders, Reserve(h)
  PROVE  IdsGood'
<1>1. PICK d \in Distances : LET id == (m_tryNextId + d) % M IN
         /\ m_reserved' = m_reserved \cup {id}
         /\ m_tryNextId' = (id + 1) % M
         /\ m_id' = [m_id EXCEPT ![h] = id]
  BY DEF Reserve
<1> DEFINE id == (m_tryNextId + d) % M
<1>2. m_tryNextId \in Nat /\ d \in Nat
  BY SizeAssumption DEF IdsGood, IdsTyped, Distances, Ids
<1>3. id \in Ids /\ (id + 1) % M \in Ids /\ id \notin m_reserved
  <2>1. id \in Ids
    BY <1>2, ModInIds
  <2>2. id + 1 \in Nat
    BY <2>1, SizeAssumption DEF Ids
  <2> QED BY <2>1, <2>2, ModInIds DEF Distances
<1> HIDE DEF id
<1>4. /\ m_reserved' = m_reserved \cup {id} /\ m_tryNextId' = (id + 1) % M
      /\ m_id' = [m_id EXCEPT ![h] = id]
      /\ m_state' = [m_state EXCEPT ![h] = TRUE]
  BY <1>1 DEF id, Reserve
<1>5. IdsTyped'
  BY <1>3, <1>4 DEF IdsGood, IdsTyped
<1>6. Distinct'
  BY <1>3, <1>4 DEF IdsGood, IdsTyped, Distinct, Reserved
<1>7. Reserved'
  <2>1. ~m_state[h]
    BY DEF Reserve
  <2>2. \A k \in Holders : m_state'[k] <=> m_state[k] \/ k = h
    BY <1>4 DEF IdsGood, IdsTyped
  <2>3. \A k \in Holders : m_id'[k] = IF k = h THEN id ELSE m_id[k]
    BY <1>4 DEF IdsGood, IdsTyped
  <2> QED BY <1>4, <2>1, <2>2, <2>3 DEF IdsGood, Reserved
<1> QED BY <1>5, <1>6, <1>7 DEF IdsGood

LEMMA ReleaseStep ==
  ASSUME IdsGood, NEW h \in Holders, Release(h)
  PROVE  IdsGood'
  BY DEF IdsGood, IdsTyped, Distinct, Reserved, Release, Recycled

LEMMA MoveAssignStep ==
  ASSUME IdsGood, NEW h \in Holders, NEW k \in Holders, MoveAssign(h, k)
  PROVE  IdsGood'
<1>1. IdsTyped'
  BY DEF IdsGood, IdsTyped, MoveAssign, Recycled
<1>2. Distinct'
  BY DEF IdsGood, IdsTyped, Distinct, MoveAssign
<1>3. Reserved'
  BY DEF IdsGood, IdsTyped, Distinct, Reserved, MoveAssign, Recycled
<1> QED BY <1>1, <1>2, <1>3 DEF IdsGood

\* Only a step from a good state leads to one in which no holder has ever been
\* assigned to itself.
LEMMA IdsStep ==
  ASSUME IdsInv, [Next]_vars
  PROVE  IdsInv'
<1>1. CASE ~selfMoved'
  <2>1. CASE UNCHANGED <<m_reserved, m_tryNextId, m_id, m_state, selfMoved>>
    BY <1>1, <2>1 DEF IdsInv, IdsGood, IdsTyped, Distinct, Reserved
  <2>2. CASE \E h \in Holders : Reserve(h) \/ Release(h) \/ SelfMove(h)
    <3>1. PICK h \in Holders : Reserve(h) \/ Release(h) \/ SelfMove(h)
      BY <2>2
    <3>2. CASE Reserve(h)
      <4>1. IdsGood
        BY <1>1, <3>2 DEF IdsInv, Reserve
      <4> QED BY <3>2, <4>1, ReserveStep DEF IdsInv
    <3>3. CASE Release(h)
      <4>1. IdsGood
        BY <1>1, <3>3 DEF IdsInv, Release
      <4> QED BY <3>3, <4>1, ReleaseStep DEF IdsInv
    <3>4. CASE SelfMove(h)
      BY <1>1, <3>4 DEF SelfMove
    <3> QED BY <3>1, <3>2, <3>3, <3>4
  <2>3. CASE \E h, k \in Holders : MoveAssign(h, k)
    <3>1. PICK h \in Holders, k \in Holders : MoveAssign(h, k)
      BY <2>3
    <3>2. IdsGood
      BY <1>1, <3>1 DEF IdsInv, MoveAssign
    <3> QED BY <3>1, <3>2, MoveAssignStep DEF IdsInv
  <2> QED BY <2>1, <2>2, <2>3 DEF Next, vars, holders, Exhausted, DestroyPool
<1> QED BY <1>1 DEF IdsInv

LEMMA IdsInvariance == Spec => []IdsInv
<1>1. Init => IdsInv
  BY IdsInit DEF IdsInv
<1>2. IdsInv /\ [Next]_vars => IdsInv'
  BY IdsStep
<1> QED BY <1>1, <1>2, PTL DEF Spec

\* Identifiers are unique, however holders are moved between places, recycle() always
\* finds what it erases, and nothing stays reserved for nobody.
THEOREM IdsHeldHolds == Spec => []IdsHeld
<1>1. IdsInv => IdsDistinct
  BY DEF IdsInv, IdsDistinct, IdsGood, Distinct
<1>2. IdsInv => ReservedAreHeld
  BY DEF IdsInv, ReservedAreHeld, IdsGood, Reserved
<1>3. IdsInv => IdsHeld
  BY <1>1, <1>2 DEF IdsHeld
<1> QED BY <1>3, IdsInvariance, PTL

-----------------------------------------------------------------------------
(* Latch, SimpleWait and Stoppable: the property is inductive, with types.    *)

Kinds == Wait!Flag \cup {"latch"}
WaitTyped == /\ m_counter \in Nat
             /\ asleep \subseteq Threads
             /\ waits \in [Threads -> Kinds \cup {"none"}]
             /\ left \in [Threads -> Kinds \cup {"none", "stopped"}]
WaitInv == /\ WaitTyped
           /\ \A t \in asleep : waits[t] # "none"
           /\ m_stopRequested => asked
           /\ Wait!WaitersAreReleased

LEMMA WaitInit == Wait!Init => WaitInv
  BY CountAssumption
     DEF WaitInv, WaitTyped, Kinds, Wait!Init, Wait!Flag, Wait!Holds, Wait!WaitersAreReleased

LEMMA TestStep ==
  ASSUME WaitInv, NEW t \in Threads, NEW what \in Kinds, Wait!Test(t, what),
         t \notin asleep \/ waits[t] = what,
         UNCHANGED <<m_counter, m_isReady, m_stopRequested, last, asked>>
  PROVE  WaitInv'
<1>1. CASE Wait!Holds(what)
  <2>1. t \notin asleep
    BY <1>1 DEF WaitInv, Wait!WaitersAreReleased
  <2> QED BY <1>1, <2>1
     DEF WaitInv, WaitTyped, Kinds, Wait!Flag, Wait!Holds, Wait!Test, Wait!Leaves, Wait!WaitersAreReleased
<1>2. CASE ~Wait!Holds(what)
  BY <1>2
     DEF WaitInv, WaitTyped, Kinds, Wait!Flag, Wait!Holds, Wait!Test, Wait!Leaves, Wait!WaitersAreReleased
<1> QED BY <1>1, <1>2

LEMMA WaitStep == WaitInv /\ Wait!Next => WaitInv'
<1> SUFFICES ASSUME WaitInv, Wait!Next PROVE WaitInv'
  OBVIOUS
<1> USE DEF WaitInv, WaitTyped, Kinds, Wait!Flag, Wait!Holds, Wait!WaitersAreReleased, Wait!NotifyAll, Wait!Waiters
<1>1. CASE Wait!CountDown
  <2>1. CASE m_counter = 1
    BY <1>1, <2>1 DEF Wait!CountDown
  <2>2. CASE m_counter # 1
    BY <1>1, <2>2 DEF Wait!CountDown
  <2> QED BY <2>1, <2>2
<1>2. CASE Wait!NotifyReady
  BY <1>2 DEF Wait!NotifyReady
<1>3. CASE Wait!Stop
  BY <1>3 DEF Wait!Stop
<1>4. CASE Wait!Reset
  BY <1>4 DEF Wait!Reset
<1>5. ASSUME NEW t \in Threads, Wait!CountDownAndWait(t) PROVE WaitInv'
  <2>1. CASE m_counter = 1
    BY <1>5, <2>1 DEF Wait!CountDownAndWait, Wait!Leaves
  <2>2. CASE m_counter # 1
    BY <1>5, <2>2 DEF Wait!CountDownAndWait, Wait!Leaves
  <2> QED BY <2>1, <2>2
<1>6. ASSUME NEW t \in Threads, Wait!Resume(t) PROVE WaitInv'
  BY <1>6, TestStep DEF Wait!Resume
<1>7. ASSUME NEW t \in Threads, Wait!SpuriousWakeup(t) PROVE WaitInv'
  BY <1>7 DEF Wait!SpuriousWakeup
<1>8. ASSUME NEW t \in Threads, Wait!Timeout(t) PROVE WaitInv'
  <2>1. CASE m_stopRequested
    BY <1>8, <2>1 DEF Wait!Timeout, Wait!Leaves
  <2>2. CASE ~m_stopRequested
    BY <1>8, <2>2, TestStep DEF Wait!Timeout
  <2> QED BY <2>1, <2>2
<1>9. ASSUME NEW t \in Threads, NEW what \in Wait!Flag \cup {"latch"}, Wait!Wait(t, what) PROVE WaitInv'
  BY <1>9, TestStep DEF Wait!Wait
<1> QED BY <1>1, <1>2, <1>3, <1>4, <1>5, <1>6, <1>7, <1>8, <1>9 DEF Wait!Next

-----------------------------------------------------------------------------
(* NoStartThread: the thread and its owner know what the shared state says,   *)
(* and the function is not replaced after the start.                         *)

LateInv ==
  /\ promise \in BOOLEAN /\ joinable \in BOOLEAN
  /\ promise <=> state = "unset"
  /\ state \in {"unset", "start", "stop"}
  /\ thread = "call" => state = "start"
  /\ thread = "ended" => state # "unset"
  /\ state = "start" => chosen = m_func
  /\ Late!RunsWhenStarted

LEMMA LateInit == Late!Init => LateInv
  BY DEF LateInv, Late!Init, Late!RunsWhenStarted

LEMMA LateStep == LateInv /\ Late!Next => LateInv'
<1> SUFFICES ASSUME LateInv, Late!Next PROVE LateInv'
  OBVIOUS
<1> USE DEF LateInv, Late!RunsWhenStarted
<1>1. ASSUME NEW f \in Functions \cup {NoFunction}, Late!SetFunction(f) PROVE LateInv'
  BY <1>1 DEF Late!SetFunction
<1>2. CASE Late!Start
  BY <1>2 DEF Late!Start, Late!Resolve
<1>3. ASSUME NEW next \in {"stops", "destroys"}, Late!Stop(next) PROVE LateInv'
  BY <1>3 DEF Late!Stop, Late!Resolve
<1>4. CASE Late!Join
  BY <1>4 DEF Late!Join
<1>5. CASE Late!Joined
  BY <1>5 DEF Late!Joined
<1>6. CASE Late!Take
  BY <1>6 DEF Late!Take
<1>7. CASE Late!GetValue
  BY <1>7 DEF Late!GetValue
<1>8. CASE Late!Call
  BY <1>8 DEF Late!Call
<1> QED BY <1>1, <1>2, <1>3, <1>4, <1>5, <1>6, <1>7, <1>8 DEF Late!Next

-----------------------------------------------------------------------------
(* SharedItemSet: what the client has is alive, what is alive has a pointer,  *)
(* and what has one to itself is in the set or was refused.                  *)

SetInv ==
  /\ handles \in [Items -> Nat]
  /\ alive \subseteq Items /\ m_set \subseteq Items
  /\ \A i \in Items : handles[i] > 0 => i \in alive
  /\ \A i \in alive : i \in m_selfPtr \/ handles[i] > 0
  /\ alive \cap m_selfPtr \subseteq m_set \cup refused
  /\ Set!ItemsAgree

LEMMA SetInit == Set!Init => SetInv
  BY DEF SetInv, Set!Init, Set!ItemsAgree

LEMMA SetStep == SetInv /\ Set!Next => SetInv'
<1> SUFFICES ASSUME SetInv, Set!Next PROVE SetInv'
  OBVIOUS
<1> USE DEF SetInv, Set!ItemsAgree, Set!Equal, Set!Counts
<1>1. ASSUME NEW i \in Items, Set!CopyHandle(i) PROVE SetInv'
  BY <1>1 DEF Set!CopyHandle
<1>2. ASSUME NEW i \in Items, Set!DropHandle(i) PROVE SetInv'
  BY <1>2 DEF Set!DropHandle
<1>3. ASSUME NEW i \in Items, Set!Insert(i) PROVE SetInv'
  BY <1>3 DEF Set!Insert
<1>4. ASSUME NEW out, Set!Erase(out) PROVE SetInv'
  BY <1>4 DEF Set!Erase
<1>5. ASSUME NEW i \in Items, Set!Take(i) PROVE SetInv'
  BY <1>5 DEF Set!Take
<1>6. ASSUME NEW i \in Items, Set!Retrieve(i) PROVE SetInv'
  BY <1>6 DEF Set!Retrieve
<1> QED BY <1>1, <1>2, <1>3, <1>4, <1>5, <1>6 DEF Set!Next

-----------------------------------------------------------------------------
(* Optional: the flag, the union and the lifetimes agree until T throws where *)
(* the base is destroyed.                                                    *)

\* What can be in the union, and what an optional value would hold
Data == Values \cup {Opt!Moved, Opt!Dead}
Held == Values \cup {Opt!Moved, Opt!Empty}
OptTyped ==
  /\ exists \subseteq Optionals
  /\ m_containsValue \in [Optionals -> BOOLEAN]
  /\ m_value \in [Optionals -> Data]
  /\ lifetimes \in [Optionals -> Int]
  /\ holds \in [Optionals -> Held]
OptInv == ~broken => OptTyped /\ Opt!LifetimesAgree

LEMMA Marks == /\ Opt!Moved \in Int /\ Opt!Dead \in Int /\ Opt!Empty \in Int
               /\ Opt!Dead < Opt!Moved /\ Opt!Empty < Opt!Moved
               /\ \A v \in Values : v \in Int /\ Opt!Moved < v
  BY ValuesAssumption DEF Opt!Moved, Opt!Dead, Opt!Empty

LEMMA MovedHasValue == Opt!Moved # Opt!Dead /\ Opt!Dead \notin Values
  BY Marks

LEMMA OptInit == Opt!Init => OptInv
  BY DEF Opt!Init, OptInv, OptTyped, Data, Held, Opt!LifetimesAgree

\* One optional changes, to agree with itself.
LEMMA StorageStep ==
  ASSUME OptTyped, Opt!LifetimesAgree, NEW o \in Optionals,
         NEW contains \in BOOLEAN, NEW value \in Data, NEW n \in Int, NEW hold \in Held,
         Opt!Storage(o, contains, value, n),
         holds' = [holds EXCEPT ![o] = hold],
         exists' \subseteq Optionals,
         \A p \in Optionals \ {o} : p \in exists' <=> p \in exists,
         contains <=> value # Opt!Dead,
         lifetimes[o] + n = IF contains THEN 1 ELSE 0,
         o \in exists' => hold = IF contains THEN value ELSE Opt!Empty,
         o \notin exists' => ~contains
  PROVE  OptTyped' /\ Opt!LifetimesAgree'
<1>1. OptTyped'
  BY DEF OptTyped, Opt!Storage
<1>2. ASSUME NEW p \in Optionals
      PROVE  /\ lifetimes'[p] = IF m_containsValue'[p] THEN 1 ELSE 0
             /\ m_containsValue'[p] <=> m_value'[p] # Opt!Dead
             /\ p \in exists' => holds'[p] = IF m_containsValue'[p] THEN m_value'[p] ELSE Opt!Empty
             /\ p \notin exists' => ~m_containsValue'[p]
  <2>1. CASE p = o
    BY <2>1 DEF OptTyped, Opt!Storage
  <2>2. CASE p # o
    BY <2>2 DEF OptTyped, Opt!LifetimesAgree, Opt!Storage
  <2> QED BY <2>1, <2>2
<1> QED BY <1>1, <1>2 DEF Opt!LifetimesAgree

LEMMA EmptiedStep ==
  ASSUME OptTyped, Opt!LifetimesAgree, NEW o \in Optionals, NEW n \in Int,
         Opt!Storage(o, FALSE, Opt!Dead, n),
         lifetimes[o] + n = 0,
         holds' = [holds EXCEPT ![o] = Opt!Empty],
         exists' \subseteq Optionals,
         \A p \in Optionals \ {o} : p \in exists' <=> p \in exists
  PROVE  OptTyped' /\ Opt!LifetimesAgree'
<1>1. Opt!Dead \in Data /\ Opt!Empty \in Held
  BY DEF Data, Held
<1> QED BY <1>1, StorageStep

LEMMA FilledStep ==
  ASSUME OptTyped, Opt!LifetimesAgree, NEW o \in Optionals, NEW n \in Int,
         NEW value \in Values \cup {Opt!Moved},
         Opt!Storage(o, TRUE, value, n),
         lifetimes[o] + n = 1,
         holds' = [holds EXCEPT ![o] = value],
         exists' \subseteq Optionals, o \in exists',
         \A p \in Optionals \ {o} : p \in exists' <=> p \in exists
  PROVE  OptTyped' /\ Opt!LifetimesAgree'
<1>1. value \in Data /\ value \in Held /\ value # Opt!Dead
  BY MovedHasValue DEF Data, Held
<1> QED BY <1>1, StorageStep

LEMMA OptStep == OptInv /\ Opt!Next => OptInv'
<1> SUFFICES ASSUME OptTyped, Opt!LifetimesAgree, Opt!Next, ~broken' PROVE OptTyped' /\ Opt!LifetimesAgree'
  BY DEF OptInv, Opt!Next
<1> DEFINE Good == OptTyped' /\ Opt!LifetimesAgree'
<1>0. ASSUME NEW o \in Optionals
      PROVE  /\ Opt!ResetBy(o) \in Int /\ lifetimes[o] + Opt!ResetBy(o) = 0
             /\ 1 + Opt!ResetBy(o) \in Int /\ lifetimes[o] + (1 + Opt!ResetBy(o)) = 1
             /\ o \notin exists => lifetimes[o] + 0 = 0 /\ lifetimes[o] + 1 = 1
             /\ m_containsValue[o] => lifetimes[o] + 0 = 1
             /\ ~m_containsValue[o] => lifetimes[o] + 1 = 1
  BY DEF Opt!LifetimesAgree, Opt!ResetBy
<1>a. 0 \in Int /\ 1 \in Int
  OBVIOUS
<1>b. ASSUME NEW p \in exists
      PROVE  /\ m_containsValue[p] => /\ m_value[p] \in Values \cup {Opt!Moved}
                                       /\ holds[p] = m_value[p]
             /\ ~m_containsValue[p] => holds[p] = Opt!Empty
  BY DEF OptTyped, Data, Opt!LifetimesAgree
<1>d. Opt!Moved \in Data /\ Opt!Moved \in Held
  BY DEF Data, Held
<1>c. exists \subseteq Optionals
  BY DEF OptTyped
<1>1. ASSUME NEW o \in Optionals, Opt!ConstructEmpty(o) PROVE Good
  BY <1>0, <1>1, <1>a, <1>c, EmptiedStep DEF Opt!ConstructEmpty
<1>2. ASSUME NEW o \in Optionals, Opt!Destroy(o) PROVE Good
  BY <1>0, <1>2, <1>c, EmptiedStep DEF Opt!Destroy
<1>3. ASSUME NEW o \in Optionals, Opt!Reset(o) PROVE Good
  BY <1>0, <1>3, <1>c, EmptiedStep DEF Opt!Reset, Opt!Kept
<1>4. ASSUME NEW o \in Optionals, Opt!TakeValueOr(o) PROVE Good
  BY <1>0, <1>4, <1>a, <1>c, FilledStep DEF Opt!TakeValueOr, Opt!Kept
<1>5. ASSUME NEW o \in Optionals, NEW v \in Values, Opt!ConstructFrom(o, v) PROVE Good
  BY <1>0, <1>5, <1>a, <1>c, FilledStep DEF Opt!ConstructFrom
<1>6. ASSUME NEW o \in Optionals, NEW v \in Values, Opt!Emplace(o, v) PROVE Good
  BY <1>0, <1>6, <1>c, FilledStep DEF Opt!Emplace, Opt!Kept
<1>7. ASSUME NEW o \in Optionals, NEW p \in Optionals, Opt!CopyConstruct(o, p) PROVE Good
  <2>1. CASE m_containsValue[p]
    BY <1>0, <1>7, <1>a, <1>b, <1>c, <2>1, FilledStep DEF Opt!CopyConstruct
  <2>2. CASE ~m_containsValue[p]
    BY <1>0, <1>7, <1>a, <1>b, <1>c, <2>2, EmptiedStep DEF Opt!CopyConstruct
  <2> QED BY <2>1, <2>2
<1>8. ASSUME NEW o \in Optionals, NEW p \in Optionals, Opt!ConstructThrows(o, p) PROVE Good
  BY <1>8 DEF Opt!ConstructThrows
<1>9. ASSUME NEW o \in Optionals, NEW p \in Optionals, Opt!MoveConstruct(o, p) PROVE Good
  <2>1. CASE m_containsValue[p]
    <3>1. OptTyped'
      <4>1. exists' \subseteq Optionals
        BY <1>9 DEF Opt!MoveConstruct, OptTyped
      <4>2. m_containsValue' \in [Optionals -> BOOLEAN]
        BY <1>9, <2>1 DEF Opt!MoveConstruct, OptTyped
      <4>4. lifetimes' \in [Optionals -> Int]
        <5>1. \A i \in Optionals : lifetimes[i] \in Int /\ lifetimes[i] + 1 \in Int
          BY DEF OptTyped
        <5> QED BY <1>9, <2>1, <5>1 DEF Opt!MoveConstruct, OptTyped
      <4>3. m_value' \in [Optionals -> Data] /\ holds' \in [Optionals -> Held]
        BY <1>9, <1>d, <2>1 DEF Opt!MoveConstruct, OptTyped
      <4> QED BY <4>1, <4>2, <4>3, <4>4 DEF OptTyped
    <3>2. Opt!LifetimesAgree'
      BY <1>9, <2>1, MovedHasValue DEF Opt!MoveConstruct, OptTyped, Opt!LifetimesAgree
    <3> QED BY <3>1, <3>2
  <2>2. CASE ~m_containsValue[p]
    BY <1>0, <1>9, <1>a, <1>c, <2>2, EmptiedStep DEF Opt!MoveConstruct
  <2> QED BY <2>1, <2>2
<1>10. ASSUME NEW o \in Optionals, NEW p \in Optionals, Opt!CopyAssign(o, p) PROVE Good
  <2>1. CASE m_containsValue[p]
    <3> DEFINE n == IF m_containsValue[o] THEN 0 ELSE 1
    <3>1. n \in Int /\ lifetimes[o] + n = 1
      BY <1>0
    <3>2. Opt!Storage(o, TRUE, m_value[p], n)
      BY <1>10, <2>1 DEF Opt!CopyAssign
    <3> HIDE DEF n
    <3> QED BY <1>10, <1>b, <1>c, <2>1, <3>1, <3>2, FilledStep DEF Opt!CopyAssign, Opt!Kept
  <2>2. CASE ~m_containsValue[p]
    BY <1>0, <1>10, <1>b, <1>c, <2>2, EmptiedStep DEF Opt!CopyAssign, Opt!Kept
  <2> QED BY <2>1, <2>2
<1>11. ASSUME NEW o \in Optionals, NEW p \in Optionals, Opt!MoveAssign(o, p) PROVE Good
  <2>1. CASE m_containsValue[p]
    <3>1. OptTyped'
      <4>1. exists' \subseteq Optionals
        BY <1>11 DEF Opt!MoveAssign, Opt!Kept, OptTyped
      <4>2. m_containsValue' \in [Optionals -> BOOLEAN]
        BY <1>11, <2>1 DEF Opt!MoveAssign, OptTyped
      <4>4. lifetimes' \in [Optionals -> Int]
        <5>1. \A i \in Optionals : lifetimes[i] \in Int /\ lifetimes[i] + 1 \in Int
          BY DEF OptTyped
        <5> QED BY <1>11, <2>1, <5>1 DEF Opt!MoveAssign, OptTyped
      <4>3. m_value' \in [Optionals -> Data] /\ holds' \in [Optionals -> Held]
        BY <1>11, <1>d, <2>1 DEF Opt!MoveAssign, OptTyped
      <4> QED BY <4>1, <4>2, <4>3, <4>4 DEF OptTyped
    <3>2. Opt!LifetimesAgree'
      BY <1>11, <2>1, MovedHasValue DEF Opt!MoveAssign, Opt!Kept, OptTyped, Opt!LifetimesAgree
    <3> QED BY <3>1, <3>2
  <2>2. CASE ~m_containsValue[p]
    BY <1>0, <1>11, <1>c, <2>2, EmptiedStep DEF Opt!MoveAssign, Opt!Kept
  <2> QED BY <2>1, <2>2
<1>12. ASSUME NEW o \in Optionals, NEW p \in Optionals, Opt!Swap(o, p) PROVE Good
  BY <1>12 DEF Opt!Swap, Opt!Kept, OptTyped, Opt!LifetimesAgree
<1> HIDE DEF Good
<1> QED BY <1>1, <1>2, <1>3, <1>4, <1>5, <1>6, <1>7, <1>8, <1>9, <1>10, <1>11, <1>12 DEF Opt!Next, Opt!EmplaceThrows, Good

LEMMA OptAgrees == OptInv => Opt!OptionalAgrees
<1> SUFFICES ASSUME OptTyped, Opt!LifetimesAgree PROVE Opt!ValueOrAgrees /\ Opt!ComparisonsAgree
  BY DEF OptInv, Opt!OptionalAgrees
<1>0. \A o \in exists : Opt!Has(o) \in BOOLEAN
  BY DEF OptTyped, Opt!Has
<1>1. \A o \in exists : /\ holds[o] = IF Opt!Has(o) THEN m_value[o] ELSE Opt!Empty
                        /\ Opt!Has(o) => m_value[o] \in Int /\ Opt!Empty < m_value[o]
  <2>1. ASSUME NEW o \in exists, m_containsValue[o] PROVE m_value[o] \in Values \cup {Opt!Moved}
    BY <2>1 DEF OptTyped, Data, Opt!LifetimesAgree
  <2>2. \A d \in Values \cup {Opt!Moved} : d \in Int /\ Opt!Empty < d
    BY Marks
  <2> QED BY <2>1, <2>2 DEF OptTyped, Opt!LifetimesAgree, Opt!Has
<1>2. Opt!ValueOrAgrees
  BY <1>1, Marks DEF Opt!ValueOrAgrees, Opt!ValueOr, Opt!Has
<1>3. ASSUME NEW o \in exists, NEW p \in exists
      PROVE  Opt!Order(Opt!EQ(o, p), Opt!NE(o, p), Opt!LT(o, p), Opt!LE(o, p), Opt!GT(o, p), Opt!GE(o, p),
                       holds[o], holds[p])
  <2>1. CASE Opt!Has(o) = TRUE /\ Opt!Has(p) = TRUE
    BY <1>1, <2>1, Marks DEF Opt!Order, Opt!EQ, Opt!NE, Opt!LT, Opt!LE, Opt!GT, Opt!GE
  <2>2. CASE Opt!Has(o) = TRUE /\ Opt!Has(p) = FALSE
    <3>1. ~Opt!EQ(o, p) /\ Opt!NE(o, p) /\ ~Opt!LT(o, p) /\ ~Opt!LE(o, p) /\ Opt!GT(o, p) /\ Opt!GE(o, p)
      BY <2>2, Zenon DEF Opt!EQ, Opt!NE, Opt!LT, Opt!LE, Opt!GT, Opt!GE
    <3>2. holds[p] < holds[o] /\ holds[p] <= holds[o] /\ holds[o] # holds[p] /\ ~(holds[o] < holds[p]) /\ ~(holds[o] <= holds[p])
      BY <1>1, <2>2, Marks
    <3> QED BY <3>1, <3>2, Zenon DEF Opt!Order
  <2>3. CASE Opt!Has(o) = FALSE /\ Opt!Has(p) = TRUE
    <3>1. ~Opt!EQ(o, p) /\ Opt!NE(o, p) /\ Opt!LT(o, p) /\ Opt!LE(o, p) /\ ~Opt!GT(o, p) /\ ~Opt!GE(o, p)
      BY <2>3, Zenon DEF Opt!EQ, Opt!NE, Opt!LT, Opt!LE, Opt!GT, Opt!GE
    <3>2. holds[o] < holds[p] /\ holds[o] <= holds[p] /\ holds[o] # holds[p] /\ ~(holds[p] < holds[o]) /\ ~(holds[p] <= holds[o])
      BY <1>1, <2>3, Marks
    <3> QED BY <3>1, <3>2, Zenon DEF Opt!Order
  <2>4. CASE Opt!Has(o) = FALSE /\ Opt!Has(p) = FALSE
    <3>1. Opt!EQ(o, p) /\ ~Opt!NE(o, p) /\ ~Opt!LT(o, p) /\ Opt!LE(o, p) /\ ~Opt!GT(o, p) /\ Opt!GE(o, p)
      BY <2>4, Zenon DEF Opt!EQ, Opt!NE, Opt!LT, Opt!LE, Opt!GT, Opt!GE
    <3>2. holds[o] = holds[p] /\ ~(holds[o] < holds[p]) /\ holds[o] <= holds[p] /\ ~(holds[p] < holds[o]) /\ holds[p] <= holds[o]
      BY <1>1, <2>4, Marks
    <3> QED BY <3>1, <3>2, Zenon DEF Opt!Order
  <2> QED BY <1>0, <2>1, <2>2, <2>3, <2>4
<1>4. ASSUME NEW o \in exists PROVE Opt!OrderOf(Opt!NullCompare(o), holds[o], Opt!Empty)
  <2> DEFINE c == Opt!NullCompare(o)
  <2>1. CASE Opt!Has(o) = TRUE
    <3>1. c = [eq |-> FALSE, ne |-> TRUE, lt |-> FALSE, le |-> FALSE, gt |-> TRUE, ge |-> TRUE]
      BY <2>1, Zenon DEF Opt!NullCompare
    <3>2. /\ Opt!Empty < holds[o] /\ Opt!Empty <= holds[o] /\ holds[o] # Opt!Empty
          /\ ~(holds[o] < Opt!Empty) /\ ~(holds[o] <= Opt!Empty)
      BY <1>1, <2>1, Marks
    <3> HIDE DEF c
    <3>3. ~c.eq /\ c.ne /\ ~c.lt /\ ~c.le /\ c.gt /\ c.ge
      BY <3>1
    <3> QED BY <3>2, <3>3, Zenon DEF c, Opt!OrderOf, Opt!Order
  <2>2. CASE Opt!Has(o) = FALSE
    <3>1. c = [eq |-> TRUE, ne |-> FALSE, lt |-> FALSE, le |-> TRUE, gt |-> FALSE, ge |-> TRUE]
      BY <2>2, Zenon DEF Opt!NullCompare
    <3>2. /\ holds[o] = Opt!Empty /\ holds[o] <= Opt!Empty /\ Opt!Empty <= holds[o]
          /\ ~(holds[o] < Opt!Empty) /\ ~(Opt!Empty < holds[o])
      BY <1>1, <2>2, Marks
    <3> HIDE DEF c
    <3>3. c.eq /\ ~c.ne /\ ~c.lt /\ c.le /\ ~c.gt /\ c.ge
      BY <3>1
    <3> QED BY <3>2, <3>3, Zenon DEF c, Opt!OrderOf, Opt!Order
  <2> QED BY <1>0, <2>1, <2>2
<1>5. ASSUME NEW o \in exists, NEW v \in Values PROVE Opt!OrderOf(Opt!ValueCompare(o, v), holds[o], v)
  <2>1. CASE Opt!Has(o) = TRUE
    BY <1>1, <2>1, Marks DEF Opt!Order, Opt!OrderOf, Opt!ValueCompare
  <2>2. CASE Opt!Has(o) = FALSE
    BY <1>1, <2>2, Marks DEF Opt!Order, Opt!OrderOf, Opt!ValueCompare
  <2> QED BY <1>0, <2>1, <2>2
<1> QED BY <1>2, <1>3, <1>4, <1>5 DEF Opt!ComparisonsAgree

-----------------------------------------------------------------------------
(* ObjectTree: no node is in two calls, a child that dies is in one, and only *)
(* the thread that destroys a parent is in calls about its children.         *)

Ops == {"register", "body", "parent"}
Lives == {"unborn", "alive", "dying", "gone"}
Nodes == Parents \cup Children
Depth(t) == Len(stack[t])
Stacks == [Deleters -> Seq([op : Ops, of : Nodes])]

TreeTyped ==
  /\ m_parent \in [Children -> Parents \cup {None}]
  /\ m_childNodes \in [Parents -> SUBSET Children]
  /\ m_mutex \in [Parents -> Deleters \cup {None}]
  /\ life \in [Nodes -> Lives]
  /\ todo \in [Parents -> SUBSET Children]
  /\ stack \in Stacks

\* What a call says of the node it is about
CallingAt(t, i) == LET n == stack[t][i].of IN
  /\ stack[t][i].op = "body" => n \in Children /\ life[n] = "dying"
  /\ stack[t][i].op = "register" => /\ n \in Children /\ i = 1 /\ Depth(t) = 1
                                    /\ life[n] = "alive" /\ m_parent[n] # None
  /\ stack[t][i].op = "parent" => n \in Parents /\ i = 1 /\ m_mutex[n] = t
Calling == \A t \in Deleters : \A i \in 1..Depth(t) : CallingAt(t, i)

OneCall == \A t, w \in Deleters : \A i \in 1..Depth(t), j \in 1..Depth(w) :
  stack[t][i].of = stack[w][j].of => t = w /\ i = j

Called(n) == \E t \in Deleters : \E i \in 1..Depth(t) : stack[t][i].of = n

DyingIsCalled == \A c \in Children : life[c] = "dying" => Called(c)

LockedAt(p) ==
  /\ m_mutex[p] # None <=> life[p] = "dying"
  /\ m_mutex[p] # None => Depth(m_mutex[p]) > 0 /\ stack[m_mutex[p]][1] = [op |-> "parent", of |-> p]
Locked == \A p \in Parents : LockedAt(p)

TodoIsLeft == \A p \in Parents : life[p] = "dying" => todo[p] = {c \in Children : m_parent[c] = p}

\* The calls about the children of a dying parent are those of the thread that destroys it.
Confined == \A c \in Children : m_parent[c] # None /\ life[m_parent[c]] = "dying" =>
  \A t \in Deleters : \A i \in 1..Depth(t) : stack[t][i].of = c => t = m_mutex[m_parent[c]] /\ siblings

Born == /\ \A p \in Parents : life[p] # "unborn"
        /\ \A c \in Children : life[c] = "unborn" => m_parent[c] = None

Registers(c) == \E t \in Deleters : \E i \in 1..Depth(t) :
  stack[t][i].op = "register" /\ stack[t][i].of = c

\* The two ends of the tree
Ends == /\ \A p \in Parents : life[p] = "alive" =>
             m_childNodes[p] = {c \in Children : m_parent[c] = p /\ ~Registers(c)}
        /\ \A c \in Children : m_parent[c] # None => life[c] # "gone" /\ life[m_parent[c]] # "gone"

TreeInv == /\ TreeTyped /\ Calling /\ OneCall /\ DyingIsCalled /\ Locked
           /\ TodoIsLeft /\ Confined /\ Born /\ Ends

Frame(op, x) == [op |-> op, of |-> x]

LEMMA CallStep ==
  ASSUME TreeTyped, NEW t \in Deleters, NEW op \in Ops, NEW x \in Nodes, Tree!Call(t, op, x)
  PROVE  /\ stack' \in Stacks
         /\ \A w \in Deleters \ {t} : stack'[w] = stack[w]
         /\ Len(stack'[t]) = Len(stack[t]) + 1
         /\ \A i \in 1..Len(stack[t]) : stack'[t][i] = stack[t][i]
         /\ stack'[t][Len(stack[t]) + 1] = Frame(op, x)
<1> DEFINE f == [op |-> op, of |-> x]
<1>1. f \in [op : Ops, of : Nodes]
  OBVIOUS
<1>2. stack[t] \in Seq([op : Ops, of : Nodes]) /\ stack' = [stack EXCEPT ![t] = Append(stack[t], f)]
  BY DEF TreeTyped, Stacks, Tree!Call
<1> HIDE DEF f
<1>3. Append(stack[t], f) \in Seq([op : Ops, of : Nodes])
  BY <1>1, <1>2
<1>4. /\ Len(Append(stack[t], f)) = Len(stack[t]) + 1
      /\ \A i \in 1..Len(stack[t]) : Append(stack[t], f)[i] = stack[t][i]
      /\ Append(stack[t], f)[Len(stack[t]) + 1] = f
  BY <1>1, <1>2
<1>5. stack'[t] = Append(stack[t], f) /\ \A w \in Deleters \ {t} : stack'[w] = stack[w]
  BY <1>2 DEF TreeTyped, Stacks
<1>6. stack' \in Stacks
  BY <1>2, <1>3 DEF TreeTyped, Stacks
<1> QED BY <1>4, <1>5, <1>6 DEF f, Frame

LEMMA ReturnStep ==
  ASSUME TreeTyped, NEW t \in Deleters, Len(stack[t]) > 0, Tree!Return(t)
  PROVE  /\ stack' \in Stacks
         /\ \A w \in Deleters \ {t} : stack'[w] = stack[w]
         /\ Len(stack'[t]) = Len(stack[t]) - 1
         /\ \A i \in 1..Len(stack[t]) - 1 : stack'[t][i] = stack[t][i]
<1> DEFINE s == SubSeq(stack[t], 1, Len(stack[t]) - 1)
<1>1. stack[t] \in Seq([op : Ops, of : Nodes]) /\ stack' = [stack EXCEPT ![t] = s]
  BY DEF TreeTyped, Stacks, Tree!Return, Tree!Front
<1>2. /\ s \in Seq([op : Ops, of : Nodes])
      /\ Len(s) = Len(stack[t]) - 1
      /\ \A i \in 1..Len(stack[t]) - 1 : s[i] = stack[t][i]
  <2> DEFINE F == [op : Ops, of : Nodes]
             n == Len(stack[t]) - 1
  <2>0. stack[t] \in Seq(F)
    BY <1>1
  <2> HIDE DEF F
  <2>1. n \in Nat /\ \A i \in 1..n : stack[t][i] \in F
    BY <2>0
  <2> HIDE DEF n
  <2>2. /\ SubSeq(stack[t], 1, n) \in Seq(F)
        /\ Len(SubSeq(stack[t], 1, n)) = IF 1 <= n THEN n - 1 + 1 ELSE 0
        /\ \A i \in 1..n - 1 + 1 : SubSeq(stack[t], 1, n)[i] = stack[t][1 + i - 1]
    BY <2>1, SubSeqProperties
  <2>3. Len(SubSeq(stack[t], 1, n)) = n
    BY <2>1, <2>2
  <2>4. \A i \in 1..n : SubSeq(stack[t], 1, n)[i] = stack[t][i]
    BY <2>1, <2>2
  <2> QED BY <2>2, <2>3, <2>4 DEF F, n
<1> HIDE DEF s
<1>3. stack'[t] = s /\ \A w \in Deleters \ {t} : stack'[w] = stack[w]
  BY <1>1 DEF TreeTyped, Stacks
<1> QED BY <1>1, <1>2, <1>3 DEF TreeTyped, Stacks

LEMMA InnermostCall ==
  ASSUME TreeTyped, NEW t \in Deleters, NEW op, NEW x, Tree!In(t, op, x)
  PROVE  /\ Depth(t) \in Nat /\ Depth(t) > 0
         /\ stack[t][Depth(t)] = Frame(op, x)
  BY DEF TreeTyped, Stacks, Tree!In, Tree!Last, Depth, Frame

\* The calls before a call are there after it, at the same depths, and one more.
Begins(t, op, x) ==
  /\ stack' \in Stacks
  /\ Depth(t)' = Depth(t) + 1
  /\ \A w \in Deleters \ {t} : Depth(w)' = Depth(w)
  /\ \A w \in Deleters : \A i \in 1..Depth(w) : i \in 1..Depth(w)' /\ stack'[w][i] = stack[w][i]
  /\ stack'[t][Depth(t)'] = Frame(op, x)
  /\ stack'[t][Depth(t)'].op = op /\ stack'[t][Depth(t)'].of = x
  /\ \A w \in Deleters : \A i \in 1..Depth(w)' : i \in 1..Depth(w) \/ (w = t /\ i = Depth(t)')

\* The innermost call of a thread ends.
Ended(t, op, x) ==
  /\ stack' \in Stacks
  /\ Depth(t)' = Depth(t) - 1 /\ Depth(t) > 0
  /\ \A w \in Deleters \ {t} : Depth(w)' = Depth(w)
  /\ \A w \in Deleters : \A i \in 1..Depth(w)' : i \in 1..Depth(w) /\ stack'[w][i] = stack[w][i]
  /\ stack[t][Depth(t)].op = op /\ stack[t][Depth(t)].of = x
  /\ \A w \in Deleters : \A i \in 1..Depth(w) : i \in 1..Depth(w)' \/ (w = t /\ i = Depth(t))

LEMMA CallBegins ==
  ASSUME TreeTyped, NEW t \in Deleters, NEW op \in Ops, NEW x \in Nodes, Tree!Call(t, op, x)
  PROVE  Begins(t, op, x)
<1>1. \A w \in Deleters : Depth(w) \in Nat
  BY DEF TreeTyped, Stacks, Depth
<1>2. /\ stack' \in Stacks
      /\ \A w \in Deleters \ {t} : stack'[w] = stack[w]
      /\ Len(stack'[t]) = Len(stack[t]) + 1
      /\ \A i \in 1..Len(stack[t]) : stack'[t][i] = stack[t][i]
      /\ stack'[t][Len(stack[t]) + 1] = Frame(op, x)
  BY CallStep
<1>3. /\ Depth(t)' = Depth(t) + 1 /\ Depth(t)' \in Nat
      /\ \A w \in Deleters \ {t} : Depth(w)' = Depth(w)
  BY <1>1, <1>2 DEF Depth
<1>4. \A w \in Deleters : \A i \in 1..Depth(w) : i \in 1..Depth(w)'
  BY <1>1, <1>3
<1>5. \A w \in Deleters : \A i \in 1..Depth(w) : stack'[w][i] = stack[w][i]
  BY <1>1, <1>2 DEF Depth
<1>6. stack'[t][Depth(t)'] = Frame(op, x)
  BY <1>2, <1>3 DEF Depth
<1>7. \A w \in Deleters : \A i \in 1..Depth(w)' : i \in 1..Depth(w) \/ (w = t /\ i = Depth(t)')
  BY <1>1, <1>3
<1>8. Frame(op, x).op = op /\ Frame(op, x).of = x
  BY DEF Frame
<1> QED BY <1>2, <1>3, <1>4, <1>5, <1>6, <1>7, <1>8 DEF Begins

LEMMA ReturnEnds ==
  ASSUME TreeTyped, NEW t \in Deleters, NEW op, NEW x, Tree!In(t, op, x), Tree!Return(t)
  PROVE  Ended(t, op, x)
<1>1. \A w \in Deleters : Depth(w) \in Nat
  BY DEF TreeTyped, Stacks, Depth
<1>2. Depth(t) > 0 /\ stack[t][Depth(t)] = Frame(op, x)
  BY InnermostCall
<1>3. /\ stack' \in Stacks
      /\ \A w \in Deleters \ {t} : stack'[w] = stack[w]
      /\ Len(stack'[t]) = Len(stack[t]) - 1
      /\ \A i \in 1..Len(stack[t]) - 1 : stack'[t][i] = stack[t][i]
  BY <1>2, ReturnStep DEF Depth
<1>4. /\ Depth(t)' = Depth(t) - 1 /\ Depth(t)' \in Nat
      /\ \A w \in Deleters \ {t} : Depth(w)' = Depth(w)
  BY <1>1, <1>2, <1>3 DEF Depth
<1>5. \A w \in Deleters : \A i \in 1..Depth(w)' : i \in 1..Depth(w)
  BY <1>1, <1>4
<1>6. \A w \in Deleters : \A i \in 1..Depth(w)' : stack'[w][i] = stack[w][i]
  <2>1. \A i \in 1..Depth(t)' : stack'[t][i] = stack[t][i]
    BY <1>3, <1>4 DEF Depth
  <2> QED BY <1>3, <2>1
<1>7. \A w \in Deleters : \A i \in 1..Depth(w) : i \in 1..Depth(w)' \/ (w = t /\ i = Depth(t))
  BY <1>1, <1>4
<1>8. Frame(op, x).op = op /\ Frame(op, x).of = x
  BY DEF Frame
<1> QED BY <1>2, <1>3, <1>4, <1>5, <1>6, <1>7, <1>8 DEF Ended

LEMMA Depths == TreeTyped => \A t \in Deleters : Depth(t) \in Nat /\ \A i \in 1..Depth(t) : stack[t][i] \in [op : Ops, of : Nodes]
<1> DEFINE F == [op : Ops, of : Nodes]
<1>1. TreeTyped => stack \in [Deleters -> Seq(F)]
  BY DEF TreeTyped, Stacks
<1> HIDE DEF F
<1>2. TreeTyped => \A t \in Deleters : Depth(t) \in Nat /\ \A i \in 1..Depth(t) : stack[t][i] \in F
  BY <1>1 DEF Depth
<1> QED BY <1>2 DEF F

LEMMA NoCalls ==
  ASSUME NEW x, Tree!Calls(x) = {}
  PROVE  \A t \in Deleters : \A i \in 1..Depth(t) : stack[t][i].of # x
  BY DEF Tree!Calls, Depth

LEMMA BeginsFacts ==
  ASSUME TreeTyped, OneCall, NEW t \in Deleters, NEW op, NEW x, Begins(t, op, x),
         \A w \in Deleters : \A i \in 1..Depth(w) : stack[w][i].of # x
  PROVE  /\ OneCall'
         /\ \A d : Called(d)' <=> Called(d) \/ d = x
         /\ \A d : Registers(d)' <=> Registers(d) \/ (op = "register" /\ d = x)
<1>0. Depth(t)' \in 1..Depth(t)'
  BY Depths DEF Begins
<1>1. OneCall'
  BY <1>0 DEF OneCall, Begins
<1>2. \A d : Registers(d) => Registers(d)'
  BY DEF Registers, Begins
<1>3. op = "register" => Registers(x)'
  BY <1>0 DEF Registers, Begins
<1>4. \A d : Registers(d)' => Registers(d) \/ (op = "register" /\ d = x)
  BY DEF Registers, Begins
<1>5. \A d : Called(d) \/ d = x => Called(d)'
  BY <1>0 DEF Called, Begins
<1>6. \A d : Called(d)' => Called(d) \/ d = x
  BY DEF Called, Begins
<1> QED BY <1>1, <1>2, <1>3, <1>4, <1>5, <1>6

LEMMA EndedFacts ==
  ASSUME TreeTyped, OneCall, NEW t \in Deleters, NEW op, NEW x, Ended(t, op, x)
  PROVE  /\ OneCall'
         /\ \A w \in Deleters : \A i \in 1..Depth(w)' : stack'[w][i].of # x
         /\ \A d : Called(d)' <=> Called(d) /\ d # x
         /\ \A d : Registers(d)' <=> Registers(d) /\ d # x
<1>0. Depth(t) \in 1..Depth(t) /\ Depth(t) \notin 1..Depth(t)'
  BY Depths DEF Ended
<1>1. OneCall'
  <2> SUFFICES ASSUME NEW v \in Deleters, NEW w \in Deleters, NEW i \in 1..Depth(v)', NEW j \in 1..Depth(w)',
                      stack'[v][i].of = stack'[w][j].of
               PROVE  v = w /\ i = j
    BY DEF OneCall
  <2>1. /\ i \in 1..Depth(v) /\ stack'[v][i] = stack[v][i]
        /\ j \in 1..Depth(w) /\ stack'[w][j] = stack[w][j]
    BY DEF Ended
  <2> QED BY <2>1 DEF OneCall
<1>2. \A w \in Deleters : \A i \in 1..Depth(w)' : stack'[w][i].of # x
  BY <1>0 DEF OneCall, Ended
<1>3. \A d : Registers(d)' => Registers(d) /\ d # x
  BY <1>2 DEF Registers, Ended
<1>4. \A d : Registers(d) /\ d # x => Registers(d)'
  BY DEF Registers, Ended
<1>5. \A d : Called(d)' => Called(d) /\ d # x
  BY <1>2 DEF Called, Ended
<1>6. \A d : Called(d) /\ d # x => Called(d)'
  BY DEF Called, Ended
<1> QED BY <1>1, <1>2, <1>3, <1>4, <1>5, <1>6

LEMMA BeginsLocked ==
  ASSUME TreeTyped, Locked, NEW t \in Deleters, NEW op, NEW x, Begins(t, op, x),
         UNCHANGED m_mutex, \A p \in Parents : life'[p] = life[p]
  PROVE  Locked'
<1> SUFFICES ASSUME NEW p \in Parents, m_mutex[p] # None
             PROVE  Depth(m_mutex[p])' > 0 /\ stack'[m_mutex[p]][1] = [op |-> "parent", of |-> p]
  BY DEF Locked, LockedAt
<1>1. PICK w \in Deleters : w = m_mutex[p]
  BY DEF TreeTyped
<1>2. 1 \in 1..Depth(w) /\ stack[w][1] = [op |-> "parent", of |-> p]
  BY <1>1, Depths DEF Locked, LockedAt
<1>3. 1 \in 1..Depth(w)' /\ stack'[w][1] = stack[w][1]
  BY <1>2 DEF Begins
<1>4. Depth(w)' > 0
  BY <1>2, <1>3, Depths DEF Begins
<1> QED BY <1>1, <1>2, <1>3, <1>4

LEMMA EndedLocked ==
  ASSUME TreeTyped, Locked, NEW t \in Deleters, NEW op, NEW x, Ended(t, op, x), op # "parent",
         UNCHANGED m_mutex, \A p \in Parents : life'[p] = life[p]
  PROVE  Locked'
<1> SUFFICES ASSUME NEW p \in Parents, m_mutex[p] # None
             PROVE  Depth(m_mutex[p])' > 0 /\ stack'[m_mutex[p]][1] = [op |-> "parent", of |-> p]
  BY DEF Locked, LockedAt
<1>1. PICK w \in Deleters : w = m_mutex[p]
  BY DEF TreeTyped
<1>2. 1 \in 1..Depth(w) /\ stack[w][1] = [op |-> "parent", of |-> p]
  BY <1>1, Depths DEF Locked, LockedAt
<1>3. stack[w][1].op = "parent"
  BY <1>2
<1>4. 1 \in 1..Depth(w)'
  BY <1>2, <1>3 DEF Ended
<1>5. stack'[w][1] = stack[w][1]
  BY <1>4 DEF Ended
<1>6. Depth(w)' > 0
  BY <1>2, <1>4, Depths DEF Ended
<1> QED BY <1>1, <1>2, <1>5, <1>6

LEMMA ParentTyped == TreeTyped => \A c \in Children : m_parent[c] # None => m_parent[c] \in Parents
  BY DEF TreeTyped

LEMMA InitTree == Tree!Init => TreeInv
<1> SUFFICES ASSUME Tree!Init PROVE TreeInv
  OBVIOUS
<1>1. TreeTyped
  BY DEF TreeTyped, Stacks, Tree!Init, Nodes, Lives
<1>2. \A t \in Deleters : Depth(t) = 0
  BY DEF Tree!Init, Depth
<1>3. Calling /\ OneCall /\ Confined
  BY <1>2 DEF Calling, CallingAt, OneCall, Confined
<1>4. DyingIsCalled /\ Locked /\ TodoIsLeft /\ Born
  BY TreeAssumption DEF Tree!Init, Nodes, DyingIsCalled, Locked, LockedAt, TodoIsLeft, Born
<1>5. Ends
  BY TreeAssumption DEF Tree!Init, Ends
<1> QED BY <1>1, <1>3, <1>4, <1>5 DEF TreeInv

LEMMA NewOrphanStep ==
  ASSUME TreeInv, NEW t \in Deleters, NEW c \in Children, Tree!NewOrphan(t, c)
  PROVE  TreeInv'
<1> USE TreeAssumption DEF TreeInv, Tree!NewOrphan, Nodes
<1>1. TreeTyped'
  BY DEF TreeTyped, Lives
<1>2. \A n \in Nodes \ {c} : life'[n] = life[n]
  BY DEF TreeTyped
<1>3. life[c] = "unborn" /\ life'[c] = "alive"
  BY DEF TreeTyped
<1> HIDE DEF Tree!NewOrphan
<1> USE <1>2, <1>3
<1>0. UNCHANGED <<m_parent, m_childNodes, m_mutex, todo, stack, siblings>>
  BY DEF Tree!NewOrphan
<1> USE <1>0
<1>4. Calling'
  BY Depths DEF Calling, CallingAt, Depth
<1>5. OneCall'
  BY DEF OneCall, Depth
<1>6. DyingIsCalled'
  BY DEF DyingIsCalled, Called, Depth
<1>7. Locked'
  BY DEF Locked, LockedAt, Depth
<1>8. TodoIsLeft'
  BY DEF TodoIsLeft
<1>9. Confined'
  BY DEF Confined, Depth, TreeTyped
<1>10. Born'
  BY DEF Born
<1>11. Ends'
  <2>1. \A d : Registers(d)' <=> Registers(d)
    BY DEF Registers, Depth
  <2> QED BY <2>1 DEF Ends, TreeTyped
<1> QED BY <1>1, <1>4, <1>5, <1>6, <1>7, <1>8, <1>9, <1>10, <1>11

LEMMA NewChildStep ==
  ASSUME TreeInv, NEW t \in Deleters, NEW c \in Children, NEW p \in Parents, Tree!NewChild(t, c, p)
  PROVE  TreeInv'
<1>1. /\ Depth(t) = 0 /\ life[c] = "unborn" /\ life[p] = "alive"
      /\ m_parent' = [m_parent EXCEPT ![c] = p]
      /\ life' = [life EXCEPT ![c] = "alive"]
      /\ UNCHANGED <<m_childNodes, m_mutex, todo, siblings>>
  BY DEF Tree!NewChild, Tree!Idle, Depth
<1>2. Begins(t, "register", c)
  BY CallBegins DEF Tree!NewChild, TreeInv, Ops, Nodes
<1>3. TreeTyped'
  BY <1>1, <1>2 DEF TreeInv, TreeTyped, Begins, Nodes, Lives
<1>4. /\ \A n \in Nodes \ {c} : life'[n] = life[n]
      /\ life'[c] = "alive" /\ m_parent'[c] = p
      /\ \A d \in Children \ {c} : m_parent'[d] = m_parent[d]
  BY <1>1 DEF TreeInv, TreeTyped, Nodes
<1>5. p # c /\ None # p
  BY TreeAssumption
<1>6. \A w \in Deleters : \A i \in 1..Depth(w) : stack[w][i].of # c
  BY <1>1, Depths, TreeAssumption DEF TreeInv, Calling, CallingAt, Ops
<1>7. /\ OneCall' /\ \A d : Registers(d)' <=> Registers(d) \/ d = c
      /\ \A d : Called(d)' <=> Called(d) \/ d = c
  BY <1>2, <1>6, BeginsFacts DEF TreeInv
<1>8. Calling'
  <2> SUFFICES ASSUME NEW w \in Deleters, NEW i \in 1..Depth(w)' PROVE CallingAt(w, i)'
    BY DEF Calling
  <2>1. CASE w = t
    <3>1. i = 1 /\ Depth(t)' = 1
      BY <1>1, <1>2, <2>1 DEF Begins
    <3>2. stack'[w][i].op = "register" /\ stack'[w][i].of = c
      BY <1>2, <2>1, <3>1 DEF Begins
    <3> QED BY <1>4, <1>5, <2>1, <3>1, <3>2 DEF CallingAt, Depth
  <2>2. CASE w # t
    <3>1. i \in 1..Depth(w) /\ stack'[w][i] = stack[w][i] /\ Depth(w)' = Depth(w) /\ stack[w][i].of # c
      BY <1>2, <1>6, <2>2 DEF Begins
    <3>2. CallingAt(w, i) /\ stack[w][i].of \in Nodes
      BY <3>1, Depths DEF TreeInv, Calling
    <3> QED BY <1>1, <1>4, <3>1, <3>2 DEF CallingAt, Nodes, Depth
  <2> QED BY <2>1, <2>2
<1>9. DyingIsCalled'
  BY <1>4, <1>7 DEF TreeInv, DyingIsCalled, Nodes
<1>10. Locked'
  BY <1>1, <1>2, <1>4, TreeAssumption, BeginsLocked DEF TreeInv, Nodes
<1>11. TodoIsLeft'
  BY <1>1, <1>4, TreeAssumption DEF TreeInv, TodoIsLeft, Born, Nodes
<1>12. Confined'
  <2> SUFFICES ASSUME NEW d \in Children, m_parent'[d] # None, life'[m_parent'[d]] = "dying",
                      NEW w \in Deleters, NEW i \in 1..Depth(w)', stack'[w][i].of = d
               PROVE  w = m_mutex'[m_parent'[d]] /\ siblings'
    BY DEF Confined
  <2>1. d # c /\ m_parent'[d] = m_parent[d]
    BY <1>1, <1>4, <1>5, TreeAssumption DEF Nodes
  <2>2. life[m_parent[d]] = "dying"
    BY <1>4, <2>1, ParentTyped, TreeAssumption DEF TreeInv, Nodes
  <2>3. i \in 1..Depth(w) /\ stack[w][i].of = d
    BY <1>2, <2>1 DEF Begins
  <2> QED BY <1>1, <2>1, <2>2, <2>3 DEF TreeInv, Confined
<1>13. Born'
  BY <1>4, TreeAssumption DEF TreeInv, Born, Nodes
<1>14. Ends'
  BY <1>1, <1>4, <1>5, <1>7, TreeAssumption DEF TreeInv, TreeTyped, Ends, Born, Nodes
<1> QED BY <1>3, <1>7, <1>8, <1>9, <1>10, <1>11, <1>12, <1>13, <1>14 DEF TreeInv

LEMMA RegisterStep ==
  ASSUME TreeInv, NEW t \in Deleters, NEW c \in Children, Tree!Register(t, c)
  PROVE  TreeInv'
<1>1. /\ m_mutex[m_parent[c]] = None
      /\ m_childNodes' = [m_childNodes EXCEPT ![m_parent[c]] = @ \cup {c}]
      /\ UNCHANGED <<m_parent, m_mutex, life, todo, siblings>>
  BY DEF Tree!Register
<1>2. Ended(t, "register", c)
  BY ReturnEnds DEF Tree!Register, TreeInv
<1>3. TreeTyped'
  <2>1. m_childNodes' \in [Parents -> SUBSET Children]
    BY <1>1 DEF TreeInv, TreeTyped
  <2>2. stack' \in Stacks
    BY <1>2 DEF Ended
  <2> QED BY <1>1, <2>1, <2>2 DEF TreeInv, TreeTyped
<1>4. /\ OneCall'
      /\ \A w \in Deleters : \A i \in 1..Depth(w)' : stack'[w][i].of # c
      /\ \A d : Registers(d)' <=> Registers(d) /\ d # c
      /\ \A d : Called(d)' <=> Called(d) /\ d # c
  BY <1>2, EndedFacts DEF TreeInv
<1>5. life[c] = "alive" /\ m_parent[c] # None /\ m_parent[c] \in Parents
  <2>1. Depth(t) \in 1..Depth(t)
    BY <1>2, Depths DEF TreeInv, Ended
  <2>2. life[c] = "alive" /\ m_parent[c] # None
    BY <1>2, <2>1 DEF TreeInv, Calling, CallingAt, Ended
  <2> QED BY <2>2, ParentTyped DEF TreeInv
<1>6. Calling'
  BY <1>1, <1>2, Depths DEF TreeInv, Calling, CallingAt, Ended
<1>7. DyingIsCalled'
  BY <1>1, <1>4, <1>5 DEF TreeInv, DyingIsCalled
<1>8. Locked'
  BY <1>1, <1>2, EndedLocked DEF TreeInv
<1>9. TodoIsLeft' /\ Born'
  BY <1>1 DEF TreeInv, TodoIsLeft, Born
<1>10. Confined'
  BY <1>1, <1>2 DEF TreeInv, Confined, Ended
<1>11. Ends'
  BY <1>1, <1>4, <1>5 DEF TreeInv, TreeTyped, Ends
<1> QED BY <1>3, <1>4, <1>6, <1>7, <1>8, <1>9, <1>10, <1>11 DEF TreeInv

\* A child begins to die that no call is about: deleted by the client or by another child.
LEMMA DyingStep ==
  ASSUME TreeInv, NEW t \in Deleters, NEW c \in Children,
         life[c] = "alive", Tree!Calls(c) = {},
         Tree!Call(t, "body", c),
         life' = [life EXCEPT ![c] = "dying"],
         UNCHANGED <<m_parent, m_childNodes, m_mutex, todo>>,
         siblings => siblings',
         m_parent[c] # None => life[m_parent[c]] = "alive" \/ (m_mutex[m_parent[c]] = t /\ siblings'),
         Depth(t) = 0 \/ \E d \in Children : Tree!In(t, "body", d)
  PROVE  TreeInv'
<1>2. Begins(t, "body", c)
  BY CallBegins DEF TreeInv, Ops, Nodes
<1>3. TreeTyped'
  BY <1>2 DEF TreeInv, TreeTyped, Begins, Nodes, Lives
<1>4. /\ \A n \in Nodes \ {c} : life'[n] = life[n]
      /\ life'[c] = "dying"
  BY DEF TreeInv, TreeTyped, Nodes
<1>6. \A w \in Deleters : \A i \in 1..Depth(w) : stack[w][i].of # c
  BY NoCalls
<1>7. /\ OneCall' /\ \A d : Registers(d)' <=> Registers(d)
      /\ \A d : Called(d)' <=> Called(d) \/ d = c
  BY <1>2, <1>6, BeginsFacts DEF TreeInv
<1>8. Calling'
  <2>1. ASSUME NEW i \in 1..Depth(t) PROVE stack[t][i].op # "register"
    <3>1. CASE Depth(t) = 0
      BY <3>1
    <3>2. ASSUME NEW d \in Children, Tree!In(t, "body", d) PROVE stack[t][i].op # "register"
      <4>1. stack[t][Depth(t)] = Frame("body", d) /\ Depth(t) \in Nat /\ Depth(t) > 0
        BY <3>2, InnermostCall DEF TreeInv
      <4>2. stack[t][Depth(t)].op = "body" /\ Depth(t) \in 1..Depth(t)
        BY <4>1 DEF Frame
      <4> QED BY <4>2 DEF TreeInv, Calling, CallingAt
    <3> QED BY <3>1, <3>2
  <2> QED BY <1>2, <1>4, <1>6, <2>1, Depths DEF TreeInv, Calling, CallingAt, Begins, Nodes
<1>9. DyingIsCalled'
  BY <1>4, <1>7 DEF TreeInv, DyingIsCalled, Nodes
<1>10. Locked'
  BY <1>2, <1>4, TreeAssumption, BeginsLocked DEF TreeInv, Nodes
<1>11. TodoIsLeft'
  BY <1>4, TreeAssumption DEF TreeInv, TodoIsLeft, Nodes
<1>12. Confined'
  BY <1>2, <1>4, TreeAssumption DEF TreeInv, TreeTyped, Confined, Begins, Nodes
<1>13. Born'
  BY <1>4, TreeAssumption DEF TreeInv, Born, Nodes
<1>14. Ends'
  BY <1>4, <1>7, TreeAssumption DEF TreeInv, TreeTyped, Ends, Nodes
<1> QED BY <1>3, <1>7, <1>8, <1>9, <1>10, <1>11, <1>12, <1>13, <1>14 DEF TreeInv

LEMMA DeleteChildStep ==
  ASSUME TreeInv, NEW t \in Deleters, NEW c \in Children, Tree!DeleteChild(t, c)
  PROVE  TreeInv'
  BY DyingStep DEF Tree!DeleteChild, Tree!Deletable, Tree!Idle, Depth

LEMMA DeleteSiblingStep ==
  ASSUME TreeInv, NEW t \in Deleters, NEW c \in Children, NEW d \in Children, Tree!DeleteSibling(t, c, d)
  PROVE  TreeInv'
<1>1. UNCHANGED <<m_parent, m_childNodes, m_mutex, todo>> /\ siblings'
  BY DEF Tree!DeleteSibling
<1> QED BY <1>1, DyingStep DEF Tree!DeleteSibling

\* What remains when the destructor of a child ends that no parent refers to any more.
LEMMA UnparentedStep ==
  ASSUME TreeInv, NEW t \in Deleters, NEW c \in Children, Tree!Unparented(t, c)
  PROVE  TreeInv'
<1>1. /\ m_parent[c] = None
      /\ life' = [life EXCEPT ![c] = "gone"]
      /\ UNCHANGED <<m_parent, m_childNodes, m_mutex, todo, siblings>>
  BY DEF Tree!Unparented
<1>2. Ended(t, "body", c)
  BY ReturnEnds DEF Tree!Unparented, TreeInv
<1>3. TreeTyped'
  BY <1>1, <1>2 DEF TreeInv, TreeTyped, Ended, Nodes, Lives
<1>4. /\ OneCall'
      /\ \A w \in Deleters : \A i \in 1..Depth(w)' : stack'[w][i].of # c
      /\ \A d : Registers(d)' <=> Registers(d) /\ d # c
      /\ \A d : Called(d)' <=> Called(d) /\ d # c
  BY <1>2, EndedFacts DEF TreeInv
<1>5. /\ \A n \in Nodes \ {c} : life'[n] = life[n]
      /\ life'[c] = "gone"
  BY <1>1 DEF TreeInv, TreeTyped, Nodes
<1>6. Calling'
  <2> SUFFICES ASSUME NEW w \in Deleters, NEW i \in 1..Depth(w)' PROVE CallingAt(w, i)'
    BY DEF Calling
  <2>1. /\ i \in 1..Depth(w) /\ stack'[w][i] = stack[w][i] /\ stack[w][i].of # c
        /\ Depth(w) = 1 => Depth(w)' = 1
    BY <1>2, <1>4, Depths DEF TreeInv, Ended
  <2>2. CallingAt(w, i) /\ stack[w][i].of \in Nodes
    BY <2>1, Depths DEF TreeInv, Calling
  <2> QED BY <1>1, <1>5, <2>1, <2>2 DEF CallingAt, Nodes, Depth
<1>7. DyingIsCalled'
  BY <1>4, <1>5 DEF TreeInv, DyingIsCalled, Nodes
<1>8. Locked'
  BY <1>1, <1>2, <1>5, TreeAssumption, EndedLocked DEF TreeInv, Nodes
<1>9. TodoIsLeft' /\ Born'
  BY <1>1, <1>5, TreeAssumption DEF TreeInv, TodoIsLeft, Born, Nodes
<1>10. Confined'
  BY <1>1, <1>2, <1>5, TreeAssumption DEF TreeInv, TreeTyped, Confined, Ended, Nodes
<1>11. Ends'
  BY <1>1, <1>4, <1>5, TreeAssumption DEF TreeInv, TreeTyped, Ends, Nodes
<1> QED BY <1>3, <1>4, <1>6, <1>7, <1>8, <1>9, <1>10, <1>11 DEF TreeInv

LEMMA UnregisterStep ==
  ASSUME TreeInv, NEW t \in Deleters, NEW c \in Children, Tree!Unregister(t, c)
  PROVE  TreeInv'
<1>1. /\ m_parent[c] # None /\ m_mutex[m_parent[c]] = None
      /\ m_childNodes' = [m_childNodes EXCEPT ![m_parent[c]] = @ \ {c}]
      /\ m_parent' = [m_parent EXCEPT ![c] = None]
      /\ life' = [life EXCEPT ![c] = "gone"]
      /\ UNCHANGED <<m_mutex, todo, siblings>>
  BY DEF Tree!Unregister
<1>2. Ended(t, "body", c)
  BY ReturnEnds DEF Tree!Unregister, TreeInv
<1>0. m_parent[c] \in Parents /\ life[m_parent[c]] # "dying"
  BY <1>1, ParentTyped DEF TreeInv, Locked, LockedAt
<1>3. TreeTyped'
  BY <1>1, <1>2 DEF TreeInv, TreeTyped, Ended, Nodes, Lives
<1>4. /\ OneCall'
      /\ \A w \in Deleters : \A i \in 1..Depth(w)' : stack'[w][i].of # c
      /\ \A d : Registers(d)' <=> Registers(d) /\ d # c
      /\ \A d : Called(d)' <=> Called(d) /\ d # c
  BY <1>2, EndedFacts DEF TreeInv
<1>5. /\ \A n \in Nodes \ {c} : life'[n] = life[n]
      /\ life'[c] = "gone" /\ m_parent'[c] = None
      /\ \A d \in Children \ {c} : m_parent'[d] = m_parent[d]
  BY <1>1 DEF TreeInv, TreeTyped, Nodes
<1>6. Calling'
  <2> SUFFICES ASSUME NEW w \in Deleters, NEW i \in 1..Depth(w)' PROVE CallingAt(w, i)'
    BY DEF Calling
  <2>1. /\ i \in 1..Depth(w) /\ stack'[w][i] = stack[w][i] /\ stack[w][i].of # c
        /\ Depth(w) = 1 => Depth(w)' = 1
    BY <1>2, <1>4, Depths DEF TreeInv, Ended
  <2>2. CallingAt(w, i) /\ stack[w][i].of \in Nodes
    BY <2>1, Depths DEF TreeInv, Calling
  <2> QED BY <1>1, <1>5, <2>1, <2>2 DEF CallingAt, Nodes, Depth
<1>7. DyingIsCalled'
  BY <1>4, <1>5 DEF TreeInv, DyingIsCalled, Nodes
<1>8. Locked'
  BY <1>1, <1>2, <1>5, TreeAssumption, EndedLocked DEF TreeInv, Nodes
<1>9. TodoIsLeft' /\ Born'
  BY <1>0, <1>1, <1>5, TreeAssumption DEF TreeInv, TodoIsLeft, Born, Nodes
<1>10. Confined'
  BY <1>1, <1>2, <1>5, TreeAssumption DEF TreeInv, TreeTyped, Confined, Ended, Nodes
<1>11. Ends'
  BY <1>1, <1>4, <1>5, TreeAssumption DEF TreeInv, TreeTyped, Ends, Nodes
<1> QED BY <1>3, <1>4, <1>6, <1>7, <1>8, <1>9, <1>10, <1>11 DEF TreeInv

LEMMA DeleteParentStep ==
  ASSUME TreeInv, NEW t \in Deleters, NEW p \in Parents, Tree!DeleteParent(t, p)
  PROVE  TreeInv'
<1>1. /\ Depth(t) = 0 /\ life[p] = "alive" /\ m_mutex[p] = None
      /\ m_mutex' = [m_mutex EXCEPT ![p] = t]
      /\ life' = [life EXCEPT ![p] = "dying"]
      /\ todo' = [todo EXCEPT ![p] = m_childNodes[p]]
      /\ UNCHANGED <<m_parent, m_childNodes, siblings>>
  BY DEF Tree!DeleteParent, Tree!Idle, Depth
<1>2. Begins(t, "parent", p)
  BY CallBegins DEF Tree!DeleteParent, TreeInv, Ops, Nodes
<1>3. TreeTyped'
  BY <1>1, <1>2 DEF TreeInv, TreeTyped, Begins, Nodes, Lives
<1>4. /\ \A n \in Nodes \ {p} : life'[n] = life[n]
      /\ life'[p] = "dying" /\ m_mutex'[p] = t /\ todo'[p] = m_childNodes[p]
      /\ \A q \in Parents \ {p} : m_mutex'[q] = m_mutex[q] /\ todo'[q] = todo[q]
  BY <1>1 DEF TreeInv, TreeTyped, Nodes
<1>5. t # None
  BY TreeAssumption
<1>6. \A w \in Deleters : \A i \in 1..Depth(w) : stack[w][i].of # p
  BY <1>1, Depths, TreeAssumption DEF TreeInv, Calling, CallingAt, Ops
<1>7. /\ OneCall' /\ \A d : Registers(d)' <=> Registers(d)
      /\ \A d : Called(d)' <=> Called(d) \/ d = p
  BY <1>2, <1>6, BeginsFacts DEF TreeInv
<1>8. \A c \in Children : m_parent[c] = p => ~Called(c) /\ ~Registers(c)
  BY NoCalls DEF Tree!DeleteParent, Called, Registers
<1>9. Calling'
  <2> SUFFICES ASSUME NEW w \in Deleters, NEW i \in 1..Depth(w)' PROVE CallingAt(w, i)'
    BY DEF Calling
  <2>1. CASE w = t
    <3>1. i = 1 /\ Depth(t)' = 1
      BY <1>1, <1>2, <2>1 DEF Begins
    <3>2. stack'[w][i].op = "parent" /\ stack'[w][i].of = p
      BY <1>2, <2>1, <3>1 DEF Begins
    <3> QED BY <1>4, <2>1, <3>1, <3>2 DEF CallingAt, Depth
  <2>2. CASE w # t
    <3>1. i \in 1..Depth(w) /\ stack'[w][i] = stack[w][i] /\ Depth(w)' = Depth(w) /\ stack[w][i].of # p
      BY <1>2, <1>6, <2>2 DEF Begins
    <3>2. CallingAt(w, i) /\ stack[w][i].of \in Nodes
      BY <3>1, Depths DEF TreeInv, Calling
    <3> QED BY <1>1, <1>4, <3>1, <3>2 DEF CallingAt, Nodes, Depth
  <2> QED BY <2>1, <2>2
<1>10. DyingIsCalled'
  BY <1>4, <1>7, TreeAssumption DEF TreeInv, DyingIsCalled, Nodes
<1>11. Locked'
  <2> SUFFICES ASSUME NEW q \in Parents PROVE LockedAt(q)'
    BY DEF Locked
  <2>1. CASE q = p
    <3>1. Depth(t)' = 1 /\ stack'[t][1] = Frame("parent", p)
      BY <1>1, <1>2 DEF Begins
    <3>2. m_mutex'[q] = t /\ life'[q] = "dying"
      BY <1>4, <2>1
    <3> QED BY <1>5, <2>1, <3>1, <3>2 DEF Frame, LockedAt, Depth
  <2>2. CASE q # p /\ m_mutex[q] # None
    <3>1. PICK w \in Deleters : w = m_mutex[q]
      BY <2>2 DEF TreeInv, TreeTyped
    <3>2. 1 \in 1..Depth(w) /\ stack[w][1] = [op |-> "parent", of |-> q]
      BY <2>2, <3>1, Depths DEF TreeInv, Locked, LockedAt
    <3>3. 1 \in 1..Depth(w)' /\ stack'[w][1] = stack[w][1]
      BY <1>2, <3>2 DEF Begins
    <3>4. Depth(w)' > 0
      BY <1>2, <3>2, <3>3, Depths DEF TreeInv, Begins
    <3>5. m_mutex'[q] = w /\ life'[q] = "dying"
      BY <1>4, <2>2, <3>1 DEF TreeInv, Locked, LockedAt, Nodes
    <3> QED BY <2>2, <3>1, <3>2, <3>3, <3>4, <3>5 DEF LockedAt, Depth
  <2>3. CASE q # p /\ m_mutex[q] = None
    BY <1>4, <2>3 DEF TreeInv, Locked, LockedAt, Nodes
  <2> QED BY <2>1, <2>2, <2>3
<1>12. TodoIsLeft'
  BY <1>1, <1>4, <1>8 DEF TreeInv, TodoIsLeft, Ends, Nodes
<1>13. Confined'
  <2>1. ASSUME NEW c \in Children, m_parent[c] = p PROVE ~Called(c)'
    BY <1>7, <1>8, <2>1, TreeAssumption
  <2>2. ASSUME NEW c \in Children, m_parent[c] # p, m_parent[c] # None, life'[m_parent[c]] = "dying",
               NEW w \in Deleters, NEW i \in 1..Depth(w)', stack'[w][i].of = c
        PROVE  w = m_mutex'[m_parent[c]] /\ siblings
    <3>1. m_parent[c] \in Parents /\ life[m_parent[c]] = "dying"
      BY <1>4, <2>2, ParentTyped DEF TreeInv, Nodes
    <3>2. i \in 1..Depth(w) /\ stack[w][i].of = c
      BY <1>2, <2>2, TreeAssumption DEF Begins
    <3> QED BY <1>4, <2>2, <3>1, <3>2 DEF TreeInv, Confined
  <2> QED BY <1>1, <2>1, <2>2 DEF Confined, Called
<1>14. Born'
  BY <1>1, <1>4, TreeAssumption DEF TreeInv, Born, Nodes
<1>15. Ends'
  BY <1>1, <1>4, <1>7, TreeAssumption DEF TreeInv, TreeTyped, Ends, Nodes
<1> QED BY <1>3, <1>7, <1>9, <1>10, <1>11, <1>12, <1>13, <1>14, <1>15 DEF TreeInv

\* A thread in ~ParentNode() is in no other call, and has locked the mutex.
LEMMA InParent ==
  ASSUME TreeInv, NEW t \in Deleters, NEW p \in Parents, Tree!In(t, "parent", p)
  PROVE  /\ Depth(t) = 1 /\ stack[t][1] = Frame("parent", p)
         /\ m_mutex[p] = t /\ life[p] = "dying"
         /\ \A i \in 1..Depth(t) : stack[t][i].of = p /\ stack[t][i].op = "parent"
<1>1. Depth(t) \in Nat /\ Depth(t) > 0 /\ stack[t][Depth(t)] = Frame("parent", p)
  BY InnermostCall DEF TreeInv
<1>2. stack[t][Depth(t)].op = "parent" /\ stack[t][Depth(t)].of = p /\ Depth(t) \in 1..Depth(t)
  BY <1>1 DEF Frame
<1>3. Depth(t) = 1 /\ m_mutex[p] = t
  BY <1>2 DEF TreeInv, Calling, CallingAt
<1>4. life[p] = "dying"
  BY <1>3, TreeAssumption DEF TreeInv, Locked, LockedAt
<1> QED BY <1>1, <1>2, <1>3, <1>4

LEMMA FreeByParentStep ==
  ASSUME TreeInv, NEW t \in Deleters, NEW c \in Children, NEW p \in Parents, Tree!FreeByParent(t, p, c)
  PROVE  TreeInv'
<1>1. /\ c \in todo[p]
      /\ todo' = [todo EXCEPT ![p] = @ \ {c}]
      /\ m_parent' = [m_parent EXCEPT ![c] = None]
      /\ life' = [life EXCEPT ![c] = "dying"]
      /\ UNCHANGED <<m_childNodes, m_mutex, siblings>>
  BY DEF Tree!FreeByParent
<1>2. Begins(t, "body", c)
  BY CallBegins DEF Tree!FreeByParent, TreeInv, Ops, Nodes
<1>3. TreeTyped'
  BY <1>1, <1>2 DEF TreeInv, TreeTyped, Begins, Nodes, Lives
<1>4. /\ \A n \in Nodes \ {c} : life'[n] = life[n]
      /\ life'[c] = "dying" /\ m_parent'[c] = None
      /\ \A d \in Children \ {c} : m_parent'[d] = m_parent[d]
      /\ todo'[p] = todo[p] \ {c} /\ \A q \in Parents \ {p} : todo'[q] = todo[q]
  BY <1>1 DEF TreeInv, TreeTyped, Nodes
<1>5. /\ Depth(t) = 1 /\ m_mutex[p] = t /\ life[p] = "dying"
      /\ \A i \in 1..Depth(t) : stack[t][i].of = p /\ stack[t][i].op = "parent"
  BY InParent DEF Tree!FreeByParent
<1>6. m_parent[c] = p /\ p # None /\ p # c
  BY <1>1, <1>5, TreeAssumption DEF TreeInv, TodoIsLeft
<1>7. \A w \in Deleters : \A i \in 1..Depth(w) : stack[w][i].of # c
  BY <1>5, <1>6 DEF TreeInv, Confined
<1>8. life[c] = "alive"
  <2>1. life[c] \in Lives
    BY DEF TreeInv, TreeTyped, Nodes
  <2>2. life[c] # "unborn" /\ life[c] # "gone"
    BY <1>6 DEF TreeInv, Born, Ends
  <2>3. life[c] # "dying"
    BY <1>7 DEF TreeInv, DyingIsCalled, Called
  <2> QED BY <2>1, <2>2, <2>3 DEF Lives
<1>9. /\ OneCall' /\ \A d : Registers(d)' <=> Registers(d)
      /\ \A d : Called(d)' <=> Called(d) \/ d = c
  BY <1>2, <1>7, BeginsFacts DEF TreeInv
<1>10. Calling'
  BY <1>1, <1>2, <1>4, <1>5, <1>7, Depths DEF TreeInv, Calling, CallingAt, Begins, Nodes
<1>11. DyingIsCalled'
  BY <1>4, <1>9 DEF TreeInv, DyingIsCalled, Nodes
<1>12. Locked'
  BY <1>1, <1>2, <1>4, TreeAssumption, BeginsLocked DEF TreeInv, Nodes
<1>13. TodoIsLeft'
  BY <1>4, <1>6, TreeAssumption DEF TreeInv, TodoIsLeft, Nodes
<1>14. Confined'
  <2> SUFFICES ASSUME NEW d \in Children, m_parent'[d] # None, life'[m_parent'[d]] = "dying",
                      NEW w \in Deleters, NEW i \in 1..Depth(w)', stack'[w][i].of = d
               PROVE  w = m_mutex'[m_parent'[d]] /\ siblings'
    BY DEF Confined
  <2>1. d # c /\ m_parent'[d] = m_parent[d]
    BY <1>4
  <2>2. life[m_parent[d]] = "dying"
    BY <1>4, <2>1, ParentTyped, TreeAssumption DEF TreeInv, Nodes
  <2>3. i \in 1..Depth(w) /\ stack[w][i].of = d
    BY <1>2, <2>1 DEF Begins
  <2> QED BY <1>1, <2>1, <2>2, <2>3 DEF TreeInv, Confined
<1>15. Born'
  BY <1>4, TreeAssumption DEF TreeInv, Born, Nodes
<1>16. Ends'
  BY <1>1, <1>4, <1>5, <1>6, <1>9, TreeAssumption DEF TreeInv, TreeTyped, Ends, Nodes
<1> QED BY <1>3, <1>9, <1>10, <1>11, <1>12, <1>13, <1>14, <1>15, <1>16 DEF TreeInv

LEMMA ParentGoneStep ==
  ASSUME TreeInv, NEW t \in Deleters, NEW p \in Parents, Tree!ParentGone(t, p)
  PROVE  TreeInv'
<1>1. /\ todo[p] = {}
      /\ m_mutex' = [m_mutex EXCEPT ![p] = None]
      /\ m_childNodes' = [m_childNodes EXCEPT ![p] = {}]
      /\ life' = [life EXCEPT ![p] = "gone"]
      /\ UNCHANGED <<m_parent, todo, siblings>>
  BY DEF Tree!ParentGone
<1>2. Ended(t, "parent", p)
  BY ReturnEnds DEF Tree!ParentGone, TreeInv
<1>3. TreeTyped'
  BY <1>1, <1>2 DEF TreeInv, TreeTyped, Ended, Nodes, Lives
<1>4. /\ \A n \in Nodes \ {p} : life'[n] = life[n]
      /\ life'[p] = "gone" /\ m_mutex'[p] = None /\ m_childNodes'[p] = {}
      /\ \A q \in Parents \ {p} : m_mutex'[q] = m_mutex[q] /\ m_childNodes'[q] = m_childNodes[q]
  BY <1>1 DEF TreeInv, TreeTyped, Nodes
<1>5. Depth(t) = 1 /\ stack[t][1] = Frame("parent", p) /\ m_mutex[p] = t /\ life[p] = "dying"
  BY InParent DEF Tree!ParentGone
<1>6. /\ OneCall'
      /\ \A w \in Deleters : \A i \in 1..Depth(w)' : stack'[w][i].of # p
      /\ \A d : Registers(d)' <=> Registers(d) /\ d # p
      /\ \A d : Called(d)' <=> Called(d) /\ d # p
  BY <1>2, EndedFacts DEF TreeInv
<1>7. \A c \in Children : m_parent[c] # p
  BY <1>1, <1>5 DEF TreeInv, TodoIsLeft
<1>8. Calling'
  <2> SUFFICES ASSUME NEW w \in Deleters, NEW i \in 1..Depth(w)' PROVE CallingAt(w, i)'
    BY DEF Calling
  <2>1. /\ i \in 1..Depth(w) /\ stack'[w][i] = stack[w][i] /\ stack[w][i].of # p
        /\ w # t /\ Depth(w)' = Depth(w)
    BY <1>2, <1>5, <1>6 DEF Ended
  <2>2. CallingAt(w, i) /\ stack[w][i].of \in Nodes
    BY <2>1, Depths DEF TreeInv, Calling
  <2> QED BY <1>1, <1>4, <2>1, <2>2 DEF CallingAt, Nodes, Depth
<1>9. DyingIsCalled'
  BY <1>4, <1>6, TreeAssumption DEF TreeInv, DyingIsCalled, Nodes
<1>10. Locked'
  <2> SUFFICES ASSUME NEW q \in Parents PROVE LockedAt(q)'
    BY DEF Locked
  <2>1. CASE q = p
    BY <1>4, <2>1 DEF LockedAt
  <2>2. CASE q # p /\ m_mutex[q] # None
    <3>1. PICK w \in Deleters : w = m_mutex[q]
      BY <2>2 DEF TreeInv, TreeTyped
    <3>2. Depth(w) > 0 /\ stack[w][1] = Frame("parent", q)
      BY <2>2, <3>1 DEF TreeInv, Locked, LockedAt, Frame
    <3>3. w # t
      BY <1>5, <2>2, <3>2 DEF Frame
    <3>4. 1 \in 1..Depth(w)' /\ Depth(w)' > 0
      BY <1>2, <3>2, <3>3, Depths DEF TreeInv, Ended
    <3>5. stack'[w][1] = stack[w][1]
      BY <1>2, <3>4 DEF Ended
    <3>6. m_mutex'[q] = w /\ life'[q] = "dying"
      BY <1>4, <2>2, <3>1 DEF TreeInv, Locked, LockedAt, Nodes
    <3> QED BY <2>2, <3>1, <3>2, <3>4, <3>5, <3>6 DEF LockedAt, Depth, Frame
  <2>3. CASE q # p /\ m_mutex[q] = None
    BY <1>4, <2>3 DEF TreeInv, Locked, LockedAt, Nodes
  <2> QED BY <2>1, <2>2, <2>3
<1>11. TodoIsLeft'
  BY <1>1, <1>4 DEF TreeInv, TodoIsLeft, Nodes
<1>12. Confined'
  <2> SUFFICES ASSUME NEW c \in Children, m_parent[c] # None, life'[m_parent[c]] = "dying",
                      NEW w \in Deleters, NEW i \in 1..Depth(w)', stack'[w][i].of = c
               PROVE  w = m_mutex'[m_parent[c]] /\ siblings
    BY <1>1 DEF Confined
  <2>1. m_parent[c] \in Parents \ {p} /\ life[m_parent[c]] = "dying"
    BY <1>4, <1>7, ParentTyped DEF TreeInv, Nodes
  <2>2. i \in 1..Depth(w) /\ stack[w][i].of = c
    BY <1>2 DEF Ended
  <2> QED BY <1>4, <2>1, <2>2 DEF TreeInv, Confined
<1>13. Born'
  BY <1>1, <1>4, TreeAssumption DEF TreeInv, Born, Nodes
<1>14. Ends'
  BY <1>1, <1>4, <1>6, <1>7, TreeAssumption DEF TreeInv, TreeTyped, Ends, Nodes
<1> QED BY <1>3, <1>6, <1>8, <1>9, <1>10, <1>11, <1>12, <1>13, <1>14 DEF TreeInv

LEMMA TreeStep == TreeInv /\ Tree!Next => TreeInv'
  BY NewOrphanStep, NewChildStep, RegisterStep, DeleteChildStep, DeleteSiblingStep, UnparentedStep,
     UnregisterStep, DeleteParentStep, FreeByParentStep, ParentGoneStep DEF Tree!Next

LEMMA SameCardinality ==
  ASSUME NEW S
  PROVE  Tree!Cardinality(S) = Cardinality(S)
  BY DEF Tree!Cardinality, Cardinality

LEMMA TreeAgreed == TreeInv => Tree!TreeAgrees
<1> SUFFICES ASSUME TreeInv PROVE Tree!TreeAgrees
  OBVIOUS
<1>1. ASSUME NEW c \in Children PROVE Tree!Registering(c) <=> Registers(c)
  <2>1. ASSUME NEW t \in Deleters, Tree!In(t, "register", c) PROVE Registers(c)
    <3>1. Depth(t) \in Nat /\ Depth(t) > 0 /\ stack[t][Depth(t)] = Frame("register", c)
      BY <2>1, InnermostCall DEF TreeInv
    <3> QED BY <3>1 DEF Registers, Frame
  <2>2. ASSUME NEW t \in Deleters, NEW i \in 1..Depth(t), stack[t][i].op = "register", stack[t][i].of = c
        PROVE  Tree!In(t, "register", c)
    <3>1. i = 1 /\ Depth(t) = 1
      BY <2>2 DEF TreeInv, Calling, CallingAt
    <3>2. stack[t][1] = [op |-> "register", of |-> c]
      BY <2>2, <3>1, Depths DEF TreeInv
    <3>3. stack[t] # <<>>
      <4>1. Len(stack[t]) = 1
        BY <3>1 DEF Depth
      <4>2. Len(<<>>) = 0
        OBVIOUS
      <4>3. 0 # 1
        OBVIOUS
      <4> QED BY <4>1, <4>2, <4>3, Zenon
    <3> QED BY <3>1, <3>2, <3>3 DEF Tree!In, Tree!Last, Depth
  <2> QED BY <2>1, <2>2 DEF Tree!Registering, Registers
<1>2. ASSUME NEW c \in Children, life[c] = "dying" PROVE Tree!Cardinality(Tree!Calls(c)) = 1
  <2>1. PICK t \in Deleters : \E i \in 1..Depth(t) : stack[t][i].of = c
    BY <1>2 DEF TreeInv, DyingIsCalled, Called
  <2>2. \A w \in Deleters : DOMAIN stack[w] = 1..Depth(w)
    BY DEF TreeInv, TreeTyped, Stacks, Depth
  <2>3. t \in Tree!Calls(c)
    BY <2>1, <2>2 DEF Tree!Calls
  <2>4. ASSUME NEW w \in Tree!Calls(c) PROVE w = t
    <3>1. w \in Deleters /\ \E j \in 1..Depth(w) : stack[w][j].of = c
      BY <2>2, <2>4 DEF Tree!Calls
    <3> QED BY <2>1, <3>1 DEF TreeInv, OneCall
  <2>5. Tree!Calls(c) = {t}
    BY <2>3, <2>4
  <2> QED BY <2>5, FS_Singleton, SameCardinality
<1>3. ASSUME NEW t \in Deleters, NEW p \in Tree!Wants(t), m_mutex[p] = t PROVE siblings
  <2>1. PICK c \in Children : m_parent[c] = p /\ (Tree!In(t, "register", c) \/ Tree!In(t, "body", c)) /\ p # None
    BY <1>3 DEF Tree!Wants
  <2>2. p \in Parents /\ life[p] = "dying"
    BY <1>3, <2>1, TreeAssumption, ParentTyped DEF TreeInv, Locked, LockedAt
  <2>3. Depth(t) \in 1..Depth(t) /\ stack[t][Depth(t)].of = c
    <3>1. PICK op \in Ops : Tree!In(t, op, c)
      BY <2>1 DEF Ops
    <3>2. Depth(t) \in Nat /\ Depth(t) > 0 /\ stack[t][Depth(t)] = Frame(op, c)
      BY <3>1, InnermostCall DEF TreeInv
    <3> QED BY <3>2 DEF Frame
  <2> QED BY <2>1, <2>2, <2>3 DEF TreeInv, Confined
<1>4. ASSUME NEW p \in Parents, life[p] = "alive"
      PROVE  m_childNodes[p] = {c \in Children : m_parent[c] = p /\ ~Tree!Registering(c)}
  BY <1>1, <1>4 DEF TreeInv, Ends
<1>5. \A t \in Deleters : (\E p \in Tree!Wants(t) : m_mutex[p] = t) => siblings
  BY <1>3
<1>6. \A c \in Children : m_parent[c] # None => life[c] # "gone" /\ life[m_parent[c]] # "gone"
  BY DEF TreeInv, Ends
<1> QED BY <1>2, <1>4, <1>5, <1>6, Zenon DEF Tree!TreeAgrees

-----------------------------------------------------------------------------
(* LRU: the iterators of m_cacheMap and the elements of the two lists belong *)
(* to each other one to one, and the strong ones are in the order in which   *)
(* their keys were used.  Before grow() there may be one too many.           *)

NoRepeats(s) == \A i, j \in 1..Len(s) : s[i] = s[j] => i = j
Strong(list) == {list[i] : i \in 1..Len(list)}

\* Every element is in one of the lists and has an iterator to it, of its key.
Iterators(list, weak, map, elem) ==
    /\ DOMAIN elem = Strong(list) \cup weak /\ Strong(list) \cap weak = {} /\ weak \subseteq ListNodes
    /\ \A n \in DOMAIN elem : elem[n].key \in DOMAIN map /\ map[elem[n].key] = n
    /\ \A k \in DOMAIN map : map[k] \in DOMAIN elem /\ elem[map[k]].key = k

\* The strong elements are those of the keys used last, as many as there may be.
Recent(list, elem, keys) ==
    /\ \A i \in 1..Len(list) : elem[list[i]].key = keys[i]
    /\ Len(list) <= Len(keys) /\ (Len(list) < SizeLimit => Len(list) = Len(keys))

\* An element has the value inserted last, and a value that is pointed to has one.
Finds(list, map, elem, users, new) ==
    /\ \A k \in DOMAIN map : k \in DOMAIN new /\ elem[map[k]].value = new[k]
    /\ \A k \in DOMAIN new : new[k] \in users \cup {elem[n].value : n \in Strong(list)} => k \in DOMAIN map

Ordered(list, keys) == /\ list \in Seq(ListNodes) /\ keys \in Seq(CacheKeys)
                       /\ NoRepeats(list) /\ NoRepeats(keys)

LruInv == /\ Ordered(m_cacheList, used) /\ Len(m_cacheList) <= SizeLimit
          /\ Iterators(m_cacheList, m_weakList, m_cacheMap, element)
          /\ Recent(m_cacheList, element, used)
          /\ Finds(m_cacheList, m_cacheMap, element, held, newest)

\* What is not in a list has its place at the end.
LEMMA PlaceIs ==
  ASSUME NEW S, NEW s \in Seq(S), NEW y
  PROVE  /\ Lru!Place(s, y) \in 1..Len(s)+1
         /\ Lru!Place(s, y) <= Len(s) => s[Lru!Place(s, y)] = y
         /\ Lru!Place(s, y) > Len(s) => y \notin Strong(s)
<1>1. Len(s) \in Nat /\ DOMAIN s = 1..Len(s)
  OBVIOUS
<1>2. Lru!ToSet(s) = Strong(s)
  BY <1>1 DEF Lru!ToSet, Strong
<1>3. \E p \in 1..Len(s)+1 : IF p <= Len(s) THEN s[p] = y ELSE y \notin Lru!ToSet(s)
  <2>1. CASE y \in Strong(s)
    BY <1>1, <2>1 DEF Strong
  <2>2. CASE y \notin Strong(s)
    <3>1. Len(s) + 1 \in 1..Len(s)+1 /\ ~(Len(s) + 1 <= Len(s))
      BY <1>1
    <3> QED BY <1>2, <2>2, <3>1
  <2> QED BY <2>1, <2>2
<1>4. LET p == Lru!Place(s, y) IN p \in 1..Len(s)+1 /\ IF p <= Len(s) THEN s[p] = y ELSE y \notin Lru!ToSet(s)
  BY <1>3 DEF Lru!Place
<1> QED BY <1>1, <1>2, <1>4

LEMMA InFrontIs ==
  ASSUME NEW S, NEW s \in Seq(S), NEW y, NEW x \in S, NoRepeats(s), x = y \/ x \notin Strong(s),
         NEW r, r = Lru!InFront(s, y, x), NEW p, p = Lru!Place(s, y)
  PROVE  /\ r \in Seq(S) /\ NoRepeats(r)
         /\ Len(r) = IF p <= Len(s) THEN Len(s) ELSE Len(s) + 1
         /\ \A i \in 1..Len(r) : r[i] = IF i = 1 THEN x ELSE IF i <= p THEN s[i-1] ELSE s[i]
         /\ Strong(r) = (Strong(s) \ {y}) \cup {x}
<1> DEFINE n == IF p <= Len(s) THEN Len(s) ELSE p
           f(i) == IF i = 1 THEN x ELSE IF i <= p THEN s[i-1] ELSE s[i]
<1>1. Len(s) \in Nat /\ \A i \in 1..Len(s) : s[i] \in S
  OBVIOUS
<1>2. p \in 1..Len(s)+1 /\ (p <= Len(s) => s[p] = y) /\ (p > Len(s) => y \notin Strong(s))
  BY PlaceIs
<1>3. r = [i \in 1..n |-> f(i)]
  BY DEF Lru!InFront
<1>4. n \in Nat /\ n = IF p <= Len(s) THEN Len(s) ELSE Len(s) + 1
  BY <1>1, <1>2
<1>5. \A i \in 1..n : f(i) \in S
  BY <1>1, <1>2
<1>6. r \in Seq(S) /\ Len(r) = n /\ \A i \in 1..n : r[i] = f(i)
  <2> HIDE DEF n, f
  <2> QED BY <1>3, <1>4, <1>5
<1>7. ASSUME NEW i \in 1..n, NEW j \in 1..n, f(i) = f(j), i < j PROVE FALSE
  <2>0. j \in 2..n /\ i \in Int /\ j \in Int
    BY <1>4, <1>7
  <2> DEFINE b == IF j <= p THEN j - 1 ELSE j
  <2>1. f(j) = s[b] /\ b \in 1..Len(s) /\ b # p
    BY <1>1, <1>2, <1>4, <2>0
  <2>2. CASE i = 1
    <3>1. x = s[b]
      BY <1>7, <2>1, <2>2
    <3>2. x \in Strong(s)
      BY <2>1, <3>1 DEF Strong
    <3>3. x = y /\ p <= Len(s) /\ s[p] = y
      BY <1>1, <1>2, <3>2
    <3> QED BY <1>1, <1>2, <2>1, <3>1, <3>3 DEF NoRepeats
  <2>3. CASE i # 1
    <3> DEFINE a == IF i <= p THEN i - 1 ELSE i
    <3>1. f(i) = s[a] /\ a \in 1..Len(s) /\ a # b
      BY <1>1, <1>2, <1>4, <1>7, <2>0, <2>3
    <3> QED BY <1>7, <2>1, <3>1 DEF NoRepeats
  <2> QED BY <2>2, <2>3
<1>8. NoRepeats(r)
  <2> HIDE DEF f
  <2> QED BY <1>4, <1>6, <1>7 DEF NoRepeats
<1>9. Strong(r) = (Strong(s) \ {y}) \cup {x}
  <2>1. ASSUME NEW z \in Strong(r) PROVE z \in (Strong(s) \ {y}) \cup {x}
    <3>1. PICK i \in 1..n : z = f(i)
      BY <1>6, <2>1 DEF Strong
    <3>2. CASE i # 1
      <4> DEFINE a == IF i <= p THEN i - 1 ELSE i
      <4>1. z = s[a] /\ a \in 1..Len(s) /\ a # p
        BY <1>1, <1>2, <1>4, <3>1, <3>2
      <4>2. z # y
        BY <1>1, <1>2, <4>1 DEF NoRepeats, Strong
      <4> QED BY <4>1, <4>2 DEF Strong
    <3> QED BY <3>1, <3>2
  <2>2. 1 \in 1..n /\ f(1) = x
    BY <1>1, <1>2
  <2>3. ASSUME NEW z \in Strong(s) \ {y} PROVE z \in Strong(r)
    <3>1. PICK a \in 1..Len(s) : z = s[a]
      BY <2>3 DEF Strong
    <3>2. a # p
      BY <1>1, <1>2, <2>3, <3>1
    <3> DEFINE i == IF a < p THEN a + 1 ELSE a
    <3>3. i \in 1..n /\ f(i) = z
      BY <1>1, <1>2, <1>4, <3>1, <3>2
    <3> QED BY <1>6, <3>3 DEF Strong
  <2>4. x \in Strong(r)
    BY <1>6, <2>2 DEF Strong
  <2> QED BY <2>1, <2>3, <2>4
<1> QED BY <1>4, <1>6, <1>8, <1>9

\* Moving an element to the front, or putting a new one there for its key, keeps the
\* elements in the order of their keys.
LEMMA RecentStep ==
  ASSUME NEW list, NEW weak, NEW map, NEW elem, NEW keys, Ordered(list, keys), Len(list) <= SizeLimit,
         Iterators(list, weak, map, elem), Recent(list, elem, keys),
         NEW k \in CacheKeys, NEW old, NEW n \in ListNodes, NEW e,
         IF k \in DOMAIN map THEN old = map[k] ELSE old = n /\ n \notin DOMAIN elem,
         n = old \/ n \notin DOMAIN elem,
         e[n].key = k, \A m \in DOMAIN elem \ {old, n} : e[m] = elem[m]
  PROVE  LET l == Lru!InFront(list, old, n)
             s == Lru!ToFront(keys, k)
         IN /\ Ordered(l, s) /\ Recent(l, e, s) /\ Strong(l) = (Strong(list) \ {old}) \cup {n}
<1> DEFINE p == Lru!Place(list, old)
           q == Lru!Place(keys, k)
           l == Lru!InFront(list, old, n)
           s == Lru!InFront(keys, k, k)
<1>1. Len(list) \in Nat /\ Len(keys) \in Nat /\ list \in Seq(ListNodes) /\ keys \in Seq(CacheKeys)
  BY DEF Ordered
<1>2. NoRepeats(list) /\ NoRepeats(keys)
  BY DEF Ordered
<1>3. /\ p \in 1..Len(list)+1 /\ (p <= Len(list) => list[p] = old) /\ (p > Len(list) => old \notin Strong(list))
      /\ q \in 1..Len(keys)+1 /\ (q <= Len(keys) => keys[q] = k) /\ (q > Len(keys) => k \notin Strong(keys))
  BY <1>1, PlaceIs
<1>4. \A i \in 1..Len(list) : list[i] \in DOMAIN elem
  BY DEF Iterators, Strong
<1>5. /\ l \in Seq(ListNodes) /\ NoRepeats(l) /\ Strong(l) = (Strong(list) \ {old}) \cup {n}
      /\ Len(l) = IF p <= Len(list) THEN Len(list) ELSE Len(list) + 1
      /\ \A i \in 1..Len(l) : l[i] = IF i = 1 THEN n ELSE IF i <= p THEN list[i-1] ELSE list[i]
  <2>1. n = old \/ n \notin Strong(list)
    BY DEF Iterators
  <2> HIDE DEF p, l
  <2>2. l = Lru!InFront(list, old, n) /\ p = Lru!Place(list, old)
    BY DEF p, l
  <2> QED BY <1>1, <1>2, <2>1, <2>2, InFrontIs
<1>6. /\ s \in Seq(CacheKeys) /\ NoRepeats(s)
      /\ Len(s) = IF q <= Len(keys) THEN Len(keys) ELSE Len(keys) + 1
      /\ \A i \in 1..Len(s) : s[i] = IF i = 1 THEN k ELSE IF i <= q THEN keys[i-1] ELSE keys[i]
  <2> HIDE DEF q, s
  <2>2. s = Lru!InFront(keys, k, k) /\ q = Lru!Place(keys, k)
    BY DEF q, s
  <2> QED BY <1>1, <1>2, <2>2, InFrontIs
<1>7. IF p <= Len(list) THEN q = p ELSE q > Len(list)
  <2>1. CASE p <= Len(list)
    <3>1. old \in DOMAIN elem /\ old = list[p] /\ elem[old].key = keys[p]
      BY <1>3, <1>4, <2>1 DEF Recent
    <3>2. elem[old].key = k
      BY <3>1 DEF Iterators
    <3>3. p \in 1..Len(keys) /\ keys[p] = k
      BY <1>1, <1>3, <2>1, <3>1, <3>2 DEF Recent
    <3>4. k \in Strong(keys)
      BY <3>3 DEF Strong
    <3>5. q \in 1..Len(keys) /\ keys[q] = k
      BY <1>1, <1>3, <3>4
    <3> QED BY <1>2, <2>1, <3>3, <3>5 DEF NoRepeats
  <2>2. CASE ~(p <= Len(list))
    <3>1. SUFFICES ASSUME q \in 1..Len(list) PROVE FALSE
      BY <1>1, <1>3, <2>2
    <3>2. elem[list[q]].key = keys[q] /\ keys[q] = k /\ list[q] \in DOMAIN elem
      BY <1>1, <1>3, <1>4, <3>1 DEF Recent
    <3>3. k \in DOMAIN map /\ map[k] = list[q]
      BY <3>2 DEF Iterators
    <3>4. old \in Strong(list)
      BY <3>1, <3>3 DEF Strong
    <3> QED BY <1>1, <1>3, <2>2, <3>4
  <2> QED BY <2>1, <2>2
<1>8. ASSUME NEW i \in 1..Len(l) PROVE e[l[i]].key = s[i]
  <2>1. CASE i = 1
    <3>1. 1 \in 1..Len(s)
      BY <1>1, <1>3, <1>6
    <3> QED BY <1>5, <1>6, <2>1, <3>1
  <2>2. CASE i # 1
    <3> DEFINE a == IF i <= p THEN i - 1 ELSE i
    <3>1. a \in 1..Len(list) /\ l[i] = list[a] /\ i \in 1..Len(s) /\ s[i] = keys[a] /\ i \in 2..Len(l)
      BY <1>1, <1>3, <1>5, <1>6, <1>7, <2>2 DEF Recent
    <3>2. list[a] # old
      <4>1. CASE p <= Len(list)
        BY <1>1, <1>2, <1>3, <3>1, <4>1 DEF NoRepeats
      <4>2. CASE p > Len(list)
        BY <1>3, <3>1, <4>2 DEF Strong
      <4>3. p \in Nat /\ Len(list) \in Nat
        BY <1>1, <1>3
      <4> QED BY <4>1, <4>2, <4>3
    <3>3. list[a] # n
      BY <1>4, <3>1, <3>2
    <3>4. e[list[a]] = elem[list[a]]
      BY <1>4, <3>1, <3>2, <3>3
    <3> QED BY <3>1, <3>4 DEF Recent
  <2> QED BY <2>1, <2>2
<1>9. Len(l) <= Len(s) /\ (Len(l) < SizeLimit => Len(l) = Len(s))
  BY <1>1, <1>3, <1>5, <1>6, <1>7, LimitAssumption DEF Recent
<1> QED BY <1>5, <1>6, <1>8, <1>9 DEF Recent, Ordered, Lru!ToFront

\* grow() on lists in which at most the first limit is exceeded by one
LEMMA GrowStep ==
  ASSUME NEW list, NEW weak, NEW map, NEW elem, NEW users, Ordered(list, used'),
         Iterators(list, weak, map, elem), Recent(list, elem, used'),
         Finds(list, map, elem, users, newest'), held' = users,
         Lru!Grow(list, weak, map, elem, users)
  PROVE  LruInv'
<1> DEFINE strong == Lru!First(list, SizeLimit)
           all    == weak \cup (Lru!ToSet(list) \ Lru!ToSet(strong))
           gone   == {n \in all : elem[n].value \notin users \cup {elem[s].value : s \in Lru!ToSet(strong)}}
<1>1. /\ m_cacheList' = strong /\ m_weakList' = all \ gone
      /\ m_cacheMap' = Lru!Without(map, {elem[n].key : n \in gone})
      /\ element' = Lru!Without(elem, gone)
  BY DEF Lru!Grow
<1>2. list \in Seq(ListNodes) /\ Len(list) \in Nat /\ SizeLimit \in Nat
  BY LimitAssumption DEF Ordered
<1>3. /\ strong \in Seq(ListNodes) /\ Len(strong) = IF Len(list) <= SizeLimit THEN Len(list) ELSE SizeLimit
      /\ \A i \in 1..Len(strong) : strong[i] = list[i]
  BY <1>2, LimitAssumption DEF Lru!First
<1>4. Lru!ToSet(list) = Strong(list) /\ Lru!ToSet(strong) = Strong(strong)
  BY <1>2, <1>3 DEF Lru!ToSet, Strong
<1>5. Strong(strong) \subseteq Strong(list) /\ Strong(strong) \cap all = {} /\ Strong(strong) \cup all = DOMAIN elem
  <2>1. Strong(strong) \subseteq Strong(list)
    BY <1>2, <1>3 DEF Strong
  <2> HIDE DEF strong
  <2> QED BY <1>4, <2>1 DEF Iterators
<1> HIDE DEF strong, all
<1>6. Ordered(m_cacheList', used') /\ Len(m_cacheList') <= SizeLimit
  <2>1. strong \in Seq(ListNodes) /\ Len(strong) <= SizeLimit /\ Len(strong) \in 0..Len(list)
    BY <1>2, <1>3
  <2>2. NoRepeats(list) /\ used' \in Seq(CacheKeys) /\ NoRepeats(used')
    BY DEF Ordered
  <2>3. \A i \in 1..Len(strong) : i \in 1..Len(list) /\ strong[i] = list[i]
    BY <1>2, <1>3, <2>1
  <2>4. NoRepeats(strong)
    BY <2>2, <2>3 DEF NoRepeats
  <2> QED BY <1>1, <2>1, <2>2, <2>4 DEF Ordered
<1>7. DOMAIN element' = DOMAIN elem \ gone /\ \A n \in DOMAIN element' : element'[n] = elem[n]
  BY <1>1 DEF Lru!Without
<1>8. gone \subseteq all /\ gone \subseteq DOMAIN elem /\ Strong(strong) \subseteq DOMAIN element'
  BY <1>5, <1>7
<1>9. DOMAIN m_cacheMap' = DOMAIN map \ {elem[n].key : n \in gone} /\ \A k \in DOMAIN m_cacheMap' : m_cacheMap'[k] = map[k]
  BY <1>1 DEF Lru!Without
<1>10. Iterators(m_cacheList', m_weakList', m_cacheMap', element')
  <2>0. all \subseteq ListNodes
    BY <1>2, <1>4 DEF Iterators, Strong, all
  <2>1. /\ DOMAIN element' = Strong(m_cacheList') \cup m_weakList' /\ Strong(m_cacheList') \cap m_weakList' = {}
        /\ m_weakList' \subseteq ListNodes
    BY <1>1, <1>5, <1>7, <1>8, <2>0
  <2>2. ASSUME NEW n \in DOMAIN element'
        PROVE  element'[n].key \in DOMAIN m_cacheMap' /\ m_cacheMap'[element'[n].key] = n
    <3>1. n \in DOMAIN elem /\ n \notin gone /\ element'[n] = elem[n]
      BY <1>7, <2>2
    <3>2. \A m \in gone : elem[m].key # elem[n].key
      BY <1>8, <3>1 DEF Iterators
    <3> QED BY <1>9, <3>1, <3>2 DEF Iterators
  <2>3. ASSUME NEW k \in DOMAIN m_cacheMap'
        PROVE  m_cacheMap'[k] \in DOMAIN element' /\ element'[m_cacheMap'[k]].key = k
    BY <1>7, <1>9, <2>3 DEF Iterators
  <2> QED BY <2>1, <2>2, <2>3 DEF Iterators
<1>11. Recent(m_cacheList', element', used')
  <2>1. ASSUME NEW i \in 1..Len(m_cacheList') PROVE element'[m_cacheList'[i]].key = used'[i]
    <3>1. m_cacheList'[i] = list[i] /\ i \in 1..Len(list) /\ m_cacheList'[i] \in Strong(strong)
      BY <1>1, <1>2, <1>3 DEF Strong
    <3> QED BY <1>7, <1>8, <3>1 DEF Recent
  <2>2. Len(used') \in Nat
    BY DEF Ordered
  <2>3. Len(m_cacheList') <= Len(used') /\ (Len(m_cacheList') < SizeLimit => Len(m_cacheList') = Len(used'))
    BY <1>1, <1>2, <1>3, <2>2 DEF Recent
  <2> QED BY <2>1, <2>3 DEF Recent
<1>12. Finds(m_cacheList', m_cacheMap', element', held', newest')
  <2>1. ASSUME NEW k \in DOMAIN m_cacheMap' PROVE k \in DOMAIN newest' /\ element'[m_cacheMap'[k]].value = newest'[k]
    <3>1. k \in DOMAIN map /\ m_cacheMap'[k] = map[k]
      BY <1>9, <2>1
    <3>2. m_cacheMap'[k] \in DOMAIN element'
      BY <1>10, <2>1 DEF Iterators
    <3> QED BY <1>7, <3>1, <3>2 DEF Finds
  <2>2. ASSUME NEW k \in DOMAIN newest', newest'[k] \in held' \cup {element'[n].value : n \in Strong(m_cacheList')}
        PROVE  k \in DOMAIN m_cacheMap'
    <3>1. newest'[k] \in users \cup {elem[n].value : n \in Strong(strong)}
      BY <1>1, <1>7, <1>8, <2>2
    <3>2. k \in DOMAIN map
      BY <1>5, <2>2, <3>1 DEF Finds
    <3>3. ASSUME NEW n \in gone, k = elem[n].key PROVE FALSE
      <4>1. map[k] = n /\ elem[n].value = newest'[k]
        BY <1>8, <3>2, <3>3 DEF Iterators, Finds
      <4> QED BY <1>4, <3>1, <4>1
    <3> QED BY <1>9, <3>2, <3>3
  <2> QED BY <2>1, <2>2 DEF Finds
<1> QED BY <1>6, <1>10, <1>11, <1>12 DEF LruInv, Ordered

\* What is alive for get() are the values of the finding invariant.
LEMMA AliveIs == LruInv => \A v : Lru!Alive(v) <=> v \in held \cup {element[n].value : n \in Strong(m_cacheList)}
  BY DEF LruInv, Ordered, Lru!Alive, Lru!ValuesOf, Lru!ToSet, Strong

LEMMA InsertStep ==
  ASSUME LruInv, NEW k \in CacheKeys, NEW v \in Objects, Lru!Insert(k, v)
  PROVE  LruInv'
<1>1. PICK n \in ListNodes \ DOMAIN element :
         LET old == IF k \in DOMAIN m_cacheMap THEN m_cacheMap[k] ELSE n
         IN Lru!Grow(Lru!InFront(m_cacheList, old, n), m_weakList \ {old}, Lru!With(m_cacheMap, k, n),
                     Lru!With(Lru!Without(element, {old}), n, [key |-> k, value |-> v]), held)
  BY DEF Lru!Insert
<1> DEFINE old == IF k \in DOMAIN m_cacheMap THEN m_cacheMap[k] ELSE n
           l == Lru!InFront(m_cacheList, old, n)
           map == Lru!With(m_cacheMap, k, n)
           elem == Lru!With(Lru!Without(element, {old}), n, [key |-> k, value |-> v])
<1>2. used' = Lru!ToFront(used, k) /\ newest' = Lru!With(newest, k, v) /\ held' = held /\ v \in held
  BY DEF Lru!Insert
<1>3. DOMAIN elem = (DOMAIN element \ {old}) \cup {n} /\ elem[n] = [key |-> k, value |-> v]
      /\ \A m \in DOMAIN element \ {old, n} : elem[m] = element[m]
  BY DEF Lru!With, Lru!Without
<1>4. DOMAIN map = DOMAIN m_cacheMap \cup {k} /\ map[k] = n /\ \A j \in DOMAIN m_cacheMap \ {k} : map[j] = m_cacheMap[j]
  BY DEF Lru!With
<1>5. DOMAIN newest' = DOMAIN newest \cup {k} /\ newest'[k] = v /\ \A j \in DOMAIN newest \ {k} : newest'[j] = newest[j]
  BY <1>2 DEF Lru!With
<1>6. k \in DOMAIN m_cacheMap => old \in DOMAIN element /\ element[old].key = k
  BY DEF LruInv, Iterators
<1>7. k \notin DOMAIN m_cacheMap => old = n
  OBVIOUS
<1>8. Lru!Grow(l, m_weakList \ {old}, map, elem, held)
  BY <1>1
<1>9. IF k \in DOMAIN m_cacheMap THEN old = m_cacheMap[k] ELSE old = n /\ n \notin DOMAIN element
  OBVIOUS
<1> HIDE DEF old, l, map, elem
<1>10. /\ Ordered(l, used') /\ Recent(l, elem, used')
       /\ Strong(l) = (Strong(m_cacheList) \ {old}) \cup {n}
  <2>1. elem[n].key = k
    BY <1>3
  <2> QED BY <1>2, <1>3, <1>9, <2>1, RecentStep DEF LruInv, l
<1>11. \A m \in DOMAIN element \ {old} : element[m].key # k
  BY <1>9 DEF LruInv, Iterators
<1>12. Iterators(l, m_weakList \ {old}, map, elem)
  <2>1. /\ DOMAIN elem = Strong(l) \cup (m_weakList \ {old}) /\ Strong(l) \cap (m_weakList \ {old}) = {}
        /\ m_weakList \ {old} \subseteq ListNodes
    BY <1>3, <1>10 DEF LruInv, Iterators
  <2>2. ASSUME NEW m \in DOMAIN elem PROVE elem[m].key \in DOMAIN map /\ map[elem[m].key] = m
    <3>1. CASE m = n
      BY <1>3, <1>4, <3>1
    <3>2. CASE m # n
      BY <1>3, <1>4, <1>11, <2>2, <3>2 DEF LruInv, Iterators
    <3> QED BY <3>1, <3>2
  <2>3. ASSUME NEW j \in DOMAIN map PROVE map[j] \in DOMAIN elem /\ elem[map[j]].key = j
    <3>1. CASE j = k
      BY <1>3, <1>4, <3>1
    <3>2. CASE j # k
      <4>1. j \in DOMAIN m_cacheMap /\ map[j] = m_cacheMap[j] /\ map[j] \in DOMAIN element /\ element[map[j]].key = j
        BY <1>4, <2>3, <3>2 DEF LruInv, Iterators
      <4>2. map[j] # old /\ map[j] # n
        BY <1>6, <1>7, <3>2, <4>1
      <4> QED BY <1>3, <4>1, <4>2
    <3> QED BY <3>1, <3>2
  <2> QED BY <2>1, <2>2, <2>3 DEF Iterators
<1>13. Finds(l, map, elem, held, newest')
  <2>1. ASSUME NEW j \in DOMAIN map PROVE j \in DOMAIN newest' /\ elem[map[j]].value = newest'[j]
    <3>1. CASE j = k
      BY <1>3, <1>4, <1>5, <3>1
    <3>2. CASE j # k
      <4>1. j \in DOMAIN m_cacheMap /\ map[j] = m_cacheMap[j] /\ map[j] \in DOMAIN element /\ element[map[j]].key = j
        BY <1>4, <2>1, <3>2 DEF LruInv, Iterators
      <4>2. map[j] # old /\ map[j] # n
        BY <1>6, <1>7, <3>2, <4>1
      <4> QED BY <1>3, <1>5, <3>2, <4>1, <4>2 DEF LruInv, Finds
    <3> QED BY <3>1, <3>2
  <2>2. ASSUME NEW j \in DOMAIN newest', newest'[j] \in held \cup {elem[m].value : m \in Strong(l)}
        PROVE  j \in DOMAIN map
    <3>1. CASE j = k
      BY <1>4, <3>1
    <3>2. CASE j # k
      <4>1. {elem[m].value : m \in Strong(l)} \subseteq {element[m].value : m \in Strong(m_cacheList)} \cup {v}
        BY <1>3, <1>10 DEF LruInv, Iterators
      <4>2. newest[j] \in held \cup {element[m].value : m \in Strong(m_cacheList)} /\ j \in DOMAIN newest
        BY <1>2, <1>5, <2>2, <3>2, <4>1
      <4>3. j \in DOMAIN m_cacheMap
        BY <4>2 DEF LruInv, Finds
      <4> QED BY <1>4, <4>3
    <3> QED BY <3>1, <3>2
  <2> QED BY <2>1, <2>2 DEF Finds
<1> QED BY <1>2, <1>8, <1>10, <1>12, <1>13, GrowStep

LEMMA GetStrongStep ==
  ASSUME LruInv, NEW k \in CacheKeys, Lru!GetStrong(k)
  PROVE  LruInv'
<1> DEFINE n == m_cacheMap[k]
<1>1. /\ k \in DOMAIN m_cacheMap /\ m_cacheList' = Lru!InFront(m_cacheList, n, n)
      /\ held' = held \cup {element[n].value} /\ used' = Lru!ToFront(used, k)
      /\ UNCHANGED <<m_weakList, m_cacheMap, element, newest>>
  BY DEF Lru!GetStrong, Lru!ToFront
<1>2. n \in Strong(m_cacheList)
  BY DEF Lru!GetStrong, Lru!IsStrong, Lru!ToSet, LruInv, Ordered, Strong
<1>3. n \in DOMAIN element /\ n \in ListNodes /\ element[n].key = k
  BY <1>1, <1>2 DEF LruInv, Iterators, Ordered, Strong
<1>4. /\ Ordered(m_cacheList', used') /\ Recent(m_cacheList', element, used')
      /\ Strong(m_cacheList') = (Strong(m_cacheList) \ {n}) \cup {n}
  <2> HIDE DEF n
  <2>1. n = m_cacheMap[k]
    BY DEF n
  <2> QED BY <1>1, <1>3, <2>1, RecentStep DEF LruInv
<1>5. Strong(m_cacheList') = Strong(m_cacheList)
  BY <1>2, <1>4
<1>6. Len(m_cacheList') = Len(m_cacheList)
  <2>1. m_cacheList \in Seq(ListNodes) /\ NoRepeats(m_cacheList)
    BY DEF LruInv, Ordered
  <2>2. Lru!Place(m_cacheList, n) \in 1..Len(m_cacheList)+1 /\ Lru!Place(m_cacheList, n) <= Len(m_cacheList)
    BY <1>2, <2>1, PlaceIs
  <2> QED BY <1>1, <1>3, <2>1, <2>2, InFrontIs
<1>7. Iterators(m_cacheList', m_weakList', m_cacheMap', element')
  BY <1>1, <1>5 DEF LruInv, Iterators
<1>8. Finds(m_cacheList', m_cacheMap', element', held', newest')
  BY <1>1, <1>2, <1>5 DEF LruInv, Finds
<1>9. Recent(m_cacheList', element', used') /\ Len(m_cacheList') <= SizeLimit
  BY <1>1, <1>4, <1>6 DEF LruInv
<1> QED BY <1>4, <1>7, <1>8, <1>9 DEF LruInv

LEMMA GetWeakStep ==
  ASSUME LruInv, NEW k \in CacheKeys, Lru!GetWeak(k)
  PROVE  LruInv'
<1> DEFINE n == m_cacheMap[k]
           l == Lru!InFront(m_cacheList, n, n)
<1>1. /\ k \in DOMAIN m_cacheMap /\ Lru!Alive(element[n].value)
      /\ held' = held \cup {element[n].value} /\ used' = Lru!ToFront(used, k)
      /\ Lru!Grow(l, m_weakList \ {n}, m_cacheMap, element, held')
      /\ newest' = newest
  BY DEF Lru!GetWeak, Lru!ToFront
<1>2. n \notin Strong(m_cacheList)
  BY DEF Lru!GetWeak, Lru!IsStrong, Lru!ToSet, LruInv, Ordered, Strong
<1>3. n \in DOMAIN element /\ element[n].key = k
  BY <1>1 DEF LruInv, Iterators
<1>4. n \in ListNodes
  BY <1>2, <1>3 DEF LruInv, Iterators
<1>5. /\ Ordered(l, used') /\ Recent(l, element, used')
      /\ Strong(l) = (Strong(m_cacheList) \ {n}) \cup {n}
  <2> HIDE DEF n
  <2>1. n = m_cacheMap[k]
    BY DEF n
  <2> QED BY <1>1, <1>3, <1>4, <2>1, RecentStep DEF LruInv
<1> HIDE DEF l
<1>6. Iterators(l, m_weakList \ {n}, m_cacheMap, element)
  BY <1>2, <1>3, <1>5 DEF LruInv, Iterators
<1>7. Finds(l, m_cacheMap, element, held', newest')
  <2>1. element[n].value \in held \cup {element[m].value : m \in Strong(m_cacheList)}
    BY <1>1, AliveIs
  <2>2. held' \cup {element[m].value : m \in Strong(l)} = held \cup {element[m].value : m \in Strong(m_cacheList)}
    BY <1>1, <1>5, <2>1
  <2> QED BY <1>1, <2>2 DEF LruInv, Finds
<1> QED BY <1>1, <1>5, <1>6, <1>7, GrowStep

LEMMA GetExpiredStep ==
  ASSUME LruInv, NEW k \in CacheKeys, Lru!GetExpired(k)
  PROVE  LruInv'
<1> DEFINE n == m_cacheMap[k]
<1>1. /\ k \in DOMAIN m_cacheMap /\ ~Lru!Alive(element[n].value)
      /\ m_weakList' = m_weakList \ {n} /\ m_cacheMap' = Lru!Without(m_cacheMap, {k})
      /\ element' = Lru!Without(element, {n}) /\ UNCHANGED <<m_cacheList, held, used, newest>>
  BY DEF Lru!GetExpired
<1>2. n \in DOMAIN element /\ element[n].key = k
  BY <1>1 DEF LruInv, Iterators
<1>3. n \notin Strong(m_cacheList)
  BY <1>1, AliveIs
<1>4. DOMAIN element' = DOMAIN element \ {n} /\ \A m \in DOMAIN element' : element'[m] = element[m]
  BY <1>1 DEF Lru!Without
<1>5. DOMAIN m_cacheMap' = DOMAIN m_cacheMap \ {k} /\ \A j \in DOMAIN m_cacheMap' : m_cacheMap'[j] = m_cacheMap[j]
  BY <1>1 DEF Lru!Without
<1> HIDE DEF n
<1>6. \A m \in DOMAIN element' : element[m].key # k
  BY <1>4, <1>2 DEF LruInv, Iterators, n
<1>7. Iterators(m_cacheList', m_weakList', m_cacheMap', element')
  <2>0. m_weakList' = m_weakList \ {n} /\ Strong(m_cacheList') = Strong(m_cacheList)
    BY <1>1 DEF n
  <2>1. /\ DOMAIN element' = Strong(m_cacheList') \cup m_weakList' /\ Strong(m_cacheList') \cap m_weakList' = {}
        /\ m_weakList' \subseteq ListNodes
    BY <1>3, <1>4, <2>0 DEF LruInv, Iterators
  <2>2. \A m \in DOMAIN element' : element'[m].key \in DOMAIN m_cacheMap' /\ m_cacheMap'[element'[m].key] = m
    BY <1>4, <1>5, <1>6 DEF LruInv, Iterators
  <2>3. \A j \in DOMAIN m_cacheMap' : m_cacheMap'[j] \in DOMAIN element' /\ element'[m_cacheMap'[j]].key = j
    BY <1>2, <1>4, <1>5 DEF LruInv, Iterators
  <2> QED BY <2>1, <2>2, <2>3 DEF Iterators
<1>8. \A m \in Strong(m_cacheList) : element'[m] = element[m]
  BY <1>3, <1>4 DEF LruInv, Iterators
<1>9. Recent(m_cacheList', element', used')
  BY <1>1, <1>8 DEF LruInv, Recent, Strong
<1>10. Finds(m_cacheList', m_cacheMap', element', held', newest')
  <2>1. ASSUME NEW j \in DOMAIN m_cacheMap' PROVE j \in DOMAIN newest' /\ element'[m_cacheMap'[j]].value = newest'[j]
    <3>1. j \in DOMAIN m_cacheMap /\ m_cacheMap'[j] = m_cacheMap[j]
      BY <1>5, <2>1
    <3>2. m_cacheMap'[j] \in DOMAIN element'
      BY <1>7, <2>1 DEF Iterators
    <3> QED BY <1>1, <1>4, <3>1, <3>2 DEF LruInv, Finds
  <2>2. {element'[m].value : m \in Strong(m_cacheList')} = {element[m].value : m \in Strong(m_cacheList)}
    BY <1>1, <1>8
  <2>3. element[n].value = newest[k] /\ newest[k] \notin held \cup {element[m].value : m \in Strong(m_cacheList)}
    BY <1>1, AliveIs DEF LruInv, Finds, n
  <2> QED BY <1>1, <1>5, <2>1, <2>2, <2>3 DEF LruInv, Finds
<1> QED BY <1>1, <1>7, <1>9, <1>10 DEF LruInv

LEMMA LruInit == Lru!Init => LruInv
<1> SUFFICES ASSUME Lru!Init PROVE LruInv
  OBVIOUS
<1>1. m_cacheList = <<>> /\ used = <<>> /\ Len(<<>>) = 0 /\ Strong(<<>>) = {}
  BY DEF Lru!Init, Strong
<1>2. DOMAIN element = {} /\ DOMAIN m_cacheMap = {} /\ DOMAIN newest = {} /\ m_weakList = {}
  BY DEF Lru!Init, Lru!Nothing
<1> QED BY <1>1, <1>2, LimitAssumption DEF LruInv, Ordered, NoRepeats, Iterators, Recent, Finds

LEMMA LruStep == LruInv /\ Lru!Next => LruInv'
<1> SUFFICES ASSUME LruInv, Lru!Next PROVE LruInv'
  OBVIOUS
<1>1. CASE Lru!Clear
  <2>1. m_cacheList' = <<>> /\ used' = <<>> /\ Len(<<>>) = 0 /\ Strong(<<>>) = {}
    BY <1>1 DEF Lru!Clear, Strong
  <2>2. DOMAIN element' = {} /\ DOMAIN m_cacheMap' = {} /\ DOMAIN newest' = {} /\ m_weakList' = {}
    BY <1>1 DEF Lru!Clear, Lru!Nothing
  <2> QED BY <2>1, <2>2, LimitAssumption DEF LruInv, Ordered, NoRepeats, Iterators, Recent, Finds
<1>2. ASSUME NEW v \in Objects, Lru!Create(v) PROVE LruInv'
  <2>1. /\ v \notin held \cup {element[n].value : n \in DOMAIN element} /\ held' = held \cup {v}
        /\ newest' = [k \in {l \in DOMAIN newest : newest[l] # v} |-> newest[k]]
        /\ UNCHANGED <<m_cacheList, m_weakList, m_cacheMap, element, used>>
    BY <1>2 DEF Lru!Create, Lru!ValuesOf
  <2>2. \A k \in DOMAIN m_cacheMap : newest[k] # v
    BY <2>1 DEF LruInv, Iterators, Finds
  <2>3. \A k \in DOMAIN newest' : k \in DOMAIN newest /\ newest'[k] = newest[k] /\ newest[k] # v
    BY <2>1
  <2>4. \A k \in DOMAIN m_cacheMap : k \in DOMAIN newest'
    BY <2>1, <2>2 DEF LruInv, Finds
  <2>5. Finds(m_cacheList', m_cacheMap', element', held', newest')
    BY <2>1, <2>3, <2>4 DEF LruInv, Finds
  <2> QED BY <2>1, <2>5 DEF LruInv, Ordered, Iterators, Recent
<1>3. ASSUME NEW v \in Objects, Lru!Drop(v) PROVE LruInv'
  <2>1. held' \subseteq held /\ UNCHANGED <<m_cacheList, m_weakList, m_cacheMap, element, used, newest>>
    BY <1>3 DEF Lru!Drop
  <2>2. Finds(m_cacheList', m_cacheMap', element', held', newest')
    BY <2>1 DEF LruInv, Finds
  <2> QED BY <2>1, <2>2 DEF LruInv, Ordered, Iterators, Recent
<1> QED BY <1>1, <1>2, <1>3, InsertStep, GetStrongStep, GetWeakStep, GetExpiredStep DEF Lru!Next

LEMMA LruAgreed == LruInv => Lru!LruAgrees
<1> SUFFICES ASSUME LruInv PROVE Lru!LruAgrees
  OBVIOUS
<1>1. m_cacheList \in Seq(ListNodes) /\ used \in Seq(CacheKeys) /\ SizeLimit \in Nat
  BY LimitAssumption DEF LruInv, Ordered
<1>2. Lru!ToSet(m_cacheList) = Strong(m_cacheList)
  BY <1>1 DEF Lru!ToSet, Strong
<1>3. Lru!StrongIsRecent
  <2> DEFINE f == Lru!First(used, SizeLimit)
  <2>1. /\ f \in Seq(CacheKeys) /\ Len(f) = IF Len(used) <= SizeLimit THEN Len(used) ELSE SizeLimit
        /\ \A i \in 1..Len(f) : f[i] = used[i]
    BY <1>1, LimitAssumption DEF Lru!First
  <2>2. Len(f) = Len(m_cacheList)
    BY <1>1, <2>1 DEF LruInv, Recent
  <2>3. \A i \in 1..Len(m_cacheList) : element[m_cacheList[i]].key = f[i]
    BY <2>1, <2>2 DEF LruInv, Recent
  <2> HIDE DEF f
  <2>4. f = [i \in 1..Len(m_cacheList) |-> f[i]]
    BY <2>1, <2>2
  <2>5. [i \in 1..Len(m_cacheList) |-> element[m_cacheList[i]].key] = [i \in 1..Len(m_cacheList) |-> f[i]]
    BY <2>3
  <2> QED BY <2>4, <2>5 DEF Lru!StrongIsRecent, f
<1>4. Lru!MapPointsIntoLists
  BY <1>2 DEF LruInv, Iterators, Lru!MapPointsIntoLists
<1>5. Lru!FindsTheLiving
  BY AliveIs DEF LruInv, Finds, Lru!FindsTheLiving
<1> QED BY <1>3, <1>4, <1>5 DEF Lru!LruAgrees

-----------------------------------------------------------------------------
(* UnorderedMap: the elements of a map stand one to one for the pairs of its *)
(* contents.  A copy shares elements, so that only the keys of the two agree *)
(* from then on; before, no element is in two maps.                          *)

KeyOf(f, x) == f[x[2]].key

\* The multimap c, with the entries f, has one element for each pair in d.
StandsFor(c, d, f) ==
    /\ IsFiniteSet(c)
    /\ \A x \in c : /\ x[2] \in DOMAIN f /\ f[x[2]] \in [key : MapKeys, mapped : Mapped \cup {Default}]
                    /\ x = <<hasher(KeyOf(f, x)), x[2]>>
    /\ \A x, y \in c : pred(KeyOf(f, x), KeyOf(f, y)) => x = y
    /\ \A x \in c : \E y \in d : y[1] = KeyOf(f, x)
    /\ \A y \in d : y = <<y[1], y[2]>> /\ \E x \in c : y[1] = KeyOf(f, x)
    /\ \A y, z \in d : y[1] = z[1] => y = z
Current(c, d, f) == \A x \in c, y \in d : KeyOf(f, x) = y[1] => f[x[2]].mapped = y[2]
Apart(c) == \A m, n \in Maps : \A x \in c[m], y \in c[n] : x[2] = y[2] => m = n

MapInv == /\ DOMAIN m_container = Maps /\ DOMAIN contents = Maps /\ copied \in BOOLEAN
          /\ \A m \in Maps : StandsFor(m_container[m], contents[m], entry)
          /\ ~copied => Apart(m_container) /\ \A m \in Maps : Current(m_container[m], contents[m], entry)

\* Only keys and types of the entries matter.
LEMMA StandsForStep ==
  ASSUME NEW c, NEW d, NEW f, NEW g, StandsFor(c, d, f),
         \A x \in c : x[2] \in DOMAIN g /\ g[x[2]] \in [key : MapKeys, mapped : Mapped \cup {Default}]
                      /\ KeyOf(g, x) = KeyOf(f, x)
  PROVE  StandsFor(c, d, g)
  BY DEF StandsFor

\* Freeing the entries that are in no map is no loss to the maps.
LEMMA KeepStep ==
  ASSUME NEW c, NEW f, Map!Keep(c, f), DOMAIN c = Maps, DOMAIN contents' = Maps, copied' \in BOOLEAN,
         \A m \in Maps : StandsFor(c[m], contents'[m], f),
         ~copied' => Apart(c) /\ \A m \in Maps : Current(c[m], contents'[m], f)
  PROVE  MapInv'
<1>1. m_container' = c /\ entry' = [e \in {x[2] : x \in UNION {c[m] : m \in Maps}} |-> f[e]]
  BY DEF Map!Keep
<1>2. ASSUME NEW m \in Maps, NEW x \in c[m] PROVE x[2] \in DOMAIN entry' /\ entry'[x[2]] = f[x[2]]
  BY <1>1
<1>3. ASSUME NEW m \in Maps PROVE StandsFor(c[m], contents'[m], entry')
  <2>1. \A x \in c[m] : /\ x[2] \in DOMAIN entry' /\ KeyOf(entry', x) = KeyOf(f, x)
                        /\ entry'[x[2]] \in [key : MapKeys, mapped : Mapped \cup {Default}]
    BY <1>2 DEF StandsFor, KeyOf
  <2> QED BY <2>1, StandsForStep
<1>4. ASSUME NEW m \in Maps, Current(c[m], contents'[m], f) PROVE Current(c[m], contents'[m], entry')
  BY <1>2, <1>4 DEF Current, KeyOf
<1> QED BY <1>1, <1>3, <1>4 DEF MapInv

\* A lookup by hash and predicate finds the elements whose keys are equal, and trying
\* them all finds the same.
LEMMA Found ==
  ASSUME MapInv, NEW m \in Maps, NEW k \in MapKeys
  PROVE  /\ Map!FindKey(m, k) = {x[2] : x \in {y \in m_container[m] : pred(k, KeyOf(entry, y))}}
         /\ Map!FindLinear(m, k) = Map!FindKey(m, k)
<1>1. \A x \in m_container[m] : /\ x[2] \in DOMAIN entry /\ KeyOf(entry, x) \in MapKeys
                                /\ x = <<hasher(KeyOf(entry, x)), x[2]>>
  BY DEF MapInv, StandsFor, KeyOf
<1>2. ASSUME NEW e \in Map!FindKey(m, k)
      PROVE  e \in {x[2] : x \in {y \in m_container[m] : pred(k, KeyOf(entry, y))}}
  <2>1. <<hasher(k), e>> \in m_container[m] /\ pred(k, entry[e].key)
    BY <1>2 DEF Map!FindKey, Map!Find, Map!SameAs
  <2>2. <<hasher(k), e>>[2] = e
    OBVIOUS
  <2> QED BY <2>1, <2>2 DEF KeyOf
<1>3. ASSUME NEW x \in m_container[m], pred(k, KeyOf(entry, x)) PROVE x[2] \in Map!FindKey(m, k)
  <2>1. hasher(k) = hasher(KeyOf(entry, x))
    BY <1>1, <1>3, PredAssumption
  <2>2. <<hasher(k), x[2]>> \in m_container[m] /\ KeyOf(entry, x) \in Map!SameAs(k)
    BY <1>1, <1>3, <2>1 DEF Map!SameAs
  <2> QED BY <1>1, <2>2 DEF Map!FindKey, Map!Find, KeyOf
<1>4. ASSUME NEW e PROVE e \in Map!FindLinear(m, k) <=> e \in Map!FindKey(m, k)
  <2>1. ASSUME e \in Map!FindLinear(m, k) PROVE e \in Map!FindKey(m, k)
    <3>1. PICK x \in m_container[m] : x[2] = e /\ entry[e].key \in Map!SameAs(k)
      BY <2>1 DEF Map!FindLinear
    <3> QED BY <1>3, <3>1 DEF KeyOf, Map!SameAs
  <2>2. ASSUME e \in Map!FindKey(m, k) PROVE e \in Map!FindLinear(m, k)
    <3>1. PICK x \in m_container[m] : x[2] = e /\ pred(k, KeyOf(entry, x))
      BY <1>2, <2>2
    <3> QED BY <1>1, <3>1 DEF Map!FindLinear, Map!SameAs, KeyOf
  <2> QED BY <2>1, <2>2
<1> QED BY <1>2, <1>3, <1>4

\* The map has k if and only if its contents have an equal key.
LEMMA ContainsIs ==
  ASSUME MapInv, NEW m \in Maps, NEW k \in MapKeys
  PROVE  /\ Map!Contains(m, k) <=> \E x \in m_container[m] : pred(k, KeyOf(entry, x))
         /\ Map!Contains(m, k) <=> \E y \in contents[m] : y[1] \in Map!SameAs(k)
<1>1. Map!Contains(m, k) <=> \E x \in m_container[m] : pred(k, KeyOf(entry, x))
  BY Found DEF Map!Contains
<1>2. \A x \in m_container[m] : KeyOf(entry, x) \in MapKeys /\ \E y \in contents[m] : y[1] = KeyOf(entry, x)
  BY DEF MapInv, StandsFor, KeyOf
<1>3. \A y \in contents[m] : \E x \in m_container[m] : y[1] = KeyOf(entry, x)
  BY DEF MapInv, StandsFor
<1> QED BY <1>1, <1>2, <1>3 DEF Map!SameAs

\* A new element for a key that the map does not have
LEMMA NewEntryStep ==
  ASSUME MapInv, NEW m \in Maps, NEW k \in MapKeys, NEW v \in Mapped \cup {Default},
         ~Map!Contains(m, k), Map!NewEntry(m, k, v),
         contents' = [contents EXCEPT ![m] = @ \cup {<<k, v>>}], copied' = copied
  PROVE  MapInv'
<1> DEFINE x0 == <<hasher(k), Map!Fresh>>
           c == [m_container EXCEPT ![m] = @ \cup {x0}]
           f == [e \in DOMAIN entry \cup {Map!Fresh} |->
                   IF e = Map!Fresh THEN [key |-> k, mapped |-> v] ELSE entry[e]]
<1>1. Map!Fresh \notin DOMAIN entry
  BY DEF Map!NewEntry, Map!Fresh
<1>2. x0[2] = Map!Fresh /\ KeyOf(f, x0) = k /\ f[x0[2]] = [key |-> k, mapped |-> v] /\ x0[2] \in DOMAIN f
  BY DEF KeyOf
<1>3. \A e \in DOMAIN entry : e \in DOMAIN f /\ f[e] = entry[e]
  BY <1>1
<1>4. Map!Keep(c, f)
  BY DEF Map!NewEntry
<1>5. x0 = <<hasher(KeyOf(f, x0)), x0[2]>>
  BY <1>2
<1> HIDE DEF x0, f
<1>6. ASSUME NEW n \in Maps
      PROVE  /\ StandsFor(m_container[n], contents[n], f)
             /\ ~copied => Current(m_container[n], contents[n], f)
             /\ \A x \in m_container[n] : x[2] \in DOMAIN entry /\ KeyOf(f, x) = KeyOf(entry, x)
  <2>1. StandsFor(m_container[n], contents[n], entry)
    BY DEF MapInv
  <2>2. \A x \in m_container[n] : x[2] \in DOMAIN entry /\ KeyOf(f, x) = KeyOf(entry, x)
    BY <1>3, <2>1 DEF StandsFor, KeyOf
  <2>3. \A x \in m_container[n] : /\ x[2] \in DOMAIN f /\ f[x[2]] \in [key : MapKeys, mapped : Mapped \cup {Default}]
    BY <1>3, <2>1 DEF StandsFor
  <2>4. StandsFor(m_container[n], contents[n], f)
    BY <2>1, <2>2, <2>3, StandsForStep
  <2>5. ~copied => Current(m_container[n], contents[n], f)
    BY <1>3, <2>2 DEF MapInv, Current
  <2> QED BY <2>2, <2>4, <2>5
<1>7. /\ c[m] = m_container[m] \cup {x0} /\ contents'[m] = contents[m] \cup {<<k, v>>}
      /\ \A n \in Maps \ {m} : c[n] = m_container[n] /\ contents'[n] = contents[n]
      /\ DOMAIN c = Maps /\ DOMAIN contents' = Maps
  BY DEF MapInv
<1> HIDE DEF c
<1>8. \A x \in m_container[m] : KeyOf(f, x) \in MapKeys /\ ~pred(k, KeyOf(f, x)) /\ ~pred(KeyOf(f, x), k) /\ KeyOf(f, x) # k
  <2>1. \A x \in m_container[m] : KeyOf(f, x) \in MapKeys /\ ~pred(k, KeyOf(f, x))
    BY <1>6, ContainsIs DEF StandsFor, KeyOf
  <2> QED BY <2>1, PredAssumption
<1>9. StandsFor(c[m], contents'[m], f)
  <2>1. IsFiniteSet(c[m])
    <3>1. IsFiniteSet(m_container[m])
      BY DEF MapInv, StandsFor
    <3>2. IsFiniteSet(m_container[m] \cup {x0})
      BY <3>1, FS_AddElement
    <3> QED BY <1>7, <3>2
  <2>2. \A x \in c[m] : /\ x[2] \in DOMAIN f /\ f[x[2]] \in [key : MapKeys, mapped : Mapped \cup {Default}]
                        /\ x = <<hasher(KeyOf(f, x)), x[2]>>
    BY <1>2, <1>5, <1>6, <1>7 DEF StandsFor
  <2>3. \A x, y \in c[m] : pred(KeyOf(f, x), KeyOf(f, y)) => x = y
    BY <1>2, <1>6, <1>7, <1>8 DEF StandsFor
  <2>4. ASSUME NEW x \in c[m] PROVE \E y \in contents'[m] : y[1] = KeyOf(f, x)
    <3>1. CASE x = x0
      <4>1. <<k, v>> \in contents'[m] /\ <<k, v>>[1] = k
        BY <1>7
      <4> QED BY <1>2, <3>1, <4>1
    <3>2. CASE x \in m_container[m]
      <4>1. PICK y \in contents[m] : y[1] = KeyOf(f, x)
        BY <1>6, <3>2 DEF StandsFor
      <4> QED BY <1>7, <4>1
    <3> QED BY <1>7, <2>4, <3>1, <3>2
  <2>5. \A y \in contents'[m] : y = <<y[1], y[2]>> /\ \E x \in c[m] : y[1] = KeyOf(f, x)
    BY <1>2, <1>6, <1>7 DEF StandsFor
  <2>6. \A y \in contents[m] : y[1] # k
    BY <1>6, <1>8 DEF StandsFor
  <2>7. \A y, z \in contents'[m] : y[1] = z[1] => y = z
    BY <1>6, <1>7, <2>6 DEF StandsFor
  <2> QED BY <2>1, <2>2, <2>3, <2>4, <2>5, <2>7 DEF StandsFor
<1>10. ASSUME ~copied PROVE Current(c[m], contents'[m], f)
  <2>1. \A y \in contents[m] : y[1] # k
    BY <1>6, <1>8 DEF StandsFor
  <2> QED BY <1>2, <1>6, <1>7, <1>8, <1>10, <2>1 DEF Current
<1>11. ASSUME ~copied PROVE Apart(c)
  <2>1. \A n \in Maps : \A x \in m_container[n] : x[2] # x0[2]
    BY <1>1, <1>2, <1>6
  <2> QED BY <1>7, <1>11, <2>1 DEF MapInv, Apart
<1>12. \A n \in Maps : StandsFor(c[n], contents'[n], f)
  BY <1>6, <1>7, <1>9
<1>13. ~copied => \A n \in Maps : Current(c[n], contents'[n], f)
  BY <1>6, <1>7, <1>10
<1> QED BY <1>4, <1>7, <1>11, <1>12, <1>13, KeepStep DEF MapInv

\* emplace() and its like, of the mapped type's default value too
LEMMA EmplaceStep ==
  ASSUME MapInv, NEW m \in Maps, NEW k \in MapKeys, NEW v \in Mapped \cup {Default}, Map!Emplace(m, k, v)
  PROVE  MapInv'
<1>1. CASE Map!Contains(m, k)
  <2>1. UNCHANGED <<m_container, entry, contents, copied>>
    BY <1>1, ContainsIs DEF Map!Emplace
  <2> QED BY <2>1 DEF MapInv
<1>2. CASE ~Map!Contains(m, k)
  <2>1. Map!NewEntry(m, k, v) /\ contents' = [contents EXCEPT ![m] = @ \cup {<<k, v>>}] /\ copied' = copied
    BY <1>2, ContainsIs DEF Map!Emplace
  <2> QED BY <1>2, <2>1, NewEntryStep
<1> QED BY <1>1, <1>2

\* An assignment to an element that is there: it is the only one with an equal key, in
\* this map and, before anything was copied, in any.
LEMMA AssignStep ==
  ASSUME MapInv, NEW m \in Maps, NEW k \in MapKeys, NEW v \in Mapped,
         Map!Contains(m, k), Map!InsertOrAssign(m, k, v)
  PROVE  MapInv'
<1> DEFINE Changed(y) == <<y[1], IF y[1] \in Map!SameAs(k) THEN v ELSE y[2]>>
           d == {Changed(y) : y \in contents[m]}
<1>1. PICK e \in Map!FindKey(m, k) : entry' = [entry EXCEPT ![e].mapped = v]
  BY DEF Map!InsertOrAssign
<1>2. m_container' = m_container /\ copied' = copied
  BY DEF Map!InsertOrAssign
<1>3. contents' = [contents EXCEPT ![m] = d]
  BY ContainsIs DEF Map!InsertOrAssign
<1>4. PICK x0 \in m_container[m] : x0[2] = e /\ pred(k, KeyOf(entry, x0))
  BY Found
<1>5. ASSUME NEW n \in Maps, NEW x \in m_container[n]
      PROVE  /\ x[2] \in DOMAIN entry' /\ entry'[x[2]] \in [key : MapKeys, mapped : Mapped \cup {Default}]
             /\ KeyOf(entry', x) = KeyOf(entry, x) /\ KeyOf(entry, x) \in MapKeys
             /\ entry'[x[2]].mapped = IF x[2] = e THEN v ELSE entry[x[2]].mapped
  <2>1. x[2] \in DOMAIN entry /\ entry[x[2]] \in [key : MapKeys, mapped : Mapped \cup {Default}]
    BY DEF MapInv, StandsFor
  <2> QED BY <1>1, <2>1 DEF KeyOf
<1>6. ASSUME NEW n \in Maps PROVE StandsFor(m_container[n], contents[n], entry')
  BY <1>5, StandsForStep DEF MapInv
<1>7. contents'[m] = d /\ \A n \in Maps \ {m} : contents'[n] = contents[n]
  BY <1>3 DEF MapInv
<1>8. \A y \in contents[m] : Changed(y)[1] = y[1] /\ Changed(y) = <<Changed(y)[1], Changed(y)[2]>>
  OBVIOUS
<1>9. StandsFor(m_container[m], d, entry')
  <2>1. StandsFor(m_container[m], contents[m], entry')
    BY <1>6
  <2> HIDE DEF Changed
  <2>2. \A x \in m_container[m] : \E y \in d : y[1] = KeyOf(entry', x)
    BY <1>8, <2>1 DEF StandsFor
  <2>3. \A y \in d : y = <<y[1], y[2]>> /\ \E x \in m_container[m] : y[1] = KeyOf(entry', x)
    BY <1>8, <2>1 DEF StandsFor
  <2>4. \A y, z \in d : y[1] = z[1] => y = z
    BY <1>8, <2>1 DEF StandsFor
  <2> QED BY <2>1, <2>2, <2>3, <2>4 DEF StandsFor
<1>10. ASSUME ~copied, NEW n \in Maps PROVE Current(m_container'[n], contents'[n], entry')
  <2>1. SUFFICES ASSUME NEW x \in m_container[n], NEW y \in contents'[n], KeyOf(entry', x) = y[1]
                 PROVE  entry'[x[2]].mapped = y[2]
    BY <1>2 DEF Current
  <2>2. Current(m_container[n], contents[n], entry)
    BY <1>10 DEF MapInv
  <2>3. CASE n # m
    <3>1. x[2] # e
      BY <1>4, <1>10, <2>3 DEF MapInv, Apart
    <3> QED BY <1>5, <1>7, <2>1, <2>2, <2>3, <3>1 DEF Current
  <2>4. CASE n = m
    <3>1. PICK z \in contents[m] : y = Changed(z)
      BY <1>7, <2>1, <2>4
    <3>2. z[1] = KeyOf(entry, x) /\ entry[x[2]].mapped = z[2]
      BY <1>5, <2>1, <2>2, <2>4, <3>1 DEF Current
    <3>3. CASE x[2] = e
      <4>1. x = x0
        BY <1>4, <2>4, <3>3 DEF MapInv, StandsFor, KeyOf
      <4>2. z[1] \in Map!SameAs(k)
        BY <1>4, <1>5, <2>4, <3>2, <4>1 DEF Map!SameAs
      <4> QED BY <1>5, <3>1, <3>3, <4>2
    <3>4. CASE x[2] # e
      <4>1. ~pred(k, KeyOf(entry, x))
        <5>1. KeyOf(entry, x) \in MapKeys /\ KeyOf(entry, x0) \in MapKeys
          BY <1>5, <2>4
        <5>2. pred(KeyOf(entry, x), KeyOf(entry, x0)) => x = x0
          BY <2>4 DEF MapInv, StandsFor
        <5> QED BY <1>4, <3>4, <5>1, <5>2, PredAssumption
      <4> QED BY <1>5, <2>4, <3>1, <3>2, <3>4, <4>1 DEF Map!SameAs
    <3> QED BY <3>3, <3>4
  <2> QED BY <2>3, <2>4
<1>11. \A n \in Maps : StandsFor(m_container'[n], contents'[n], entry')
  BY <1>2, <1>6, <1>7, <1>9
<1>12. DOMAIN m_container' = Maps /\ DOMAIN contents' = Maps /\ copied' \in BOOLEAN
  BY <1>2, <1>3 DEF MapInv
<1>13. ~copied => Apart(m_container')
  BY <1>2 DEF MapInv
<1> QED BY <1>2, <1>10, <1>11, <1>12, <1>13 DEF MapInv

LEMMA InsertOrAssignStep ==
  ASSUME MapInv, NEW m \in Maps, NEW k \in MapKeys, NEW v \in Mapped, Map!InsertOrAssign(m, k, v)
  PROVE  MapInv'
<1>1. CASE ~Map!Contains(m, k)
  <2>1. Map!NewEntry(m, k, v) /\ contents' = [contents EXCEPT ![m] = @ \cup {<<k, v>>}] /\ copied' = copied
    BY <1>1, ContainsIs DEF Map!InsertOrAssign
  <2> QED BY <1>1, <2>1, NewEntryStep
<1> QED BY <1>1, AssignStep

\* Without the elements whose keys are in K, the map stands for the pairs whose are not.
LEMMA Erased ==
  ASSUME NEW c, NEW d, NEW f, NEW K, StandsFor(c, d, f)
  PROVE  StandsFor({x \in c : KeyOf(f, x) \notin K}, {y \in d : y[1] \notin K}, f)
<1> DEFINE b == {x \in c : KeyOf(f, x) \notin K}
<1>1. IsFiniteSet(c) /\ b \in SUBSET c
  BY DEF StandsFor
<1>2. IsFiniteSet(b)
  <2> HIDE DEF b
  <2> QED BY <1>1, FS_Subset
<1> QED BY <1>2 DEF StandsFor

\* Elements of one map go, or all.
LEMMA EraseStep ==
  ASSUME MapInv, NEW m \in Maps, NEW K,
         Map!Keep([m_container EXCEPT ![m] = {x \in @ : KeyOf(entry, x) \notin K}], entry),
         contents' = [contents EXCEPT ![m] = {y \in @ : y[1] \notin K}], copied' = copied
  PROVE  MapInv'
<1> DEFINE c == [m_container EXCEPT ![m] = {x \in @ : KeyOf(entry, x) \notin K}]
<1>1. /\ c[m] = {x \in m_container[m] : KeyOf(entry, x) \notin K}
      /\ contents'[m] = {y \in contents[m] : y[1] \notin K}
      /\ \A n \in Maps \ {m} : c[n] = m_container[n] /\ contents'[n] = contents[n]
      /\ DOMAIN c = Maps /\ DOMAIN contents' = Maps
  BY DEF MapInv
<1>2. Map!Keep(c, entry)
  OBVIOUS
<1> HIDE DEF c
<1>3. ASSUME NEW n \in Maps PROVE StandsFor(c[n], contents'[n], entry)
  <2>1. StandsFor(m_container[n], contents[n], entry)
    BY DEF MapInv
  <2>2. CASE n = m
    <3>1. StandsFor({x \in m_container[n] : KeyOf(entry, x) \notin K}, {y \in contents[n] : y[1] \notin K}, entry)
      BY <2>1, Erased
    <3> QED BY <1>1, <2>2, <3>1
  <2> QED BY <1>1, <2>1, <2>2
<1>4. \A n \in Maps : c[n] \subseteq m_container[n] /\ contents'[n] \subseteq contents[n]
  BY <1>1
<1>5. ~copied => Apart(c) /\ \A n \in Maps : Current(c[n], contents'[n], entry)
  BY <1>4 DEF MapInv, Apart, Current
<1> QED BY <1>1, <1>2, <1>3, <1>5, KeepStep DEF MapInv

LEMMA MapInit == Map!Init => MapInv
<1> SUFFICES ASSUME Map!Init PROVE MapInv
  OBVIOUS
<1>1. \A m \in Maps : m_container[m] = {} /\ contents[m] = {}
  BY DEF Map!Init
<1> QED BY <1>1, FS_EmptySet DEF Map!Init, MapInv, StandsFor, Apart, Current

LEMMA MapStep == MapInv /\ Map!Next => MapInv'
<1> SUFFICES ASSUME MapInv, Map!Next PROVE MapInv'
  OBVIOUS
<1>0. DOMAIN m_container = Maps /\ DOMAIN contents = Maps /\ copied \in BOOLEAN
  BY DEF MapInv
<1>1. ASSUME NEW m \in Maps, NEW k \in MapKeys, Map!Erase(m, k) PROVE MapInv'
  <2>1. {x \in m_container[m] : x[2] \notin Map!FindKey(m, k)} = {x \in m_container[m] : KeyOf(entry, x) \notin Map!SameAs(k)}
    <3>1. ASSUME NEW x \in m_container[m] PROVE x[2] \in Map!FindKey(m, k) <=> KeyOf(entry, x) \in Map!SameAs(k)
      <4>1. KeyOf(entry, x) \in MapKeys
        BY DEF MapInv, StandsFor, KeyOf
      <4> QED BY <4>1, Found DEF Map!SameAs, KeyOf
    <3> QED BY <3>1
  <2>2. [m_container EXCEPT ![m] = {x \in @ : x[2] \notin Map!FindKey(m, k)}]
          = [m_container EXCEPT ![m] = {x \in @ : KeyOf(entry, x) \notin Map!SameAs(k)}]
    BY <2>1
  <2> QED BY <1>1, <2>2, EraseStep DEF Map!Erase
<1>2. ASSUME NEW m \in Maps, NEW k \in MapKeys, Map!EraseLinear(m, k) PROVE MapInv'
  <2>1. PICK e \in Map!FindLinear(m, k) :
          /\ Map!Keep([m_container EXCEPT ![m] = {x \in @ : x[2] # e}], entry)
          /\ contents' = [contents EXCEPT ![m] = {x \in @ : x[1] \notin Map!SameAs(k)}] /\ copied' = copied
    BY <1>2 DEF Map!EraseLinear
  <2>2. PICK x0 \in m_container[m] : x0[2] = e /\ pred(k, KeyOf(entry, x0))
    BY Found
  <2>3. ASSUME NEW x \in m_container[m] PROVE x[2] = e <=> KeyOf(entry, x) \in Map!SameAs(k)
    <3>1. KeyOf(entry, x) \in MapKeys /\ KeyOf(entry, x0) \in MapKeys
      BY DEF MapInv, StandsFor, KeyOf
    <3>2. pred(KeyOf(entry, x), KeyOf(entry, x0)) => x = x0
      BY DEF MapInv, StandsFor
    <3>3. pred(k, KeyOf(entry, x)) => x = x0
      BY <2>2, <3>1, <3>2, PredAssumption
    <3> QED BY <2>2, <3>1, <3>3 DEF Map!SameAs, KeyOf
  <2>4. {x \in m_container[m] : x[2] # e} = {x \in m_container[m] : KeyOf(entry, x) \notin Map!SameAs(k)}
    BY <2>3
  <2>5. [m_container EXCEPT ![m] = {x \in @ : x[2] # e}]
          = [m_container EXCEPT ![m] = {x \in @ : KeyOf(entry, x) \notin Map!SameAs(k)}]
    BY <2>4
  <2> QED BY <2>1, <2>5, EraseStep
<1>3. ASSUME NEW m \in Maps, Map!Clear(m) PROVE MapInv'
  <2> DEFINE K == MapKeys
  <2>1. {x \in m_container[m] : KeyOf(entry, x) \notin K} = {} /\ {y \in contents[m] : y[1] \notin K} = {}
    BY DEF MapInv, StandsFor, KeyOf
  <2>2. /\ [m_container EXCEPT ![m] = {}] = [m_container EXCEPT ![m] = {x \in @ : KeyOf(entry, x) \notin K}]
        /\ [contents EXCEPT ![m] = {}] = [contents EXCEPT ![m] = {y \in @ : y[1] \notin K}]
    BY <2>1
  <2>3. Map!Keep([m_container EXCEPT ![m] = {}], entry) /\ contents' = [contents EXCEPT ![m] = {}] /\ copied' = copied
    BY <1>3 DEF Map!Clear
  <2> QED BY <2>2, <2>3, EraseStep
<1>4. ASSUME NEW m \in Maps, NEW n \in Maps, Map!Swap(m, n) PROVE MapInv'
  <2>1. /\ m_container' = [m_container EXCEPT ![m] = m_container[n], ![n] = m_container[m]]
        /\ contents' = [contents EXCEPT ![m] = contents[n], ![n] = contents[m]]
        /\ entry' = entry /\ copied' = copied
    BY <1>4 DEF Map!Swap
  <2> DEFINE From(l) == IF l = n THEN m ELSE IF l = m THEN n ELSE l
  <2>2. \A l \in Maps : /\ From(l) \in Maps /\ m_container'[l] = m_container[From(l)] /\ contents'[l] = contents[From(l)]
                        /\ From(From(l)) = l
    BY <1>0, <2>1
  <2>3. DOMAIN m_container' = Maps /\ DOMAIN contents' = Maps
    BY <1>0, <2>1
  <2> HIDE DEF From
  <2>4. \A l \in Maps : StandsFor(m_container'[l], contents'[l], entry')
    BY <2>1, <2>2 DEF MapInv
  <2>5. ~copied => Apart(m_container') /\ \A l \in Maps : Current(m_container'[l], contents'[l], entry')
    BY <2>1, <2>2 DEF MapInv, Apart
  <2> QED BY <1>0, <2>1, <2>3, <2>4, <2>5 DEF MapInv
<1>5. ASSUME NEW m \in Maps, NEW n \in Maps, Map!Copy(m, n) PROVE MapInv'
  <2> DEFINE c == [m_container EXCEPT ![m] = m_container[n]]
  <2>1. /\ m # n /\ Map!Keep(c, entry) /\ contents' = [contents EXCEPT ![m] = contents[n]]
        /\ copied' = (copied \/ m_container[n] # {})
    BY <1>5 DEF Map!Copy
  <2>2. /\ c[m] = m_container[n] /\ contents'[m] = contents[n] /\ DOMAIN c = Maps /\ DOMAIN contents' = Maps
        /\ \A l \in Maps \ {m} : c[l] = m_container[l] /\ contents'[l] = contents[l]
    BY <1>0, <2>1
  <2> HIDE DEF c
  <2>3. \A l \in Maps : StandsFor(c[l], contents'[l], entry)
    BY <2>2 DEF MapInv
  <2>4. ASSUME ~copied' PROVE Apart(c) /\ \A l \in Maps : Current(c[l], contents'[l], entry)
    <3>1. ~copied /\ c[m] = {}
      BY <1>0, <2>1, <2>2, <2>4
    <3>2. \A l \in Maps : c[l] \subseteq m_container[l]
      BY <2>2, <3>1
    <3> QED BY <2>2, <3>1, <3>2 DEF MapInv, Apart, Current
  <2>5. copied' \in BOOLEAN
    BY <1>0, <2>1
  <2> QED BY <2>1, <2>2, <2>3, <2>4, <2>5, KeepStep
<1>6. ASSUME NEW m \in Maps, NEW n \in Maps, Map!Move(m, n) PROVE MapInv'
  <2> DEFINE c == [m_container EXCEPT ![m] = m_container[n], ![n] = {}]
  <2>1. m # n /\ Map!Keep(c, entry) /\ contents' = [contents EXCEPT ![m] = contents[n], ![n] = {}] /\ copied' = copied
    BY <1>6 DEF Map!Move
  <2>2. /\ c[m] = m_container[n] /\ contents'[m] = contents[n] /\ DOMAIN c = Maps /\ DOMAIN contents' = Maps
        /\ c[n] = {} /\ contents'[n] = {}
        /\ \A l \in Maps \ {m, n} : c[l] = m_container[l] /\ contents'[l] = contents[l]
    BY <1>0, <2>1
  <2> HIDE DEF c
  <2>3. \A l \in Maps : StandsFor(c[l], contents'[l], entry)
    <3>1. StandsFor({}, {}, entry)
      BY FS_EmptySet DEF StandsFor
    <3> QED BY <2>2, <3>1 DEF MapInv
  <2>4. ASSUME ~copied PROVE Apart(c) /\ \A l \in Maps : Current(c[l], contents'[l], entry)
    <3>1. Current({}, {}, entry)
      BY DEF Current
    <3>2. \A l \in Maps : Current(c[l], contents'[l], entry)
      BY <2>2, <2>4, <3>1 DEF MapInv
    <3> DEFINE From(l) == IF l = m THEN n ELSE l
    <3>3. \A l \in Maps : From(l) \in Maps /\ \A x \in c[l] : l # n /\ x \in m_container[From(l)]
      BY <2>2
    <3>4. \A l, j \in Maps : l # n /\ j # n /\ From(l) = From(j) => l = j
      BY <2>1
    <3> HIDE DEF From
    <3>5. Apart(c)
      BY <2>4, <3>3, <3>4 DEF MapInv, Apart
    <3> QED BY <3>2, <3>5
  <2> QED BY <1>0, <2>1, <2>2, <2>3, <2>4, KeepStep
<1>7. ASSUME NEW m \in Maps, NEW k \in MapKeys, NEW v \in Mapped,
             Map!Emplace(m, k, v) \/ Map!InsertOrAssign(m, k, v) \/ Map!AssignAt(m, k, v)
      PROVE  MapInv'
  BY <1>7, EmplaceStep, InsertOrAssignStep DEF Map!AssignAt
<1>8. ASSUME NEW m \in Maps, NEW k \in MapKeys, Map!Subscript(m, k) PROVE MapInv'
  BY <1>8, EmplaceStep DEF Map!Subscript
<1> QED BY <1>1, <1>2, <1>3, <1>4, <1>5, <1>6, <1>7, <1>8 DEF Map!Next

LEMMA MapCardinality ==
  ASSUME NEW S
  PROVE  Map!Cardinality(S) = Cardinality(S)
  BY DEF Map!Cardinality, Cardinality

\* There are as many elements as pairs.
LEMMA SameSize ==
  ASSUME NEW c, NEW d, NEW f, StandsFor(c, d, f)
  PROVE  IsFiniteSet(d) /\ Cardinality(d) = Cardinality(c)
<1> DEFINE g == [x \in c |-> CHOOSE y \in d : y[1] = KeyOf(f, x)]
<1>1. \A x \in c : g[x] \in d /\ g[x][1] = KeyOf(f, x)
  BY DEF StandsFor
<1>2. ASSUME NEW x \in c, NEW y \in c, g[x] = g[y] PROVE x = y
  <2>1. KeyOf(f, x) = KeyOf(f, y) /\ KeyOf(f, x) \in MapKeys
    BY <1>1, <1>2 DEF StandsFor, KeyOf
  <2>2. pred(KeyOf(f, x), KeyOf(f, y))
    BY <2>1, PredAssumption
  <2> QED BY <2>2 DEF StandsFor
<1>3. ASSUME NEW y \in d PROVE \E x \in c : g[x] = y
  <2>1. PICK x \in c : y[1] = KeyOf(f, x)
    BY DEF StandsFor
  <2> QED BY <1>1, <2>1 DEF StandsFor
<1>4. g \in [c -> d]
  BY <1>1
<1>5. g \in Bijection(c, d)
  <2> HIDE DEF g
  <2> QED BY <1>2, <1>3, <1>4 DEF Bijection, Injection, Surjection, IsInjective
<1>6. ExistsBijection(c, d)
  BY <1>5 DEF ExistsBijection
<1> QED BY <1>6, FS_Bijection DEF StandsFor

LEMMA KeysAgreed ==
  ASSUME MapInv
  PROVE  Map!KeysAgree
<1>1. ASSUME NEW m \in Maps PROVE Map!Cardinality(m_container[m]) = Map!Cardinality(contents[m])
  BY SameSize, MapCardinality DEF MapInv
<1>2. ASSUME NEW m \in Maps, NEW k \in MapKeys
      PROVE  LET found == {entry[e].key : e \in Map!FindKey(m, k)} IN
             /\ found = {x[1] : x \in {y \in contents[m] : pred(k, y[1])}}
             /\ Map!Cardinality(found) <= 1 /\ Map!FindLinear(m, k) = Map!FindKey(m, k)
  <2> DEFINE found == {entry[e].key : e \in Map!FindKey(m, k)}
  <2>1. found = {KeyOf(entry, x) : x \in {y \in m_container[m] : pred(k, KeyOf(entry, y))}}
    BY Found DEF KeyOf
  <2>2. found = {x[1] : x \in {y \in contents[m] : pred(k, y[1])}}
    <3> HIDE DEF found
    <3> QED BY <2>1 DEF MapInv, StandsFor
  <2>3. ASSUME NEW a \in found, NEW b \in found PROVE a = b
    <3> HIDE DEF found
    <3>1. PICK x \in m_container[m] : a = KeyOf(entry, x) /\ pred(k, KeyOf(entry, x))
      BY <2>1
    <3>2. PICK y \in m_container[m] : b = KeyOf(entry, y) /\ pred(k, KeyOf(entry, y))
      BY <2>1
    <3>3. KeyOf(entry, x) \in MapKeys /\ KeyOf(entry, y) \in MapKeys
      BY DEF MapInv, StandsFor, KeyOf
    <3>4. pred(KeyOf(entry, x), KeyOf(entry, y))
      BY <3>1, <3>2, <3>3, PredAssumption
    <3>5. x = y
      BY <3>4 DEF MapInv, StandsFor
    <3> QED BY <3>1, <3>2, <3>5
  <2>4. Cardinality(found) <= 1
    <3> HIDE DEF found
    <3>1. CASE found = {}
      BY <3>1, FS_EmptySet
    <3>2. CASE found # {}
      <4>1. PICK a : a \in found
        BY <3>2
      <4>2. found = {a}
        BY <2>3, <4>1
      <4>3. Cardinality({a}) = 1
        BY FS_Singleton
      <4> QED BY <4>2, <4>3
    <3> QED BY <3>1, <3>2
  <2> QED BY <2>2, <2>4, Found, MapCardinality
<1> QED BY <1>1, <1>2 DEF Map!KeysAgree

LEMMA ValuesAgreed ==
  ASSUME MapInv
  PROVE  Map!ValuesAgree
<1> SUFFICES ASSUME ~copied
             PROVE  /\ \A m \in Maps : \A x \in contents[m] : \A e \in Map!FindKey(m, x[1]) : entry[e].mapped = x[2]
                    /\ \A m, n \in Maps : Map!Equal(m, n) <=> contents[m] = contents[n]
  BY DEF Map!ValuesAgree
<1>1. ASSUME NEW m \in Maps, NEW y \in contents[m]
      PROVE  /\ y[1] \in MapKeys /\ \A e \in Map!FindKey(m, y[1]) : entry[e].key = y[1] /\ entry[e].mapped = y[2]
             /\ \E e \in Map!FindKey(m, y[1]) : TRUE
  <2>1. PICK x \in m_container[m] : y[1] = KeyOf(entry, x)
    BY DEF MapInv, StandsFor
  <2>2. KeyOf(entry, x) \in MapKeys
    BY DEF MapInv, StandsFor, KeyOf
  <2>3. x[2] \in Map!FindKey(m, y[1])
    BY <2>1, <2>2, Found, PredAssumption
  <2>4. ASSUME NEW e \in Map!FindKey(m, y[1]) PROVE e = x[2]
    <3>1. PICK z \in m_container[m] : z[2] = e /\ pred(y[1], KeyOf(entry, z))
      BY <2>1, <2>2, Found
    <3>2. z = x
      BY <2>1, <3>1 DEF MapInv, StandsFor
    <3> QED BY <3>1, <3>2
  <2>5. entry[x[2]].mapped = y[2]
    BY <2>1 DEF MapInv, Current
  <2> QED BY <2>1, <2>2, <2>3, <2>4, <2>5 DEF KeyOf
<1>2. ASSUME NEW m \in Maps, NEW n \in Maps, contents[m] = contents[n] PROVE Map!Equal(m, n)
  <2>1. Map!Cardinality(m_container[m]) = Map!Cardinality(m_container[n])
    <3>1. Cardinality(m_container[m]) = Cardinality(contents[m]) /\ Cardinality(m_container[n]) = Cardinality(contents[n])
      BY SameSize DEF MapInv
    <3> QED BY <1>2, <3>1, MapCardinality
  <2>2. ASSUME NEW x \in m_container[m]
        PROVE  \E e \in Map!FindKey(n, entry[x[2]].key) : entry[e] = entry[x[2]]
    <3>1. PICK y \in contents[m] : y[1] = KeyOf(entry, x)
      BY DEF MapInv, StandsFor
    <3>2. entry[x[2]].mapped = y[2]
      BY <3>1 DEF MapInv, Current
    <3>3. PICK e \in Map!FindKey(n, y[1]) : entry[e].key = y[1] /\ entry[e].mapped = y[2]
      BY <1>1, <1>2
    <3>4. PICK z \in m_container[n] : z[2] = e
      BY <1>1, <1>2, Found
    <3>5. /\ entry[x[2]] \in [key : MapKeys, mapped : Mapped \cup {Default}]
          /\ entry[e] \in [key : MapKeys, mapped : Mapped \cup {Default}]
      BY <3>4 DEF MapInv, StandsFor
    <3>6. entry[e] = entry[x[2]]
      BY <3>1, <3>2, <3>3, <3>5 DEF KeyOf
    <3> QED BY <3>1, <3>3, <3>6 DEF KeyOf
  <2> QED BY <2>1, <2>2 DEF Map!Equal
<1>3. ASSUME NEW m \in Maps, NEW n \in Maps, Map!Equal(m, n) PROVE contents[m] = contents[n]
  <2>1. IsFiniteSet(contents[m]) /\ IsFiniteSet(contents[n]) /\ Cardinality(contents[m]) = Cardinality(contents[n])
    <3>1. Cardinality(m_container[m]) = Cardinality(m_container[n])
      BY <1>3, MapCardinality DEF Map!Equal
    <3> QED BY <3>1, SameSize DEF MapInv
  <2>2. ASSUME NEW y \in contents[m] PROVE y \in contents[n]
    <3>1. PICK x \in m_container[m] : y[1] = KeyOf(entry, x)
      BY DEF MapInv, StandsFor
    <3>2. entry[x[2]].mapped = y[2]
      BY <3>1 DEF MapInv, Current
    <3>3. PICK e \in Map!FindKey(n, y[1]) : entry[e] = entry[x[2]]
      BY <1>3, <3>1 DEF Map!Equal, KeyOf
    <3>4. PICK x2 \in m_container[n] : x2[2] = e
      BY <1>1, Found
    <3>5. PICK z \in contents[n] : z[1] = KeyOf(entry, x2)
      BY DEF MapInv, StandsFor
    <3>6. entry[x2[2]].mapped = z[2]
      BY <3>5 DEF MapInv, Current
    <3>7. z[1] = y[1] /\ z[2] = y[2]
      BY <3>1, <3>2, <3>3, <3>4, <3>5, <3>6 DEF KeyOf
    <3>8. z = <<z[1], z[2]>> /\ y = <<y[1], y[2]>>
      BY DEF MapInv, StandsFor
    <3> QED BY <3>7, <3>8
  <2>3. contents[m] \in SUBSET contents[n]
    BY <2>2
  <2> QED BY <2>1, <2>3, FS_Subset
<1> QED BY <1>1, <1>2, <1>3

LEMMA MapAgreed == MapInv => Map!MapAgrees
  BY KeysAgreed, ValuesAgreed DEF Map!MapAgrees

-----------------------------------------------------------------------------
(* BitVec: the place of a bit is its block and its position there; places    *)
(* are different for different bits.                                         *)

LEMMA Product ==
  ASSUME NEW c \in Nat
  PROVE  BitsPerBlock * c \in Nat
  BY BlockAssumption

LEMMA Monotone ==
  ASSUME NEW a \in Int, NEW b \in Int, a < b
  PROVE  BitsPerBlock * a + BitsPerBlock <= BitsPerBlock * b
<1>1. b - a - 1 \in Nat
  OBVIOUS
<1>2. BitsPerBlock * (b - a - 1) \in Nat
  BY <1>1, Product
<1>3. BitsPerBlock * (b - a - 1) = BitsPerBlock * b - BitsPerBlock * a - BitsPerBlock
  BY BlockAssumption
<1>4. BitsPerBlock * b \in Int /\ BitsPerBlock * a \in Int
  BY BlockAssumption
<1> QED BY <1>2, <1>3, <1>4, BlockAssumption

LEMMA Division ==
  ASSUME NEW i \in Nat
  PROVE  /\ i \div BitsPerBlock \in Nat /\ i % BitsPerBlock \in 0 .. BitsPerBlock-1
         /\ i = BitsPerBlock * (i \div BitsPerBlock) + (i % BitsPerBlock)
  BY BlockAssumption

LEMMA Quotient ==
  ASSUME NEW i \in Nat, NEW q \in Int, NEW r \in 0 .. BitsPerBlock-1, i = BitsPerBlock * q + r
  PROVE  i \div BitsPerBlock = q /\ i % BitsPerBlock = r
<1> DEFINE p == i \div BitsPerBlock
           s == i % BitsPerBlock
<1>1. p \in Nat /\ s \in 0 .. BitsPerBlock-1 /\ i = BitsPerBlock * p + s
  BY Division
<1> HIDE DEF p, s
<1>2. BitsPerBlock \in Nat /\ BitsPerBlock * p \in Int /\ BitsPerBlock * q \in Int
  BY <1>1, BlockAssumption
<1>3. ~(p < q)
  BY <1>1, <1>2, Monotone
<1>4. ~(q < p)
  BY <1>1, <1>2, Monotone
<1>5. p = q
  BY <1>1, <1>3, <1>4
<1>6. s = r
  BY <1>1, <1>2, <1>5
<1> QED BY <1>5, <1>6 DEF p, s

\* The units of size b that n takes, the last one partly used
LEMMA RoundedUp ==
  ASSUME NEW b \in Nat \ {0}, NEW n \in Nat
  PROVE  LET c == (n + b - 1) \div b IN c \in Nat /\ b * c \in Nat /\ n <= b * c /\ b * c < n + b
<1> DEFINE m == n + b - 1
           c == m \div b
<1>1. m \in Nat /\ n = m - b + 1
  OBVIOUS
<1> HIDE DEF m
<1>2. c \in Nat /\ m % b \in 0..b-1 /\ m = b * c + (m % b)
  BY <1>1
<1> HIDE DEF c
<1>3. b * c \in Nat
  BY <1>2
<1>4. n <= b * c /\ b * c < n + b
  BY <1>1, <1>2, <1>3
<1> QED BY <1>2, <1>3, <1>4 DEF c, m

LEMMA Blocked ==
  ASSUME NEW n \in Nat
  PROVE  /\ Bits!compute_block_count(n) \in Nat
         /\ n <= BitsPerBlock * Bits!compute_block_count(n)
         /\ BitsPerBlock * Bits!compute_block_count(n) < n + BitsPerBlock
  BY RoundedUp, BlockAssumption DEF Bits!compute_block_count

\* The number of blocks is determined by that.
LEMMA BlockedIs ==
  ASSUME NEW n \in Nat, NEW c \in Nat, n <= BitsPerBlock * c, BitsPerBlock * c < n + BitsPerBlock
  PROVE  Bits!compute_block_count(n) = c
<1> DEFINE k == Bits!compute_block_count(n)
<1>1. k \in Nat /\ n <= BitsPerBlock * k /\ BitsPerBlock * k < n + BitsPerBlock
  BY Blocked
<1> HIDE DEF k
<1>2. BitsPerBlock \in Nat /\ BitsPerBlock * k \in Nat /\ BitsPerBlock * c \in Nat
  BY <1>1, Product, BlockAssumption
<1>3. ~(k < c)
  BY <1>1, <1>2, Monotone
<1>4. ~(c < k)
  BY <1>1, <1>2, Monotone
<1>5. k = c
  BY <1>1, <1>3, <1>4
<1> QED BY <1>5 DEF k

\* The place of a bit, and the bit at a place
LEMMA PlaceOfBit ==
  ASSUME NEW n \in Nat, NEW i \in 0..n-1
  PROVE  /\ Bits!block_index(i) \in 1..Bits!compute_block_count(n) /\ Bits!bit_index(i) \in Bits!Full
         /\ i = BitsPerBlock * (Bits!block_index(i) - 1) + Bits!bit_index(i)
<1> DEFINE q == i \div BitsPerBlock
           c == Bits!compute_block_count(n)
<1>1. q \in Nat /\ Bits!bit_index(i) \in Bits!Full /\ i = BitsPerBlock * q + Bits!bit_index(i) /\ Bits!block_index(i) = q + 1
  BY Division DEF Bits!bit_index, Bits!block_index, Bits!Full
<1>2. c \in Nat /\ n <= BitsPerBlock * c
  BY Blocked
<1> HIDE DEF q, c
<1>3. BitsPerBlock \in Nat /\ BitsPerBlock * q \in Nat /\ BitsPerBlock * c \in Nat
  BY <1>1, <1>2, Product, BlockAssumption
<1>4. q < c
  <2>1. SUFFICES ASSUME ~(q < c) PROVE FALSE
    OBVIOUS
  <2>2. BitsPerBlock * c <= BitsPerBlock * q
    <3>1. CASE c = q
      BY <1>3, <3>1
    <3>2. CASE c < q
      BY <1>1, <1>2, <1>3, <3>2, Monotone
    <3> QED BY <1>1, <1>2, <2>1, <3>1, <3>2
  <2> QED BY <1>1, <1>2, <1>3, <2>2 DEF Bits!Full
<1> QED BY <1>1, <1>2, <1>4 DEF c

LEMMA BitAtPlace ==
  ASSUME NEW j \in Nat \ {0}, NEW e \in Bits!Full
  PROVE  LET i == BitsPerBlock * (j - 1) + e IN i \in Nat /\ Bits!block_index(i) = j /\ Bits!bit_index(i) = e
<1> DEFINE i == BitsPerBlock * (j - 1) + e
<1>1. j - 1 \in Nat /\ BitsPerBlock * (j - 1) \in Nat /\ e \in Nat
  BY Product, BlockAssumption DEF Bits!Full
<1>2. i \in Nat
  BY <1>1
<1>3. i \div BitsPerBlock = j - 1 /\ i % BitsPerBlock = e
  BY <1>1, <1>2, Quotient DEF Bits!Full
<1> QED BY <1>1, <1>2, <1>3 DEF Bits!block_index, Bits!bit_index

\* The blocks hold the n bits b, and whatever there is in excess of them.
HoldsBits(blocks, n, b) ==
    /\ n \in Nat /\ b \in [1..n -> BOOLEAN]
    /\ blocks \in [1..Bits!compute_block_count(n) -> SUBSET Bits!Full]
    /\ \A i \in 0..n-1 : b[i+1] <=> Bits!bit_index(i) \in blocks[Bits!block_index(i)]

BitsGood == /\ DOMAIN m_blocks = Vectors /\ DOMAIN m_num_bits = Vectors /\ DOMAIN bits = Vectors
            /\ \A v \in Vectors : HoldsBits(m_blocks[v], m_num_bits[v], bits[v])
BitsInv == unaligned \/ BitsGood

\* So they do if they are what Bits!BitsOf() reads from them.
LEMMA BitsAreRead ==
  ASSUME NEW n \in Nat, NEW blocks \in [1..Bits!compute_block_count(n) -> SUBSET Bits!Full]
  PROVE  HoldsBits(blocks, n, Bits!BitsOf(blocks, n))
<1> DEFINE b == Bits!BitsOf(blocks, n)
<1>1. b = [i \in 1..n |-> Bits!bit_index(i-1) \in blocks[Bits!block_index(i-1)]]
  BY DEF Bits!BitsOf
<1>2. b \in [1..n -> BOOLEAN]
  BY <1>1
<1>3. ASSUME NEW i \in 0..n-1 PROVE b[i+1] <=> Bits!bit_index(i) \in blocks[Bits!block_index(i)]
  <2>1. i + 1 \in 1..n /\ (i + 1) - 1 = i
    OBVIOUS
  <2>2. b[i+1] = (Bits!bit_index((i+1)-1) \in blocks[Bits!block_index((i+1)-1)])
    BY <1>1, <2>1, Zenon
  <2>3. b[i+1] = (Bits!bit_index(i) \in blocks[Bits!block_index(i)])
    BY <2>1, <2>2
  <2> QED BY <2>3
<1> QED BY <1>2, <1>3 DEF HoldsBits

LEMMA ReadsAsHeld ==
  ASSUME NEW blocks, NEW n, NEW b, HoldsBits(blocks, n, b)
  PROVE  Bits!BitsOf(blocks, n) = b /\ Len(blocks) = Bits!compute_block_count(n) /\ Len(b) = n
<1>1. n \in Nat /\ Bits!compute_block_count(n) \in Nat
  BY Blocked DEF HoldsBits
<1>2. Len(blocks) = Bits!compute_block_count(n) /\ Len(b) = n
  BY <1>1 DEF HoldsBits
<1> DEFINE r == Bits!BitsOf(blocks, n)
<1>3. /\ r \in [1..n -> BOOLEAN] /\ b \in [1..n -> BOOLEAN]
      /\ \A i \in 0..n-1 : r[i+1] <=> b[i+1]
  BY <1>1, BitsAreRead DEF HoldsBits
<1> HIDE DEF r
<1>4. ASSUME NEW k \in 1..n PROVE r[k] = b[k]
  <2>1. k - 1 \in 0..n-1 /\ (k - 1) + 1 = k
    BY <1>1
  <2>2. r[(k-1)+1] <=> b[(k-1)+1]
    BY <1>3, <2>1
  <2>3. r[k] <=> b[k]
    BY <2>1, <2>2
  <2>4. r[k] \in BOOLEAN /\ b[k] \in BOOLEAN
    BY <1>3
  <2> QED BY <2>3, <2>4
<1>5. r = [k \in 1..n |-> r[k]] /\ b = [k \in 1..n |-> b[k]]
  BY <1>3
<1>6. [k \in 1..n |-> r[k]] = [k \in 1..n |-> b[k]]
  BY <1>4
<1> QED BY <1>2, <1>5, <1>6 DEF r

\* A step after which a vector holds its bits is a good one.
LEMMA BecomesStep ==
  ASSUME BitsGood, NEW v \in Vectors, NEW blocks, NEW n, NEW b, Bits!Becomes(v, blocks, n, b), HoldsBits(blocks, n, b)
  PROVE  BitsGood'
<1>1. /\ m_blocks' = [m_blocks EXCEPT ![v] = blocks] /\ m_num_bits' = [m_num_bits EXCEPT ![v] = n]
      /\ bits' = [bits EXCEPT ![v] = b]
  BY DEF Bits!Becomes
<1>2. DOMAIN m_blocks' = Vectors /\ DOMAIN m_num_bits' = Vectors /\ DOMAIN bits' = Vectors
  BY <1>1 DEF BitsGood
<1>3. ASSUME NEW w \in Vectors PROVE HoldsBits(m_blocks'[w], m_num_bits'[w], bits'[w])
  <2>1. CASE w = v
    <3>1. m_blocks'[w] = blocks /\ m_num_bits'[w] = n /\ bits'[w] = b
      BY <1>1, <2>1 DEF BitsGood
    <3> QED BY <3>1
  <2>2. CASE w # v
    <3>1. m_blocks'[w] = m_blocks[w] /\ m_num_bits'[w] = m_num_bits[w] /\ bits'[w] = bits[w]
      BY <1>1, <2>2 DEF BitsGood
    <3> QED BY <3>1 DEF BitsGood
  <2> QED BY <2>1, <2>2
<1> QED BY <1>2, <1>3 DEF BitsGood

LEMMA FillStep ==
  ASSUME BitsGood, NEW v \in Vectors, NEW n \in Nat, NEW val \in BOOLEAN, Bits!Fill(v, n, val)
  PROVE  BitsGood'
<1> DEFINE full == IF val THEN Bits!Full ELSE {}
           blocks == Bits!Blocks(n, full)
           b == [i \in 1..n |-> val]
<1>1. Bits!Becomes(v, blocks, n, b)
  BY DEF Bits!Fill
<1>2. blocks = [j \in 1..Bits!compute_block_count(n) |-> full] /\ b \in [1..n -> BOOLEAN]
  BY DEF Bits!Blocks
<1>3. blocks \in [1..Bits!compute_block_count(n) -> SUBSET Bits!Full]
  BY <1>2
<1>4. ASSUME NEW i \in 0..n-1 PROVE b[i+1] <=> Bits!bit_index(i) \in blocks[Bits!block_index(i)]
  <2>1. Bits!block_index(i) \in 1..Bits!compute_block_count(n) /\ Bits!bit_index(i) \in Bits!Full
    BY PlaceOfBit
  <2>2. blocks[Bits!block_index(i)] = full
    BY <1>2, <2>1
  <2>3. i + 1 \in 1..n
    OBVIOUS
  <2>4. b[i+1] = val
    BY <2>3, Zenon
  <2> QED BY <2>1, <2>2, <2>4
<1> HIDE DEF blocks, b
<1>5. HoldsBits(blocks, n, b)
  BY <1>2, <1>3, <1>4 DEF HoldsBits
<1> QED BY <1>1, <1>5, BecomesStep

LEMMA AssignRangeStep ==
  ASSUME BitsGood, NEW v \in Vectors, NEW n \in Nat, NEW b \in [1..n -> BOOLEAN], Bits!AssignRange(v, b)
  PROVE  BitsGood'
<1> DEFINE blocks == [j \in 1..Bits!compute_block_count(n) |->
                        {i \in Bits!Full : (j-1) * BitsPerBlock + i < n /\ b[(j-1) * BitsPerBlock + i + 1]}]
<1>1. Len(b) = n
  OBVIOUS
<1>2. Bits!Becomes(v, blocks, n, b)
  BY <1>1 DEF Bits!AssignRange
<1>3. blocks \in [1..Bits!compute_block_count(n) -> SUBSET Bits!Full]
  OBVIOUS
<1>4. ASSUME NEW i \in 0..n-1 PROVE b[i+1] <=> Bits!bit_index(i) \in blocks[Bits!block_index(i)]
  <2> DEFINE j == Bits!block_index(i)
             e == Bits!bit_index(i)
  <2>1. j \in 1..Bits!compute_block_count(n) /\ e \in Bits!Full /\ i = BitsPerBlock * (j - 1) + e
    BY PlaceOfBit
  <2>2. Bits!compute_block_count(n) \in Nat
    BY Blocked
  <2> HIDE DEF j, e
  <2>3. (j - 1) * BitsPerBlock + e = i /\ (j - 1) * BitsPerBlock + e + 1 = i + 1
    BY <2>1, <2>2, BlockAssumption DEF Bits!Full
  <2>4. blocks[j] = {k \in Bits!Full : (j-1) * BitsPerBlock + k < n /\ b[(j-1) * BitsPerBlock + k + 1]}
    BY <2>1, Zenon
  <2>5. e \in blocks[j] <=> ((j-1) * BitsPerBlock + e < n /\ b[(j-1) * BitsPerBlock + e + 1])
    BY <2>1, <2>4
  <2>6. e \in blocks[j] <=> (i < n /\ b[i+1])
    BY <2>3, <2>5
  <2>7. i < n
    OBVIOUS
  <2> QED BY <2>6, <2>7 DEF j, e
<1> HIDE DEF blocks
<1>5. HoldsBits(blocks, n, b)
  BY <1>3, <1>4 DEF HoldsBits
<1> QED BY <1>2, <1>5, BecomesStep

LEMMA RandomizeStep ==
  ASSUME BitsGood, NEW v \in Vectors, Bits!Randomize(v)
  PROVE  BitsGood'
<1>1. HoldsBits(m_blocks[v], m_num_bits[v], bits[v])
  BY DEF BitsGood
<1>2. Len(m_blocks[v]) = Bits!compute_block_count(m_num_bits[v]) /\ m_num_bits[v] \in Nat
  BY <1>1, ReadsAsHeld DEF HoldsBits
<1>3. PICK blocks \in [1..Bits!compute_block_count(m_num_bits[v]) -> SUBSET Bits!Full] :
         Bits!Becomes(v, blocks, m_num_bits[v], Bits!BitsOf(blocks, m_num_bits[v]))
  BY <1>2 DEF Bits!Randomize
<1> QED BY <1>2, <1>3, BitsAreRead, BecomesStep

LEMMA Rejoined ==
  ASSUME NEW r \in Seq(BOOLEAN), NEW s \in Seq(BOOLEAN), Len(s) <= Len(r), \A k \in 1..Len(s) : s[k] = r[k]
  PROVE  s \o SubSeq(r, Len(s) + 1, Len(r)) = r
<1> DEFINE t == s \o SubSeq(r, Len(s) + 1, Len(r))
<1>1. SubSeq(r, Len(s) + 1, Len(r)) \in Seq(BOOLEAN) /\ Len(SubSeq(r, Len(s) + 1, Len(r))) = Len(r) - Len(s)
  OBVIOUS
<1>2. t \in Seq(BOOLEAN) /\ Len(t) = Len(r)
  BY <1>1
<1>3. \A k \in 1..Len(r) : t[k] = r[k]
  BY <1>1, <1>2
<1> HIDE DEF t
<1>4. t = r
  BY <1>2, <1>3, SeqEqual
<1> QED BY <1>4 DEF t

LEMMA ResizeStep ==
  ASSUME BitsGood, NEW v \in Vectors, NEW n \in Nat, Bits!Resize(v, n)
  PROVE  BitsGood'
<1> DEFINE old  == m_blocks[v]
           m    == m_num_bits[v]
           b    == bits[v]
           new  == [j \in 1..Bits!compute_block_count(n) |-> IF j <= Len(old) THEN old[j] ELSE {}]
           kept == SubSeq(b, 1, IF n < m THEN n ELSE m)
           r    == Bits!BitsOf(new, n)
<1>1. HoldsBits(old, m, b)
  BY DEF BitsGood
<1>2. Len(old) = Bits!compute_block_count(m) /\ m \in Nat /\ b \in [1..m -> BOOLEAN] /\ Len(b) = m
  BY <1>1, ReadsAsHeld DEF HoldsBits
<1>3. old \in [1..Bits!compute_block_count(m) -> SUBSET Bits!Full] /\ Bits!compute_block_count(m) \in Nat
  BY <1>1, <1>2, Blocked DEF HoldsBits
<1>4. new \in [1..Bits!compute_block_count(n) -> SUBSET Bits!Full]
  BY <1>2, <1>3
<1>5. HoldsBits(new, n, r)
  BY <1>4, BitsAreRead
<1>6. Bits!Becomes(v, new, n, kept \o SubSeq(r, Len(kept) + 1, n))
  BY DEF Bits!Resize
<1>7. kept \in Seq(BOOLEAN) /\ Len(kept) = (IF n < m THEN n ELSE m) /\ \A k \in 1..Len(kept) : kept[k] = b[k]
  <2>1. b \in Seq(BOOLEAN)
    BY <1>2
  <2> HIDE DEF b, m
  <2> QED BY <1>2, <2>1
<1>8. r \in Seq(BOOLEAN) /\ Len(r) = n
  <2>1. r \in [1..n -> BOOLEAN]
    BY <1>5 DEF HoldsBits
  <2> HIDE DEF r
  <2> QED BY <2>1
<1> HIDE DEF r, kept
<1>9. ASSUME NEW k \in 1..Len(kept) PROVE kept[k] = r[k]
  <2> DEFINE i == k - 1
  <2>1. i \in 0..n-1 /\ i \in 0..m-1 /\ k \in 1..n /\ k \in 1..m /\ i + 1 = k
    BY <1>2, <1>7
  <2> HIDE DEF i
  <2>2. Bits!block_index(i) \in 1..Bits!compute_block_count(m) /\ Bits!block_index(i) \in 1..Bits!compute_block_count(n)
    BY <1>2, <2>1, PlaceOfBit
  <2>3. new[Bits!block_index(i)] = old[Bits!block_index(i)]
    BY <1>2, <1>3, <2>2
  <2>4. b[i+1] <=> Bits!bit_index(i) \in old[Bits!block_index(i)]
    BY <1>1, <2>1 DEF HoldsBits
  <2>5. r[i+1] <=> Bits!bit_index(i) \in new[Bits!block_index(i)]
    BY <1>5, <2>1 DEF HoldsBits
  <2>6. r[k] <=> b[k]
    BY <2>1, <2>3, <2>4, <2>5
  <2>7. r[k] \in BOOLEAN /\ b[k] \in BOOLEAN /\ kept[k] = b[k]
    BY <1>2, <1>5, <1>7, <2>1 DEF HoldsBits
  <2> QED BY <2>6, <2>7
<1>10. kept \o SubSeq(r, Len(kept) + 1, n) = r
  <2>1. Len(kept) <= Len(r)
    BY <1>2, <1>7, <1>8
  <2> QED BY <1>7, <1>8, <1>9, <2>1, Rejoined
<1> HIDE DEF new
<1> QED BY <1>5, <1>6, <1>10, BecomesStep

\* Bit n is the first of a new block, or goes into the last one.
LEMMA OneMore ==
  ASSUME NEW n \in Nat
  PROVE  /\ Bits!block_index(n) = Bits!compute_block_count(n + 1) /\ Bits!bit_index(n) \in Bits!Full
         /\ Bits!compute_block_count(n + 1) = IF Bits!bit_index(n) = 0 THEN Bits!compute_block_count(n) + 1 ELSE Bits!compute_block_count(n)
<1> DEFINE q == n \div BitsPerBlock
           r == n % BitsPerBlock
<1>1. q \in Nat /\ r \in 0..BitsPerBlock-1 /\ n = BitsPerBlock * q + r /\ BitsPerBlock \in Nat \ {0}
  BY Division, BlockAssumption
<1>2. Bits!block_index(n) = q + 1 /\ Bits!bit_index(n) = r
  BY DEF Bits!block_index, Bits!bit_index
<1> HIDE DEF q, r
<1>3. BitsPerBlock * q \in Nat /\ BitsPerBlock * (q + 1) = BitsPerBlock * q + BitsPerBlock
  BY <1>1
<1>4. Bits!compute_block_count(n + 1) = q + 1
  BY <1>1, <1>3, BlockedIs
<1>5. Bits!compute_block_count(n) = IF r = 0 THEN q ELSE q + 1
  BY <1>1, <1>3, BlockedIs
<1> QED BY <1>1, <1>2, <1>4, <1>5 DEF Bits!Full

\* Different bits have different places.
LEMMA Places ==
  ASSUME NEW i \in Nat, NEW k \in Nat, Bits!block_index(i) = Bits!block_index(k), Bits!bit_index(i) = Bits!bit_index(k)
  PROVE  i = k
<1>1. i = BitsPerBlock * (i \div BitsPerBlock) + (i % BitsPerBlock)
      /\ k = BitsPerBlock * (k \div BitsPerBlock) + (k % BitsPerBlock)
  BY Division
<1>2. i \div BitsPerBlock = k \div BitsPerBlock /\ i % BitsPerBlock = k % BitsPerBlock
  <2>1. i \div BitsPerBlock \in Nat /\ k \div BitsPerBlock \in Nat
    BY Division
  <2> QED BY <2>1 DEF Bits!block_index, Bits!bit_index
<1> QED BY <1>1, <1>2

\* Writing bit i to its place changes no other bit.
LEMMA Written ==
  ASSUME NEW n \in Nat, NEW i \in 0..n-1, NEW val \in BOOLEAN, NEW blocks, NEW b, NEW c,
         c \in [1..Bits!compute_block_count(n) -> SUBSET Bits!Full], b \in [1..n -> BOOLEAN], b[i+1] = val,
         \A k \in 0..n-1 : k # i => (b[k+1] <=> Bits!bit_index(k) \in c[Bits!block_index(k)]),
         blocks = [c EXCEPT ![Bits!block_index(i)] = IF val THEN @ \cup {Bits!bit_index(i)} ELSE @ \ {Bits!bit_index(i)}]
  PROVE  HoldsBits(blocks, n, b)
<1>1. Bits!block_index(i) \in 1..Bits!compute_block_count(n) /\ Bits!bit_index(i) \in Bits!Full
  BY PlaceOfBit
<1>2. blocks \in [1..Bits!compute_block_count(n) -> SUBSET Bits!Full]
  BY <1>1
<1>3. ASSUME NEW k \in 0..n-1 PROVE b[k+1] <=> Bits!bit_index(k) \in blocks[Bits!block_index(k)]
  <2>1. Bits!block_index(k) \in 1..Bits!compute_block_count(n)
    BY PlaceOfBit
  <2>2. CASE k = i
    <3>1. blocks[Bits!block_index(i)] = IF val THEN c[Bits!block_index(i)] \cup {Bits!bit_index(i)} ELSE c[Bits!block_index(i)] \ {Bits!bit_index(i)}
      BY <1>1
    <3>2. val <=> Bits!bit_index(i) \in blocks[Bits!block_index(i)]
      BY <3>1
    <3> QED BY <2>2, <3>2
  <2>3. CASE k # i /\ Bits!block_index(k) = Bits!block_index(i)
    <3>1. Bits!bit_index(k) # Bits!bit_index(i)
      BY <2>3, Places
    <3>2. blocks[Bits!block_index(k)] = IF val THEN c[Bits!block_index(k)] \cup {Bits!bit_index(i)} ELSE c[Bits!block_index(k)] \ {Bits!bit_index(i)}
      BY <1>1, <2>3
    <3>3. Bits!bit_index(k) \in blocks[Bits!block_index(k)] <=> Bits!bit_index(k) \in c[Bits!block_index(k)]
      BY <3>1, <3>2
    <3> QED BY <2>3, <3>3
  <2>4. CASE Bits!block_index(k) # Bits!block_index(i)
    <3>1. blocks[Bits!block_index(k)] = c[Bits!block_index(k)]
      BY <2>1, <2>4
    <3> QED BY <2>4, <3>1
  <2> QED BY <2>2, <2>3, <2>4
<1> QED BY <1>2, <1>3 DEF HoldsBits

LEMMA AsFunction ==
  ASSUME NEW S, NEW n \in Nat, NEW s \in Seq(S), Len(s) = n
  PROVE  s \in [1..n -> S]
  OBVIOUS

LEMMA AsSequence ==
  ASSUME NEW S, NEW n \in Nat, NEW s \in [1..n -> S]
  PROVE  s \in Seq(S) /\ Len(s) = n
  OBVIOUS

LEMMA PushBackStep ==
  ASSUME BitsGood, NEW v \in Vectors, NEW val \in BOOLEAN, Bits!PushBack(v, val)
  PROVE  BitsGood'
<1> DEFINE n == m_num_bits[v]
           c == Bits!compute_block_count(n)
           d == Bits!compute_block_count(n + 1)
           s == m_blocks[v]
           old == IF Bits!bit_index(n) = 0 THEN Append(s, {}) ELSE s
           b == Append(bits[v], val)
           blocks == [old EXCEPT ![Len(old)] = IF val THEN @ \cup {Bits!bit_index(n)} ELSE @ \ {Bits!bit_index(n)}]
<1>1. HoldsBits(s, n, bits[v])
  BY DEF BitsGood
<1>2. n \in Nat /\ c \in Nat /\ s \in [1..c -> SUBSET Bits!Full] /\ bits[v] \in [1..n -> BOOLEAN]
  BY <1>1, Blocked DEF HoldsBits
<1>3. d = (IF Bits!bit_index(n) = 0 THEN c + 1 ELSE c) /\ Bits!block_index(n) = d
  BY <1>2, OneMore
<1>4. old \in [1..d -> SUBSET Bits!Full] /\ Len(old) = d /\ \A j \in 1..c : old[j] = s[j]
  <2>1. s \in Seq(SUBSET Bits!Full) /\ Len(s) = c
    BY <1>2
  <2> HIDE DEF s, c, d
  <2>2. CASE Bits!bit_index(n) = 0
    <3>1. Append(s, {}) \in Seq(SUBSET Bits!Full) /\ Len(Append(s, {})) = c + 1 /\ \A j \in 1..c : Append(s, {})[j] = s[j]
      BY <1>2, <2>1
    <3> DEFINE longer == Append(s, {})
    <3>2. longer \in [1..d -> SUBSET Bits!Full] /\ c + 1 = d
      <4>1. longer \in Seq(SUBSET Bits!Full) /\ Len(longer) = d /\ c + 1 = d /\ d \in Nat
        BY <1>2, <1>3, <2>2, <3>1
      <4> HIDE DEF longer
      <4> QED BY <4>1, AsFunction
    <3>3. old = Append(s, {})
      BY <2>2
    <3> HIDE DEF old
    <3> QED BY <3>1, <3>2, <3>3
  <2>3. CASE Bits!bit_index(n) # 0
    BY <1>2, <1>3, <2>1, <2>3
  <2> QED BY <2>2, <2>3
<1>5. b \in [1..n+1 -> BOOLEAN] /\ b[n+1] = val /\ \A k \in 0..n-1 : b[k+1] = bits[v][k+1]
  <2>1. bits[v] \in Seq(BOOLEAN) /\ Len(bits[v]) = n
    BY <1>2
  <2> HIDE DEF n
  <2>2. b \in Seq(BOOLEAN) /\ Len(b) = n + 1
    BY <1>2, <2>1
  <2>3. b[n+1] = val /\ \A k \in 0..n-1 : b[k+1] = bits[v][k+1]
    BY <1>2, <2>1
  <2>4. b \in [1..n+1 -> BOOLEAN]
    <3>1. n + 1 \in Nat
      BY <1>2
    <3> HIDE DEF b
    <3> QED BY <2>2, <3>1, AsFunction
  <2> QED BY <2>3, <2>4
<1>6. Bits!Becomes(v, blocks, n + 1, b)
  BY DEF Bits!PushBack
<1> HIDE DEF old, b, d, c
<1>7. \A k \in 0..(n+1)-1 : k # n => (b[k+1] <=> Bits!bit_index(k) \in old[Bits!block_index(k)])
  <2>1. SUFFICES ASSUME NEW k \in 0..n-1 PROVE b[k+1] <=> Bits!bit_index(k) \in old[Bits!block_index(k)]
    BY <1>2
  <2>2. Bits!block_index(k) \in 1..c
    BY <1>2, PlaceOfBit DEF c
  <2> QED BY <1>1, <1>4, <1>5, <2>2 DEF HoldsBits
<1>8. blocks = [old EXCEPT ![Bits!block_index(n)] = IF val THEN @ \cup {Bits!bit_index(n)} ELSE @ \ {Bits!bit_index(n)}]
  BY <1>3, <1>4
<1> HIDE DEF blocks
<1>9. HoldsBits(blocks, n + 1, b)
  <2>1. n + 1 \in Nat /\ n \in 0..(n+1)-1
    BY <1>2
  <2>2. old \in [1..Bits!compute_block_count(n + 1) -> SUBSET Bits!Full]
    BY <1>4 DEF d
  <2> HIDE DEF n
  <2> QED BY <1>5, <1>7, <1>8, <2>1, <2>2, Written
<1> QED BY <1>6, <1>9, BecomesStep

LEMMA PopBackStep ==
  ASSUME BitsGood, NEW v \in Vectors, Bits!PopBack(v)
  PROVE  BitsGood'
<1> DEFINE n == m_num_bits[v] - 1
           c == Bits!compute_block_count(n)
           s == m_blocks[v]
           blocks == IF Bits!bit_index(n) = 0 THEN SubSeq(s, 1, Len(s) - 1) ELSE s
           b == SubSeq(bits[v], 1, n)
<1>1. HoldsBits(s, m_num_bits[v], bits[v])
  BY DEF BitsGood
<1>2. n \in Nat /\ m_num_bits[v] = n + 1
  BY <1>1 DEF Bits!PopBack, HoldsBits
<1>3. c \in Nat /\ Bits!compute_block_count(n + 1) = IF Bits!bit_index(n) = 0 THEN c + 1 ELSE c
  BY <1>2, OneMore, Blocked
<1>4. Bits!Becomes(v, blocks, n, b)
  BY DEF Bits!PopBack
<1>5. bits[v] \in Seq(BOOLEAN) /\ Len(bits[v]) = n + 1
  <2>1. bits[v] \in [1..n+1 -> BOOLEAN] /\ n + 1 \in Nat
    BY <1>1, <1>2 DEF HoldsBits
  <2> HIDE DEF n
  <2> QED BY <2>1, AsSequence
<1>6. s \in Seq(SUBSET Bits!Full) /\ Len(s) = IF Bits!bit_index(n) = 0 THEN c + 1 ELSE c
  <2>1. s \in [1..Bits!compute_block_count(n + 1) -> SUBSET Bits!Full] /\ Bits!compute_block_count(n + 1) \in Nat
    BY <1>1, <1>2, <1>3 DEF HoldsBits
  <2> QED BY <1>3, <2>1
<1> HIDE DEF n, c, s
<1>7. b \in [1..n -> BOOLEAN] /\ \A k \in 1..n : b[k] = bits[v][k]
  <2>1. b \in Seq(BOOLEAN) /\ Len(b) = n /\ \A k \in 1..n : b[k] = bits[v][k]
    BY <1>2, <1>5
  <2>2. b \in [1..n -> BOOLEAN]
    BY <1>2, <2>1, AsFunction
  <2> QED BY <2>1, <2>2
<1>8. blocks \in [1..c -> SUBSET Bits!Full] /\ \A j \in 1..c : blocks[j] = s[j]
  <2>1. blocks \in Seq(SUBSET Bits!Full) /\ Len(blocks) = c /\ \A j \in 1..c : blocks[j] = s[j]
    BY <1>3, <1>6
  <2>2. blocks \in [1..c -> SUBSET Bits!Full]
    BY <1>3, <2>1, AsFunction
  <2> QED BY <2>1, <2>2
<1> HIDE DEF blocks, b
<1>9. ASSUME NEW i \in 0..n-1 PROVE b[i+1] <=> Bits!bit_index(i) \in blocks[Bits!block_index(i)]
  <2>1. Bits!block_index(i) \in 1..c
    BY <1>2, PlaceOfBit DEF c
  <2>2. i + 1 \in 1..n /\ i \in 0..(n+1)-1
    BY <1>2
  <2>3. bits[v][i+1] <=> Bits!bit_index(i) \in s[Bits!block_index(i)]
    BY <1>1, <1>2, <2>2 DEF HoldsBits
  <2>4. b[i+1] = bits[v][i+1] /\ blocks[Bits!block_index(i)] = s[Bits!block_index(i)]
    BY <1>7, <1>8, <2>1, <2>2
  <2> QED BY <2>3, <2>4
<1>10. HoldsBits(blocks, n, b)
  BY <1>2, <1>7, <1>8, <1>9 DEF HoldsBits, c
<1> QED BY <1>4, <1>10, BecomesStep

LEMMA WriteStep ==
  ASSUME BitsGood, NEW v \in Vectors, NEW i \in Nat, NEW val \in BOOLEAN, Bits!Write(v, i, val)
  PROVE  BitsGood'
<1> DEFINE n == m_num_bits[v]
           s == m_blocks[v]
           blocks == [s EXCEPT ![Bits!block_index(i)] = IF val THEN @ \cup {Bits!bit_index(i)} ELSE @ \ {Bits!bit_index(i)}]
           b == [bits[v] EXCEPT ![i+1] = val]
<1>1. HoldsBits(s, n, bits[v])
  BY DEF BitsGood
<1>2. n \in Nat /\ i \in 0..n-1 /\ Bits!Becomes(v, blocks, n, b)
  BY <1>1 DEF Bits!Write, HoldsBits
<1>3. s \in [1..Bits!compute_block_count(n) -> SUBSET Bits!Full] /\ bits[v] \in [1..n -> BOOLEAN]
  BY <1>1 DEF HoldsBits
<1> HIDE DEF n, s
<1>4. b \in [1..n -> BOOLEAN] /\ b[i+1] = val /\ \A k \in 0..n-1 : k # i => b[k+1] = bits[v][k+1]
  BY <1>2, <1>3
<1>5. \A k \in 0..n-1 : k # i => (b[k+1] <=> Bits!bit_index(k) \in s[Bits!block_index(k)])
  BY <1>1, <1>4 DEF HoldsBits
<1> HIDE DEF b
<1>6. HoldsBits(blocks, n, b)
  BY <1>2, <1>3, <1>4, <1>5, Written
<1> QED BY <1>2, <1>6, BecomesStep

\* A step that makes new blocks from old ones bit by bit
LEMMA FlipStep ==
  ASSUME BitsGood, NEW v \in Vectors, Bits!Flip(v)
  PROVE  BitsGood'
<1> DEFINE n == m_num_bits[v]
           s == m_blocks[v]
           blocks == [j \in DOMAIN s |-> Bits!Full \ s[j]]
           b == [i \in DOMAIN bits[v] |-> ~bits[v][i]]
<1>1. HoldsBits(s, n, bits[v])
  BY DEF BitsGood
<1>2. Bits!Becomes(v, blocks, n, b)
  BY DEF Bits!Flip
<1>3. s \in [1..Bits!compute_block_count(n) -> SUBSET Bits!Full] /\ bits[v] \in [1..n -> BOOLEAN] /\ n \in Nat
  BY <1>1 DEF HoldsBits
<1> HIDE DEF n, s
<1>4. blocks \in [1..Bits!compute_block_count(n) -> SUBSET Bits!Full]
  BY <1>3
<1>5. b \in [1..n -> BOOLEAN]
  BY <1>3
<1>6. ASSUME NEW i \in 0..n-1 PROVE b[i+1] <=> Bits!bit_index(i) \in blocks[Bits!block_index(i)]
  <2>1. Bits!block_index(i) \in 1..Bits!compute_block_count(n) /\ Bits!bit_index(i) \in Bits!Full
    BY <1>3, PlaceOfBit
  <2>2. blocks[Bits!block_index(i)] = Bits!Full \ s[Bits!block_index(i)]
    BY <1>3, <2>1
  <2>3. i + 1 \in DOMAIN bits[v]
    BY <1>3
  <2>4. b[i+1] = ~bits[v][i+1]
    BY <2>3, Zenon
  <2>5. bits[v][i+1] <=> Bits!bit_index(i) \in s[Bits!block_index(i)]
    BY <1>1 DEF HoldsBits
  <2> QED BY <2>1, <2>2, <2>4, <2>5
<1> HIDE DEF blocks, b
<1>7. HoldsBits(blocks, n, b)
  BY <1>3, <1>4, <1>5, <1>6 DEF HoldsBits
<1> QED BY <1>2, <1>7, BecomesStep

LEMMA CombineStep ==
  ASSUME BitsGood, NEW v \in Vectors, NEW w \in Vectors, Bits!Combine(v, w)
  PROVE  BitsGood'
<1> DEFINE n == m_num_bits[v]
           s == m_blocks[v]
           t == m_blocks[w]
           b == bits[v]
           c == bits[w]
<1>1. HoldsBits(s, n, b) /\ HoldsBits(t, n, c)
  BY DEF BitsGood, Bits!Combine
<1>2. /\ DOMAIN s = 1..Bits!compute_block_count(n) /\ s \in [1..Bits!compute_block_count(n) -> SUBSET Bits!Full]
      /\ t \in [1..Bits!compute_block_count(n) -> SUBSET Bits!Full]
      /\ DOMAIN b = 1..n /\ b \in [1..n -> BOOLEAN] /\ c \in [1..n -> BOOLEAN] /\ n \in Nat
  BY <1>1 DEF HoldsBits
<1>3. ASSUME NEW i \in 0..n-1
      PROVE  /\ i + 1 \in 1..n /\ Bits!block_index(i) \in 1..Bits!compute_block_count(n) /\ Bits!bit_index(i) \in Bits!Full
             /\ b[i+1] <=> Bits!bit_index(i) \in s[Bits!block_index(i)]
             /\ c[i+1] <=> Bits!bit_index(i) \in t[Bits!block_index(i)]
  BY <1>1, <1>2, PlaceOfBit DEF HoldsBits
<1>4. \/ Bits!Becomes(v, [j \in DOMAIN s |-> s[j] \cup t[j]], n, [i \in DOMAIN b |-> b[i] \/ c[i]])
      \/ Bits!Becomes(v, [j \in DOMAIN s |-> s[j] \cap t[j]], n, [i \in DOMAIN b |-> b[i] /\ c[i]])
      \/ Bits!Becomes(v, [j \in DOMAIN s |-> (s[j] \cup t[j]) \ (s[j] \cap t[j])], n, [i \in DOMAIN b |-> b[i] # c[i]])
      \/ Bits!Becomes(v, [j \in DOMAIN s |-> t[j]], n, c)
  BY DEF Bits!Combine
<1> HIDE DEF n, s, t, b, c
<1>5. CASE Bits!Becomes(v, [j \in DOMAIN s |-> s[j] \cup t[j]], n, [i \in DOMAIN b |-> b[i] \/ c[i]])
  <2> DEFINE new == [j \in DOMAIN s |-> s[j] \cup t[j]]
             d   == [i \in DOMAIN b |-> b[i] \/ c[i]]
  <2>1. new \in [1..Bits!compute_block_count(n) -> SUBSET Bits!Full] /\ d \in [1..n -> BOOLEAN]
    BY <1>2
  <2>2. ASSUME NEW i \in 0..n-1 PROVE d[i+1] <=> Bits!bit_index(i) \in new[Bits!block_index(i)]
    <3>1. d[i+1] = (b[i+1] \/ c[i+1]) /\ new[Bits!block_index(i)] = s[Bits!block_index(i)] \cup t[Bits!block_index(i)]
      BY <1>2, <1>3, Zenon
    <3> QED BY <1>3, <3>1
  <2> HIDE DEF new, d
  <2>3. HoldsBits(new, n, d)
    BY <1>2, <2>1, <2>2 DEF HoldsBits
  <2> QED BY <1>5, <2>3, BecomesStep DEF new, d
<1>6. CASE Bits!Becomes(v, [j \in DOMAIN s |-> s[j] \cap t[j]], n, [i \in DOMAIN b |-> b[i] /\ c[i]])
  <2> DEFINE new == [j \in DOMAIN s |-> s[j] \cap t[j]]
             d   == [i \in DOMAIN b |-> b[i] /\ c[i]]
  <2>1. new \in [1..Bits!compute_block_count(n) -> SUBSET Bits!Full] /\ d \in [1..n -> BOOLEAN]
    BY <1>2
  <2>2. ASSUME NEW i \in 0..n-1 PROVE d[i+1] <=> Bits!bit_index(i) \in new[Bits!block_index(i)]
    <3>1. d[i+1] = (b[i+1] /\ c[i+1]) /\ new[Bits!block_index(i)] = s[Bits!block_index(i)] \cap t[Bits!block_index(i)]
      BY <1>2, <1>3, Zenon
    <3> QED BY <1>3, <3>1
  <2> HIDE DEF new, d
  <2>3. HoldsBits(new, n, d)
    BY <1>2, <2>1, <2>2 DEF HoldsBits
  <2> QED BY <1>6, <2>3, BecomesStep DEF new, d
<1>7. CASE Bits!Becomes(v, [j \in DOMAIN s |-> (s[j] \cup t[j]) \ (s[j] \cap t[j])], n, [i \in DOMAIN b |-> b[i] # c[i]])
  <2> DEFINE new == [j \in DOMAIN s |-> (s[j] \cup t[j]) \ (s[j] \cap t[j])]
             d   == [i \in DOMAIN b |-> b[i] # c[i]]
  <2>1. new \in [1..Bits!compute_block_count(n) -> SUBSET Bits!Full] /\ d \in [1..n -> BOOLEAN]
    BY <1>2
  <2>2. ASSUME NEW i \in 0..n-1 PROVE d[i+1] <=> Bits!bit_index(i) \in new[Bits!block_index(i)]
    <3>1. /\ d[i+1] = (b[i+1] # c[i+1])
          /\ new[Bits!block_index(i)] = (s[Bits!block_index(i)] \cup t[Bits!block_index(i)]) \ (s[Bits!block_index(i)] \cap t[Bits!block_index(i)])
      BY <1>2, <1>3, Zenon
    <3>2. b[i+1] \in BOOLEAN /\ c[i+1] \in BOOLEAN
      BY <1>2, <1>3
    <3>3. d[i+1] <=> ~(b[i+1] <=> c[i+1])
      BY <3>1, <3>2
    <3> QED BY <1>3, <3>1, <3>3
  <2> HIDE DEF new, d
  <2>3. HoldsBits(new, n, d)
    BY <1>2, <2>1, <2>2 DEF HoldsBits
  <2> QED BY <1>7, <2>3, BecomesStep DEF new, d
<1>8. CASE Bits!Becomes(v, [j \in DOMAIN s |-> t[j]], n, c)
  <2>1. [j \in DOMAIN s |-> t[j]] = t
    BY <1>2
  <2> QED BY <1>1, <1>8, <2>1, BecomesStep DEF n, t, c
<1> QED BY <1>4, <1>5, <1>6, <1>7, <1>8

\* Behind whole blocks the blocks and the places of others are shifted.
LEMMA Shifted ==
  ASSUME NEW m \in Nat, NEW n \in Nat, Bits!bit_index(m) = 0
  PROVE  /\ Bits!compute_block_count(m + n) = Bits!compute_block_count(m) + Bits!compute_block_count(n)
         /\ \A k \in 0..n-1 : /\ Bits!bit_index(m + k) = Bits!bit_index(k)
                              /\ Bits!block_index(m + k) = Bits!compute_block_count(m) + Bits!block_index(k)
<1> DEFINE q == m \div BitsPerBlock
           c == Bits!compute_block_count(n)
<1>1. q \in Nat /\ m = BitsPerBlock * q /\ BitsPerBlock * q \in Nat
  <2>1. q \in Nat /\ m = BitsPerBlock * q + (m % BitsPerBlock) /\ m % BitsPerBlock = 0
    BY Division DEF Bits!bit_index
  <2> HIDE DEF q
  <2> QED BY <2>1, Product
<1>2. c \in Nat /\ n <= BitsPerBlock * c /\ BitsPerBlock * c < n + BitsPerBlock /\ BitsPerBlock * c \in Nat
  BY Blocked, Product
<1> HIDE DEF q, c
<1>3. Bits!compute_block_count(m) = q
  BY <1>1, BlockedIs, BlockAssumption
<1>4. BitsPerBlock * (q + c) = BitsPerBlock * q + BitsPerBlock * c
  BY <1>1, <1>2, BlockAssumption
<1>5. Bits!compute_block_count(m + n) = q + c
  <2>1. q + c \in Nat /\ m + n \in Nat /\ m + n <= BitsPerBlock * (q + c) /\ BitsPerBlock * (q + c) < m + n + BitsPerBlock
    BY <1>1, <1>2, <1>4, BlockAssumption
  <2> QED BY <2>1, BlockedIs
<1>6. ASSUME NEW k \in 0..n-1 PROVE Bits!bit_index(m + k) = Bits!bit_index(k) /\ Bits!block_index(m + k) = q + Bits!block_index(k)
  <2> DEFINE j == Bits!block_index(k)
             e == Bits!bit_index(k)
  <2>1. j \in 1..c /\ e \in Bits!Full /\ k = BitsPerBlock * (j - 1) + e
    BY PlaceOfBit DEF c
  <2> HIDE DEF j, e
  <2>2. q + j \in Nat \ {0} /\ j - 1 \in Nat
    BY <1>1, <1>2, <2>1
  <2>3. BitsPerBlock * ((q + j) - 1) = BitsPerBlock * q + BitsPerBlock * (j - 1)
    <3> DEFINE i == j - 1
    <3>1. i \in Nat /\ (q + j) - 1 = q + i
      BY <1>1, <1>2, <2>1
    <3> HIDE DEF i
    <3>2. BitsPerBlock * (q + i) = BitsPerBlock * q + BitsPerBlock * i
      BY <1>1, <3>1, BlockAssumption
    <3> QED BY <3>1, <3>2 DEF i
  <2>4. BitsPerBlock * (j - 1) \in Nat /\ e \in Nat
    BY <2>1, <2>2, Product DEF Bits!Full
  <2>5. m + k = BitsPerBlock * ((q + j) - 1) + e
    BY <1>1, <2>1, <2>3, <2>4
  <2>6. Bits!block_index(m + k) = q + j /\ Bits!bit_index(m + k) = e
    BY <2>1, <2>2, <2>5, BitAtPlace
  <2> QED BY <2>6 DEF j, e
<1> QED BY <1>3, <1>5, <1>6 DEF c

LEMMA AppendStep ==
  ASSUME BitsGood, NEW v \in Vectors, NEW w \in Vectors, Bits!AppendAligned(v, w)
  PROVE  BitsGood'
<1> DEFINE m == m_num_bits[v]
           n == m_num_bits[w]
           s == m_blocks[v]
           t == m_blocks[w]
           b == bits[v]
           c == bits[w]
           p == Bits!compute_block_count(m)
           q == Bits!compute_block_count(n)
           new == s \o t
           d == b \o c
<1>1. HoldsBits(s, m, b) /\ HoldsBits(t, n, c) /\ Bits!bit_index(m) = 0 /\ Bits!Becomes(v, new, m + n, d)
  BY DEF BitsGood, Bits!AppendAligned
<1>2. /\ m \in Nat /\ n \in Nat /\ p \in Nat /\ q \in Nat
      /\ s \in [1..p -> SUBSET Bits!Full] /\ t \in [1..q -> SUBSET Bits!Full] /\ b \in [1..m -> BOOLEAN] /\ c \in [1..n -> BOOLEAN]
  BY <1>1, Blocked DEF HoldsBits
<1>3. /\ Bits!compute_block_count(m + n) = p + q
      /\ \A k \in 0..n-1 : Bits!bit_index(m + k) = Bits!bit_index(k) /\ Bits!block_index(m + k) = p + Bits!block_index(k)
  BY <1>1, <1>2, Shifted
<1>4. \A k \in 0..m-1 : Bits!block_index(k) \in 1..p
  BY <1>2, PlaceOfBit
<1>5. \A k \in 0..n-1 : Bits!block_index(k) \in 1..q
  BY <1>2, PlaceOfBit
<1>6. /\ \A k \in 0..m-1 : b[k+1] <=> Bits!bit_index(k) \in s[Bits!block_index(k)]
      /\ \A k \in 0..n-1 : c[k+1] <=> Bits!bit_index(k) \in t[Bits!block_index(k)]
  BY <1>1 DEF HoldsBits
<1> HIDE DEF m, n, s, t, b, c, p, q
<1>7. /\ new \in [1..p+q -> SUBSET Bits!Full]
      /\ \A j \in 1..p : new[j] = s[j]
      /\ \A j \in 1..q : new[p + j] = t[j]
  <2>1. s \in Seq(SUBSET Bits!Full) /\ t \in Seq(SUBSET Bits!Full) /\ Len(s) = p /\ Len(t) = q
    BY <1>2
  <2>2. new \in Seq(SUBSET Bits!Full) /\ Len(new) = p + q
    BY <2>1
  <2>3. /\ \A j \in 1..p : new[j] = s[j]
        /\ \A j \in 1..q : new[p + j] = t[j]
    BY <1>2, <2>1
  <2>4. p + q \in Nat
    BY <1>2
  <2> HIDE DEF new
  <2> QED BY <2>2, <2>3, <2>4, AsFunction
<1>8. /\ d \in [1..m+n -> BOOLEAN]
      /\ \A k \in 0..m-1 : d[k+1] = b[k+1]
      /\ \A k \in 0..n-1 : d[(m + k) + 1] = c[k+1]
  <2>1. b \in Seq(BOOLEAN) /\ c \in Seq(BOOLEAN) /\ Len(b) = m /\ Len(c) = n
    BY <1>2
  <2>2. d \in Seq(BOOLEAN) /\ Len(d) = m + n
    BY <2>1
  <2>3. \A k \in 1..m : d[k] = b[k]
    BY <2>1
  <2>4. \A k \in 1..n : d[m + k] = c[k]
    BY <1>2, <2>1
  <2>5. m + n \in Nat
    BY <1>2
  <2> HIDE DEF d
  <2>6. d \in [1..m+n -> BOOLEAN]
    BY <2>2, <2>5, AsFunction
  <2>7. ASSUME NEW k \in 0..n-1 PROVE d[(m + k) + 1] = c[k+1]
    <3>1. k + 1 \in 1..n /\ (m + k) + 1 = m + (k + 1)
      BY <1>2
    <3> QED BY <2>4, <3>1
  <2>8. ASSUME NEW k \in 0..m-1 PROVE d[k+1] = b[k+1]
    <3>1. k + 1 \in 1..m
      BY <1>2
    <3> QED BY <2>3, <3>1
  <2> QED BY <2>6, <2>7, <2>8
<1> HIDE DEF new, d
<1>9. ASSUME NEW i \in 0..(m+n)-1 PROVE d[i+1] <=> Bits!bit_index(i) \in new[Bits!block_index(i)]
  <2>1. CASE i < m
    <3>1. i \in 0..m-1
      BY <1>2, <2>1
    <3> QED BY <1>4, <1>6, <1>7, <1>8, <3>1
  <2>2. CASE i >= m
    <3> DEFINE k == i - m
    <3>1. k \in 0..n-1 /\ i = m + k
      BY <1>2, <2>2
    <3> HIDE DEF k
    <3>2. d[i+1] = c[k+1] /\ new[Bits!block_index(i)] = t[Bits!block_index(k)] /\ Bits!bit_index(i) = Bits!bit_index(k)
      BY <1>3, <1>5, <1>7, <1>8, <3>1
    <3> QED BY <1>6, <3>1, <3>2
  <2> QED BY <1>2, <2>1, <2>2
<1>10. HoldsBits(new, m + n, d)
  BY <1>2, <1>3, <1>7, <1>8, <1>9 DEF HoldsBits
<1> QED BY <1>1, <1>10, BecomesStep

LEMMA NoBits ==
  HoldsBits(<<>>, 0, <<>>)
<1>1. Bits!compute_block_count(0) = 0
  BY BlockedIs, BlockAssumption
<1> QED BY <1>1 DEF HoldsBits

LEMMA SwapStep ==
  ASSUME BitsGood, NEW v \in Vectors, NEW w \in Vectors, Bits!Swap(v, w) \/ Bits!Move(v, w)
  PROVE  BitsGood'
<1>1. DOMAIN m_blocks' = Vectors /\ DOMAIN m_num_bits' = Vectors /\ DOMAIN bits' = Vectors
  BY DEF BitsGood, Bits!Swap, Bits!Move
<1>2. ASSUME NEW x \in Vectors PROVE HoldsBits(m_blocks'[x], m_num_bits'[x], bits'[x])
  <2>1. CASE \E y \in Vectors : m_blocks'[x] = m_blocks[y] /\ m_num_bits'[x] = m_num_bits[y] /\ bits'[x] = bits[y]
    BY <2>1 DEF BitsGood
  <2>2. CASE m_blocks'[x] = <<>> /\ m_num_bits'[x] = 0 /\ bits'[x] = <<>>
    BY <2>2, NoBits
  <2>3. CASE Bits!Swap(v, w)
    BY <2>1, <2>3 DEF BitsGood, Bits!Swap
  <2>4. CASE Bits!Move(v, w)
    BY <2>1, <2>2, <2>4 DEF BitsGood, Bits!Move
  <2> QED BY <2>3, <2>4
<1> QED BY <1>1, <1>2 DEF BitsGood

LEMMA DeserializeStep ==
  ASSUME BitsGood, NEW v \in Vectors, NEW w \in Vectors, Bits!Deserialize(v, w)
  PROVE  BitsGood'
<1> DEFINE n == m_num_bits[v]
           c == Bits!compute_block_count(n)
           s == m_blocks[v]
           t == m_blocks[w]
           words == ((c + BlockWidth - 1) \div BlockWidth) * BlockWidth
           new == [j \in DOMAIN s |-> Bits!Serialized(w)[j]]
<1>1. HoldsBits(s, n, bits[v]) /\ HoldsBits(t, n, bits[w]) /\ m_num_bits[w] = n /\ Bits!Becomes(v, new, n, bits[w])
  BY DEF BitsGood, Bits!Deserialize
<1>2. c \in Nat /\ DOMAIN s = 1..c /\ t \in [1..c -> SUBSET Bits!Full] /\ Len(t) = c
  BY <1>1, Blocked, ReadsAsHeld DEF HoldsBits
<1>3. words \in Nat /\ c <= words
  <2>1. BlockWidth \in Nat \ {0}
    BY BlockAssumption
  <2> DEFINE k == (c + BlockWidth - 1) \div BlockWidth
  <2>2. k \in Nat /\ BlockWidth * k \in Nat /\ c <= BlockWidth * k
    BY <1>2, <2>1, RoundedUp
  <2> HIDE DEF k
  <2>3. BlockWidth * k = k * BlockWidth
    BY <2>1, <2>2
  <2> QED BY <2>2, <2>3 DEF k
<1>4. Bits!Serialized(w) = [j \in 1..words |-> IF j <= Len(t) THEN t[j] ELSE {}]
  BY <1>1 DEF Bits!Serialized
<1> HIDE DEF words, c, s, t, n
<1>5. \A j \in 1..c : Bits!Serialized(w)[j] = t[j]
  BY <1>2, <1>3, <1>4
<1>6. new = t
  <2>1. new = [j \in 1..c |-> t[j]] /\ t = [j \in 1..c |-> t[j]]
    BY <1>2, <1>5
  <2> QED BY <2>1
<1> QED BY <1>1, <1>6, BecomesStep

\* Every place of the blocks before the last, and those under the mask in the
\* last, are those of bits.
LEMMA BitOfPlace ==
  ASSUME NEW n \in Nat \ {0}, NEW j \in 1..Bits!compute_block_count(n), NEW e \in Bits!Full,
         j < Bits!compute_block_count(n) \/ e <= Bits!bit_index(n - 1)
  PROVE  \E i \in 0..n-1 : Bits!block_index(i) = j /\ Bits!bit_index(i) = e
<1> DEFINE c == Bits!compute_block_count(n)
           i == BitsPerBlock * (j - 1) + e
<1>1. c \in Nat /\ j \in Nat \ {0}
  BY Blocked
<1>2. i \in Nat /\ Bits!block_index(i) = j /\ Bits!bit_index(i) = e
  BY <1>1, BitAtPlace
<1>3. Bits!block_index(n - 1) = c /\ Bits!bit_index(n - 1) \in Bits!Full /\ n - 1 = BitsPerBlock * (c - 1) + Bits!bit_index(n - 1)
  <2>1. n - 1 \in Nat /\ n - 1 \in 0..n-1 /\ (n - 1) + 1 = n
    OBVIOUS
  <2>2. Bits!block_index(n - 1) = c
    BY <2>1, OneMore
  <2> QED BY <2>1, <2>2, PlaceOfBit
<1>4. BitsPerBlock * (j - 1) \in Nat /\ BitsPerBlock * (c - 1) \in Nat
  BY <1>1, <1>3, Product
<1>5. i <= n - 1
  <2>1. CASE j < c
    <3>1. j - 1 \in Int /\ c - 1 \in Int /\ j - 1 < c - 1
      BY <1>1, <2>1
    <3>2. BitsPerBlock * (j - 1) + BitsPerBlock <= BitsPerBlock * (c - 1)
      BY <3>1, Monotone
    <3> QED BY <1>3, <1>4, <3>2, BlockAssumption DEF Bits!Full
  <2>2. CASE j = c /\ e <= Bits!bit_index(n - 1)
    <3>1. i = BitsPerBlock * (c - 1) + e
      BY <2>2
    <3> HIDE DEF i
    <3> QED BY <1>3, <1>4, <2>2, <3>1, BlockAssumption DEF Bits!Full
  <2> QED BY <1>1, <2>1, <2>2
<1> HIDE DEF i
<1> QED BY <1>2, <1>5

\* == on blocks is == on the bits they hold.
LEMMA SameBits ==
  ASSUME BitsGood, NEW v \in Vectors, NEW w \in Vectors
  PROVE  Bits!Equals(v, w) <=> bits[v] = bits[w]
<1> DEFINE n == m_num_bits[v]
           c == Bits!compute_block_count(n)
           s == m_blocks[v]
           t == m_blocks[w]
           b == bits[v]
           d == bits[w]
           mask == 0 .. Bits!bit_index(n - 1)
<1>1. HoldsBits(s, n, b) /\ HoldsBits(t, m_num_bits[w], d)
  BY DEF BitsGood
<1>2. Len(b) = n /\ Len(d) = m_num_bits[w] /\ Len(s) = c /\ Len(t) = Bits!compute_block_count(m_num_bits[w]) /\ n \in Nat /\ c \in Nat
  BY <1>1, ReadsAsHeld, Blocked DEF HoldsBits
<1>3. CASE m_num_bits[w] # n
  BY <1>2, <1>3 DEF Bits!Equals
<1>4. CASE m_num_bits[w] = n /\ n = 0
  <2>1. b = <<>> /\ d = <<>>
    BY <1>1, <1>4 DEF HoldsBits
  <2> QED BY <1>4, <2>1 DEF Bits!Equals
<1>5. CASE m_num_bits[w] = n /\ n > 0
  <2>1. /\ HoldsBits(t, n, d) /\ Len(t) = c
        /\ Bits!Equals(v, w) <=> (/\ \A j \in 1..c-1 : s[j] = t[j]
                             /\ s[c] \cap mask = t[c] \cap mask)
    BY <1>1, <1>2, <1>5 DEF Bits!Equals
  <2>2. /\ b \in [1..n -> BOOLEAN] /\ d \in [1..n -> BOOLEAN]
        /\ s \in [1..c -> SUBSET Bits!Full] /\ t \in [1..c -> SUBSET Bits!Full]
        /\ \A i \in 0..n-1 : b[i+1] <=> Bits!bit_index(i) \in s[Bits!block_index(i)]
        /\ \A i \in 0..n-1 : d[i+1] <=> Bits!bit_index(i) \in t[Bits!block_index(i)]
    BY <1>1, <2>1 DEF HoldsBits
  <2>3. /\ Bits!block_index(n - 1) = c /\ Bits!bit_index(n - 1) \in Bits!Full
        /\ \A i \in 0..n-1 : Bits!block_index(i) \in 1..c /\ Bits!bit_index(i) \in Bits!Full
        /\ \A i \in 0..n-1 : Bits!block_index(i) = c => Bits!bit_index(i) \in mask
    <3>1. n - 1 \in Nat /\ n - 1 \in 0..n-1 /\ (n - 1) + 1 = n
      BY <1>2, <1>5
    <3>2. Bits!block_index(n - 1) = c /\ Bits!bit_index(n - 1) \in Bits!Full /\ n - 1 = BitsPerBlock * (c - 1) + Bits!bit_index(n - 1)
      BY <1>2, <3>1, OneMore, PlaceOfBit
    <3>3. \A i \in 0..n-1 : /\ Bits!block_index(i) \in 1..c /\ Bits!bit_index(i) \in Bits!Full
                            /\ i = BitsPerBlock * (Bits!block_index(i) - 1) + Bits!bit_index(i)
      BY <1>2, PlaceOfBit
    <3>4. ASSUME NEW i \in 0..n-1, Bits!block_index(i) = c PROVE Bits!bit_index(i) \in mask
      <4>1. i = BitsPerBlock * (c - 1) + Bits!bit_index(i) /\ Bits!bit_index(i) \in Bits!Full
        BY <3>3, <3>4
      <4>2. BitsPerBlock * (c - 1) \in Int
        BY <1>2, BlockAssumption
      <4>3. i <= n - 1 /\ n - 1 \in Nat
        BY <3>1
      <4> HIDE DEF n, c
      <4> QED BY <3>2, <4>1, <4>2, <4>3, BlockAssumption DEF Bits!Full
    <3> QED BY <3>2, <3>3, <3>4
  <2>4. \A j \in 1..c, e \in Bits!Full : (j < c \/ e \in mask) => \E i \in 0..n-1 : Bits!block_index(i) = j /\ Bits!bit_index(i) = e
    <3>1. n \in Nat \ {0}
      BY <1>2, <1>5
    <3>2. ASSUME NEW j \in 1..c, NEW e \in Bits!Full, j < c \/ e \in mask
          PROVE \E i \in 0..n-1 : Bits!block_index(i) = j /\ Bits!bit_index(i) = e
      <4>1. j < c \/ e <= Bits!bit_index(n - 1)
        BY <3>2
      <4> QED BY <3>1, <4>1, BitOfPlace
    <3> QED BY <3>2
  <2>5. mask \subseteq Bits!Full /\ c \in 1..c
    <3>1. c \in 1..c
      <4>1. n - 1 \in 0..n-1
        BY <1>2, <1>5
      <4> QED BY <2>3, <4>1
    <3> QED BY <2>3, <3>1, BlockAssumption DEF Bits!Full
  <2>6. b = d => Bits!Equals(v, w)
    <3> HIDE DEF n, c, s, t, b, d, mask
    <3>1. SUFFICES ASSUME b = d PROVE /\ \A j \in 1..c-1 : s[j] = t[j]
                                     /\ s[c] \cap mask = t[c] \cap mask
      BY <2>1
    <3>2. ASSUME NEW j \in 1..c, NEW e \in Bits!Full, j < c \/ e \in mask PROVE e \in s[j] <=> e \in t[j]
      <4>1. PICK i \in 0..n-1 : Bits!block_index(i) = j /\ Bits!bit_index(i) = e
        BY <2>4, <3>2
      <4> QED BY <2>2, <3>1, <4>1
    <3>3. ASSUME NEW j \in 1..c-1 PROVE s[j] = t[j]
      <4>1. j \in 1..c /\ j < c
        BY <1>2
      <4>2. \A e \in Bits!Full : e \in s[j] <=> e \in t[j]
        BY <3>2, <4>1
      <4>3. s[j] \subseteq Bits!Full /\ t[j] \subseteq Bits!Full
        BY <2>2, <4>1
      <4> QED BY <4>2, <4>3
    <3>4. \A e \in mask : e \in s[c] <=> e \in t[c]
      BY <2>5, <3>2
    <3> QED BY <3>3, <3>4
  <2>7. Bits!Equals(v, w) => b = d
    <3> HIDE DEF n, c, s, t, b, d, mask
    <3>1. SUFFICES ASSUME Bits!Equals(v, w) PROVE b = d
      OBVIOUS
    <3>2. ASSUME NEW i \in 0..n-1 PROVE b[i+1] <=> d[i+1]
      <4>1. Bits!block_index(i) \in 1..c
        BY <2>3
      <4>2. CASE Bits!block_index(i) = c
        BY <2>1, <2>2, <2>3, <3>1, <4>2
      <4>3. CASE Bits!block_index(i) # c
        <5>1. Bits!block_index(i) \in 1..c-1
          BY <1>2, <4>1, <4>3
        <5> QED BY <2>1, <2>2, <3>1, <5>1
      <4> QED BY <4>2, <4>3
    <3>3. ASSUME NEW k \in 1..n PROVE b[k] = d[k]
      <4>1. k - 1 \in 0..n-1 /\ (k - 1) + 1 = k
        BY <1>2
      <4>2. b[(k-1)+1] <=> d[(k-1)+1]
        BY <3>2, <4>1
      <4>3. b[k] \in BOOLEAN /\ d[k] \in BOOLEAN
        BY <2>2
      <4> QED BY <4>1, <4>2, <4>3
    <3>4. b = [k \in 1..n |-> b[k]] /\ d = [k \in 1..n |-> d[k]]
      BY <2>2
    <3>5. [k \in 1..n |-> b[k]] = [k \in 1..n |-> d[k]]
      BY <3>3
    <3> QED BY <3>4, <3>5
  <2> QED BY <2>6, <2>7
<1> QED BY <1>2, <1>3, <1>4, <1>5

LEMMA BitsStart == Bits!Init => BitsInv
<1> SUFFICES ASSUME Bits!Init PROVE BitsGood
  BY DEF BitsInv
<1> QED BY NoBits DEF Bits!Init, BitsGood

LEMMA BitsStep ==
  ASSUME BitsInv, Bits!Next
  PROVE  BitsInv'
<1>1. BitsGood
  BY DEF BitsInv, Bits!Next
<1>2. PICK v \in Vectors :
        \/ \E n \in 0..MaxBits : Bits!Resize(v, n) \/ \E val \in BOOLEAN : Bits!Fill(v, n, val)
        \/ \E n \in 0..MaxBits : \E b \in [1..n -> BOOLEAN] : Bits!AssignRange(v, b)
        \/ \E val \in BOOLEAN : m_num_bits[v] < MaxBits /\ Bits!PushBack(v, val)
        \/ \E i \in 0..MaxBits-1, val \in BOOLEAN : Bits!Write(v, i, val)
        \/ Bits!PopBack(v) \/ Bits!Randomize(v) \/ Bits!Flip(v)
        \/ \E w \in Vectors : \/ Bits!Combine(v, w) \/ Bits!Swap(v, w) \/ Bits!Move(v, w) \/ Bits!Deserialize(v, w)
                              \/ Bits!AppendAligned(v, w) \/ Bits!AppendUnaligned(v, w)
  BY DEF Bits!Next
<1>3. ASSUME NEW n \in 0..MaxBits PROVE n \in Nat
  OBVIOUS
<1>4. CASE \E n \in 0..MaxBits : Bits!Resize(v, n) \/ \E val \in BOOLEAN : Bits!Fill(v, n, val)
  BY <1>1, <1>3, <1>4, ResizeStep, FillStep DEF BitsInv
<1>5. CASE \E n \in 0..MaxBits : \E b \in [1..n -> BOOLEAN] : Bits!AssignRange(v, b)
  BY <1>1, <1>3, <1>5, AssignRangeStep DEF BitsInv
<1>6. CASE \E val \in BOOLEAN : m_num_bits[v] < MaxBits /\ Bits!PushBack(v, val)
  BY <1>1, <1>6, PushBackStep DEF BitsInv
<1>7. CASE \E i \in 0..MaxBits-1, val \in BOOLEAN : Bits!Write(v, i, val)
  BY <1>1, <1>7, WriteStep DEF BitsInv
<1>8. CASE Bits!PopBack(v) \/ Bits!Randomize(v) \/ Bits!Flip(v)
  BY <1>1, <1>8, PopBackStep, RandomizeStep, FlipStep DEF BitsInv
<1>9. ASSUME NEW w \in Vectors,
             Bits!Combine(v, w) \/ Bits!Swap(v, w) \/ Bits!Move(v, w) \/ Bits!Deserialize(v, w) \/ Bits!AppendAligned(v, w)
      PROVE BitsInv'
  BY <1>1, <1>9, CombineStep, SwapStep, DeserializeStep, AppendStep DEF BitsInv
<1>10. ASSUME NEW w \in Vectors, Bits!AppendUnaligned(v, w) PROVE BitsInv'
  BY <1>10 DEF Bits!AppendUnaligned, BitsInv
<1> QED BY <1>2, <1>4, <1>5, <1>6, <1>7, <1>8, <1>9, <1>10

LEMMA BitsAgree == BitsInv => Bits!BitVectorAgrees
<1> SUFFICES ASSUME BitsGood PROVE Bits!BitVectorAgrees
  BY DEF BitsInv, Bits!BitVectorAgrees
<1>1. \A v \in Vectors : /\ Len(m_blocks[v]) = Bits!compute_block_count(m_num_bits[v])
                         /\ Bits!BitsOf(m_blocks[v], m_num_bits[v]) = bits[v]
  BY ReadsAsHeld DEF BitsGood
<1> QED BY <1>1, SameBits DEF Bits!BitVectorAgrees

-----------------------------------------------------------------------------
(* The parts together *)

UtilitiesInv == /\ part = "latch" => WaitInv
                /\ part = "thread" => LateInv
                /\ part = "optional" => OptInv
                /\ part = "tree" => TreeInv
                /\ part = "set" => SetInv
                /\ part = "lru" => LruInv
                /\ part = "map" => MapInv
                /\ part = "bits" => BitsInv

LEMMA UtilitiesInvInit == UtilitiesInit => UtilitiesInv
  BY WaitInit, LateInit, OptInit, InitTree, SetInit, LruInit, MapInit, BitsStart DEF UtilitiesInit, UtilitiesInv

LEMMA UtilitiesInvStep == UtilitiesInv /\ [UtilitiesNext]_utilitiesVars => UtilitiesInv'
<1> SUFFICES ASSUME UtilitiesInv, [UtilitiesNext]_utilitiesVars PROVE UtilitiesInv'
  OBVIOUS
<1>0. part' = part
  BY DEF UtilitiesNext, utilitiesVars
<1>1. ASSUME part = "latch" PROVE WaitInv'
  <2>1. WaitInv /\ (Wait!Next \/ UNCHANGED latchVars)
    BY <1>1 DEF UtilitiesInv, UtilitiesNext, utilitiesVars
  <2>2. CASE UNCHANGED latchVars
    BY <2>1, <2>2 DEF latchVars, WaitInv, WaitTyped, Wait!WaitersAreReleased, Wait!Holds
  <2> QED BY <2>1, <2>2, WaitStep
<1>2. ASSUME part = "thread" PROVE LateInv'
  <2>1. LateInv /\ (Late!Next \/ UNCHANGED noStartVars)
    BY <1>2 DEF UtilitiesInv, UtilitiesNext, utilitiesVars
  <2>2. CASE UNCHANGED noStartVars
    BY <2>1, <2>2 DEF noStartVars, LateInv, Late!RunsWhenStarted
  <2> QED BY <2>1, <2>2, LateStep
<1>3. ASSUME part = "optional" PROVE OptInv'
  <2>1. OptInv /\ (Opt!Next \/ UNCHANGED optionalVars)
    BY <1>3 DEF UtilitiesInv, UtilitiesNext, utilitiesVars
  <2>2. CASE UNCHANGED optionalVars
    BY <2>1, <2>2 DEF optionalVars, OptInv, OptTyped, Opt!LifetimesAgree
  <2> QED BY <2>1, <2>2, OptStep
<1>4. ASSUME part = "tree" PROVE TreeInv'
  <2>1. TreeInv /\ (Tree!Next \/ UNCHANGED treeVars)
    BY <1>4 DEF UtilitiesInv, UtilitiesNext, utilitiesVars
  <2>2. CASE UNCHANGED treeVars
    <3>1. TreeTyped'
      BY <2>1, <2>2 DEF treeVars, TreeInv, TreeTyped
    <3>2. Calling' /\ OneCall' /\ DyingIsCalled'
      BY <2>1, <2>2 DEF treeVars, TreeInv, Calling, CallingAt, OneCall, DyingIsCalled, Called, Depth
    <3>3. Locked' /\ TodoIsLeft' /\ Confined'
      BY <2>1, <2>2 DEF treeVars, TreeInv, Locked, LockedAt, TodoIsLeft, Confined, Depth
    <3>4. Born' /\ Ends'
      BY <2>1, <2>2 DEF treeVars, TreeInv, Born, Ends, Registers, Depth
    <3> QED BY <3>1, <3>2, <3>3, <3>4 DEF TreeInv
  <2> QED BY <2>1, <2>2, TreeStep
<1>5. ASSUME part = "set" PROVE SetInv'
  <2>1. SetInv /\ (Set!Next \/ UNCHANGED setVars)
    BY <1>5 DEF UtilitiesInv, UtilitiesNext, utilitiesVars
  <2>2. CASE UNCHANGED setVars
    BY <2>1, <2>2 DEF setVars, SetInv, Set!ItemsAgree
  <2> QED BY <2>1, <2>2, SetStep
<1>6. ASSUME part = "lru" PROVE LruInv'
  <2>1. LruInv /\ (Lru!Next \/ UNCHANGED lruVars)
    BY <1>6 DEF UtilitiesInv, UtilitiesNext, utilitiesVars
  <2>2. CASE UNCHANGED lruVars
    BY <2>1, <2>2 DEF lruVars, LruInv, Ordered, Iterators, Recent, Finds
  <2> QED BY <2>1, <2>2, LruStep
<1>7. ASSUME part = "map" PROVE MapInv'
  <2>1. MapInv /\ (Map!Next \/ UNCHANGED mapVars)
    BY <1>7 DEF UtilitiesInv, UtilitiesNext, utilitiesVars
  <2>2. CASE UNCHANGED mapVars
    BY <2>1, <2>2 DEF mapVars, MapInv
  <2> QED BY <2>1, <2>2, MapStep
<1>8. ASSUME part = "bits" PROVE BitsInv'
  <2>1. BitsInv /\ (Bits!Next \/ UNCHANGED bitVecVars)
    BY <1>8 DEF UtilitiesInv, UtilitiesNext, utilitiesVars
  <2>2. CASE UNCHANGED bitVecVars
    BY <2>1, <2>2 DEF bitVecVars, BitsInv, BitsGood
  <2> QED BY <2>1, <2>2, BitsStep
<1> QED BY <1>0, <1>1, <1>2, <1>3, <1>4, <1>5, <1>6, <1>7, <1>8 DEF UtilitiesInv

LEMMA UtilitiesInvariance == UtilitiesSpec => []UtilitiesInv
  BY UtilitiesInvInit, UtilitiesInvStep, PTL DEF UtilitiesSpec

\* Whatever the countdowns, notifications, stops, timeouts and spurious wakeups: nobody
\* sleeps on when what it waits for has happened, nobody goes on before it, and one
\* countdown is the last; a thread stopped before it was started ends and runs nothing.
THEOREM WaitersReleasedHolds == UtilitiesSpec => []WaitersReleased
<1>1. UtilitiesInv => WaitersReleased
  BY DEF UtilitiesInv, WaitersReleased, WaitInv, LateInv
<1> QED BY <1>1, UtilitiesInvariance, PTL

\* Whatever users keep alive, drop or make anew at the same place, the cache holds the
\* values used last and finds the others; whatever keys collide or are equal, a map
\* finds what was put into it, once, by every kind of lookup (its mapped values until it
\* is copied); and whatever operations leave in the excess bits, for every size of block
\* a vector holds the bits it should, until append() finds its size inside a block.
THEOREM ContainersAgreeHolds == UtilitiesSpec => []ContainersAgree
<1>1. UtilitiesInv => ContainersAgree
  BY LruAgreed, MapAgreed, BitsAgree DEF UtilitiesInv, ContainersAgree
<1> QED BY <1>1, UtilitiesInvariance, PTL

\* However optionals are moved and swapped, and in whatever order children, parents and
\* items come and go: who owns is known, and what nobody owns is destroyed once.  Excepted
\* are optionals after a copying or moving constructor threw, the mutex that the destructor
\* of a child locks again by destroying another child, and items that an equal one kept
\* out of the set.
THEOREM OwnersAgreeHolds == UtilitiesSpec => []OwnersAgree
<1>1. UtilitiesInv => OwnersAgree
  BY OptAgrees, TreeAgreed DEF UtilitiesInv, OwnersAgree, SetInv
<1> QED BY <1>1, UtilitiesInvariance, PTL
=============================================================================
