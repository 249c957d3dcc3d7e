------------------------------ MODULE Optional ------------------------------
(* Optional.h: a flag and a union with room for one T, whose constructors,   *)
(* moves and assignments may throw.  m_data is what is in the union: a value *)
(* or Dead, and "lifetimes" counts the values constructed there and not yet  *)
(* destroyed.  T's assignment gives the strong guarantee when it throws.     *)
EXTENDS Integers

CONSTANTS Optionals,
          Values       \* with their order; moving from one leaves Moved, the least

VARIABLES exists,      \* the optionals that are
          m_containsValue, m_data, lifetimes,
          holds,       \* history: what an optional value would hold, or Empty
          broken       \* a copy or a move of T threw where the base is destroyed

vars == <<exists, m_containsValue, m_data, lifetimes, holds, broken>>

Moved == -1
Dead == -2
Empty == -3

Init == /\ exists = {} /\ broken = FALSE
        /\ m_containsValue = [o \in Optionals |-> FALSE]
        /\ m_data = [o \in Optionals |-> Dead]
        /\ lifetimes = [o \in Optionals |-> 0]
        /\ holds = [o \in Optionals |-> Empty]

\* The union of o now has "value", with n more lifetimes than before.
Storage(o, contains, value, n) ==
    /\ m_containsValue' = [m_containsValue EXCEPT ![o] = contains]
    /\ m_data' = [m_data EXCEPT ![o] = value]
    /\ lifetimes' = [lifetimes EXCEPT ![o] = @ + n]

Kept == UNCHANGED <<exists, broken>>

\* reset_(): m_data.~T() and the flag
ResetBy(o) == IF m_containsValue[o] THEN -1 ELSE 0

\* The constructors without a value and from one; when T throws there is no optional.
ConstructEmpty(o) == /\ o \notin exists /\ exists' = exists \cup {o}
                     /\ Storage(o, FALSE, Dead, 0)
                     /\ holds' = [holds EXCEPT ![o] = Empty]
                     /\ UNCHANGED broken
ConstructFrom(o, v) == /\ o \notin exists /\ exists' = exists \cup {o}
                       /\ Storage(o, TRUE, v, 1)
                       /\ holds' = [holds EXCEPT ![o] = v]
                       /\ UNCHANGED broken

\* The copying constructor: the base gets the flag of the other one, then T is made.
CopyConstruct(o, from) ==
    /\ o \notin exists /\ from \in exists /\ exists' = exists \cup {o}
    /\ IF m_containsValue[from] THEN Storage(o, TRUE, m_data[from], 1) ELSE Storage(o, FALSE, Dead, 0)
    /\ holds' = [holds EXCEPT ![o] = holds[from]]
    /\ UNCHANGED broken
\* If T throws in that or in the moving one, the base is destroyed, and with its flag
\* set it destroys a T
\* that was never made.
ConstructThrows(o, from) ==
    /\ o \notin exists /\ from \in exists /\ m_containsValue[from]
    /\ Storage(o, TRUE, Dead, -1)
    /\ broken' = TRUE
    /\ UNCHANGED <<exists, holds>>

\* The moving constructor leaves a value in the other one, which was moved from.
MoveConstruct(o, from) ==
    /\ o \notin exists /\ from \in exists /\ exists' = exists \cup {o}
    /\ IF m_containsValue[from]
       THEN /\ m_containsValue' = [m_containsValue EXCEPT ![o] = TRUE]
            /\ m_data' = [m_data EXCEPT ![o] = m_data[from], ![from] = Moved]
            /\ lifetimes' = [lifetimes EXCEPT ![o] = @ + 1]
            /\ holds' = [holds EXCEPT ![o] = holds[from], ![from] = Moved]
       ELSE /\ Storage(o, FALSE, Dead, 0)
            /\ holds' = [holds EXCEPT ![o] = Empty]
    /\ UNCHANGED broken

\* ~DestructorBase()
Destroy(o) == /\ o \in exists /\ exists' = exists \ {o}
              /\ Storage(o, FALSE, Dead, ResetBy(o))
              /\ holds' = [holds EXCEPT ![o] = Empty]
              /\ UNCHANGED broken

\* reset() and the assignment of nullOption
Reset(o) == /\ o \in exists
            /\ Storage(o, FALSE, Dead, ResetBy(o))
            /\ holds' = [holds EXCEPT ![o] = Empty] /\ Kept

\* emplace(): reset, construct, then the flag.  If T throws, o is empty.
Emplace(o, v) == /\ o \in exists
                 /\ Storage(o, TRUE, v, 1 + ResetBy(o))
                 /\ holds' = [holds EXCEPT ![o] = v] /\ Kept
EmplaceThrows(o) == Reset(o)

\* valueOr() and valueOrConstruct(): the value, or d; of a temporary or moved optional
\* they move the value out, and it still has one.
ValueOr(o, d) == IF m_containsValue[o] THEN m_data[o] ELSE d
TakeValueOr(o) == /\ o \in exists /\ m_containsValue[o]
                  /\ Storage(o, TRUE, Moved, 0)
                  /\ holds' = [holds EXCEPT ![o] = Moved] /\ Kept

\* SHAREMIND_OPTIONAL_H_COPY_ASSIGN.  If T throws, nothing has changed.
CopyAssign(o, from) ==
    /\ {o, from} \subseteq exists
    /\ IF ~m_containsValue[from] THEN Storage(o, FALSE, Dead, ResetBy(o))
       ELSE Storage(o, TRUE, m_data[from], IF m_containsValue[o] THEN 0 ELSE 1)
    /\ holds' = [holds EXCEPT ![o] = holds[from]] /\ Kept

\* SHAREMIND_OPTIONAL_H_MOVE_ASSIGN, for another optional
MoveAssign(o, from) ==
    /\ {o, from} \subseteq exists /\ o # from
    /\ IF ~m_containsValue[from]
       THEN /\ Storage(o, FALSE, Dead, ResetBy(o))
            /\ holds' = [holds EXCEPT ![o] = Empty]
       ELSE /\ m_containsValue' = [m_containsValue EXCEPT ![o] = TRUE]
            /\ m_data' = [m_data EXCEPT ![o] = m_data[from], ![from] = Moved]
            /\ lifetimes' = [lifetimes EXCEPT ![o] = IF m_containsValue[o] THEN @ ELSE @ + 1]
            /\ holds' = [holds EXCEPT ![o] = holds[from], ![from] = Moved]
    /\ Kept

\* swap(): both, by std::swap; or doMove(), which constructs, destroys and moves the
\* flags.  If T throws in doMove, nothing has changed.
Swap(o, with) ==
    /\ {o, with} \subseteq exists /\ o # with
    /\ m_data' = [m_data EXCEPT ![o] = m_data[with], ![with] = m_data[o]]
    /\ m_containsValue' = [m_containsValue EXCEPT ![o] = m_containsValue[with], ![with] = m_containsValue[o]]
    /\ IF m_containsValue[o] = m_containsValue[with] THEN UNCHANGED lifetimes
       ELSE LET from == IF m_containsValue[o] THEN o ELSE with
                to   == IF m_containsValue[o] THEN with ELSE o
            IN lifetimes' = [lifetimes EXCEPT ![to] = @ + 1, ![from] = @ - 1]
    /\ holds' = [holds EXCEPT ![o] = holds[with], ![with] = holds[o]] /\ Kept

Next == /\ ~broken
        /\ \E o \in Optionals :
             \/ ConstructEmpty(o) \/ Destroy(o) \/ Reset(o) \/ EmplaceThrows(o) \/ TakeValueOr(o)
             \/ \E v \in Values : ConstructFrom(o, v) \/ Emplace(o, v)
             \/ \E p \in Optionals : \/ CopyConstruct(o, p) \/ ConstructThrows(o, p)
                                     \/ MoveConstruct(o, p)
                                     \/ CopyAssign(o, p) \/ MoveAssign(o, p) \/ Swap(o, p)

Spec == Init /\ [][Next]_vars

-----------------------------------------------------------------------------
(* The comparisons, of optionals, with nullOption and with values *)

Has(o) == m_containsValue[o]
EQ(l, r) == IF Has(l) # Has(r) THEN FALSE ELSE IF ~Has(l) THEN TRUE ELSE m_data[l] = m_data[r]
NE(l, r) == IF Has(l) # Has(r) THEN TRUE ELSE IF ~Has(l) THEN FALSE ELSE m_data[l] # m_data[r]
LT(l, r) == IF ~Has(r) THEN FALSE ELSE IF ~Has(l) THEN TRUE ELSE m_data[l] < m_data[r]
LE(l, r) == IF ~Has(l) THEN TRUE ELSE IF ~Has(r) THEN FALSE ELSE m_data[l] <= m_data[r]
GT(l, r) == IF ~Has(l) THEN FALSE ELSE IF ~Has(r) THEN TRUE ELSE m_data[l] > m_data[r]
GE(l, r) == IF ~Has(r) THEN TRUE ELSE IF ~Has(l) THEN FALSE ELSE m_data[l] >= m_data[r]

\* with nullOption on the right, SHAREMIND_OPTIONAL_H_NULLCOMPARE
NullCompare(o) == [eq |-> ~Has(o), ne |-> Has(o), lt |-> FALSE, le |-> ~Has(o), gt |-> Has(o), ge |-> TRUE]
\* with a value on the right, SHAREMIND_OPTIONAL_H_VALUECOMPARE
ValueCompare(o, v) ==
    IF Has(o) THEN [eq |-> m_data[o] = v, ne |-> m_data[o] # v, lt |-> m_data[o] < v,
                    le |-> m_data[o] <= v, gt |-> m_data[o] > v, ge |-> m_data[o] >= v]
    ELSE [eq |-> FALSE, ne |-> TRUE, lt |-> TRUE, le |-> TRUE, gt |-> FALSE, ge |-> FALSE]

-----------------------------------------------------------------------------
(* Properties *)

\* The flag tells whether there is a value to destroy, exactly one, in every
\* optional and in no other place; and it is the right one.
LifetimesAgree == \A o \in Optionals :
    /\ lifetimes[o] = IF m_containsValue[o] THEN 1 ELSE 0
    /\ m_containsValue[o] <=> m_data[o] # Dead
    /\ o \in exists => holds[o] = IF m_containsValue[o] THEN m_data[o] ELSE Empty
    /\ o \notin exists => ~m_containsValue[o]

\* valueOr() is the value if there is one, as the history has it.
ValueOrAgrees == \A o \in exists, d \in Values : ValueOr(o, d) = IF holds[o] = Empty THEN d ELSE holds[o]

\* All six comparisons belong to one order, in which empty is below every value; the
\* comparisons with nullOption and with a value are those with such an optional.
Order(eq, ne, lt, le, gt, ge, x, y) ==
    /\ eq <=> x = y
    /\ ne <=> x # y
    /\ lt <=> x < y
    /\ le <=> x <= y
    /\ gt <=> x > y
    /\ ge <=> x >= y
OrderOf(c, x, y) == Order(c.eq, c.ne, c.lt, c.le, c.gt, c.ge, x, y)
ComparisonsAgree == \A o \in exists :
    /\ \A p \in exists : Order(EQ(o, p), NE(o, p), LT(o, p), LE(o, p), GT(o, p), GE(o, p), holds[o], holds[p])
    /\ OrderOf(NullCompare(o), holds[o], Empty)
    /\ \A v \in Values : OrderOf(ValueCompare(o, v), holds[o], v)

OptionalAgrees == ~broken => LifetimesAgree /\ ValueOrAgrees /\ ComparisonsAgree
=============================================================================
