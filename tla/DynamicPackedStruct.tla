------------------------ MODULE DynamicPackedStruct ------------------------
(* DynamicPackingInfo.h, DynamicPackedStruct.h and what they are made of:    *)
(* records of fields without padding, some of whose fields get their size at *)
(* run time.  A field is static, or "size" bytes for each of so many         *)
(* elements: 1 for a DynamicFieldPlaceholder, sizeof(T) for a vector.  The   *)
(* offsets come from the sums of sizes up to each dynamic field, m_sizes.    *)
(* A list with static fields alone makes a PackedStruct, by PackingInfo.h.   *)
(* Every element of every field is written with a value of its own, so that  *)
(* overlaps show.                                                            *)
EXTENDS Integers, Sequences, FiniteSetsExt

CONSTANTS Structs,
          FieldLists,   \* the template parameters to be checked
          MaxSize       \* bound on the run-time sizes

VARIABLES Ts,        \* the fields: all structs have one type
          m_data,    \* the bytes allocated, or NoData
          m_sizes,
          sizes,     \* history: the arguments of the constructor,
          written    \* and the elements that have been set

vars == <<Ts, m_data, m_sizes, sizes, written>>

NoData == [b \in {0} |-> <<>>]
Raw == <<0, 0>>   \* the value of memory that nobody has written

\* f[1] + ... + f[n]
Sum(f, n) == LET sum[k \in 0..n] == IF k = 0 THEN 0 ELSE sum[k-1] + f[k]
             IN sum[n]
\* The number of those that DynamicFieldFilter keeps
Count(fields) == Sum([i \in DOMAIN fields |-> IF fields[i].isStatic THEN 0 ELSE 1], Len(fields))
SizeOfTypes(fields) == Sum([i \in DOMAIN fields |-> fields[i].size], Len(fields))
Prefix(i) == SubSeq(Ts, 1, i - 1)
Suffix(fields, i) == SubSeq(fields, i + 1, Len(fields))

validSizes(args) == /\ Len(args) = Count(Ts)
                    /\ \A i \in DOMAIN Ts : ~Ts[i].isStatic =>
                         args[Count(Prefix(i)) + 1] \in Ts[i].min .. Ts[i].max

\* The elements of field i, and its bytes, when the dynamic ones have these sizes
Elements(i, args) == IF Ts[i].isStatic THEN 1 ELSE args[Count(Prefix(i)) + 1]
Bytes(i, args) == Ts[i].size * Elements(i, args)

\* AccumSize: what sizeInBytes() returns and the constructor allocates
BytesUpTo(i, args) == Sum([j \in DOMAIN Ts |-> Bytes(j, args)], i)
AccumSize(args) == BytesUpTo(Len(Ts), args)

\* AccumVecPopulator: for each dynamic field, the bytes up to its end
AccumVec(args) ==
    [d \in 1..Count(Ts) |->
        BytesUpTo(CHOOSE i \in DOMAIN Ts : ~Ts[i].isStatic /\ Count(Prefix(i)) = d - 1, args)]

\* StaticTailSize: the first field without a dynamic one behind it is taken for the
\* last dynamic one, so that of static fields alone the first is not counted.
StaticTailSize(fields) ==
    IF fields = <<>> THEN 0
    ELSE SizeOfTypes(Suffix(fields, Min({i \in DOMAIN fields : Count(Suffix(fields, i)) = 0})))

ElemOffset(i) == SizeOfTypes(Prefix(i))
staticSize == SizeOfTypes(Ts)

\* The dynamic one is a PackingInfo's up to the first dynamic field.
elemOffset(i, accum) ==
    IF Count(Prefix(i)) > 0 THEN accum[Count(Prefix(i))] + StaticTailSize(Prefix(i)) ELSE ElemOffset(i)

\* structSizeInBytes(), which needs a dynamic field, or PackingInfo::size()
size(s) == IF Count(Ts) > 0 THEN StaticTailSize(Ts) + m_sizes[s][Count(Ts)] ELSE staticSize

Init == /\ Ts \in FieldLists
        /\ m_data = [s \in Structs |-> NoData]
        /\ m_sizes = [s \in Structs |-> <<>>]
        /\ sizes = [s \in Structs |-> <<>>]
        /\ written = [s \in Structs |-> {}]

Becomes(s, data, accum, args, elements) ==
    /\ m_data' = [m_data EXCEPT ![s] = data]
    /\ m_sizes' = [m_sizes EXCEPT ![s] = accum]
    /\ sizes' = [sizes EXCEPT ![s] = args]
    /\ written' = [written EXCEPT ![s] = elements]
    /\ UNCHANGED Ts

\* The constructor; "assert(validSizes(args...))"
Construct(s, args) ==
    /\ Count(Ts) > 0 /\ validSizes(args)
    /\ Becomes(s, [b \in 0 .. AccumSize(args) - 1 |-> Raw], AccumVec(args), args, {})

\* The places of element e of field i, by UnalignedPointer's arithmetic
Place(s, i, e) == LET start == elemOffset(i, m_sizes[s]) + Ts[i].size * e
                  IN start .. start + Ts[i].size - 1

\* set(), or assignment through ref(), ptr() and an index: memcpy of the value
Set(s, i, e) ==
    /\ Count(Ts) > 0 /\ m_data[s] # NoData /\ e < Elements(i, sizes[s])
    /\ Becomes(s, [b \in DOMAIN m_data[s] \cup Place(s, i, e) |->
                      IF b \in Place(s, i, e) THEN <<i, e>> ELSE m_data[s][b]],
               m_sizes[s], sizes[s], written[s] \cup {<<i, e>>})

\* The copying constructor allocates size() bytes and copies as many.
Copy(s, t) ==
    /\ Count(Ts) > 0 /\ s # t /\ m_data[t] # NoData
    /\ Becomes(s, [b \in 0 .. size(t) - 1 |-> m_data[t][b]], m_sizes[t], sizes[t], written[t])

\* The moving one; release() is the same with a pointer in place of s.  The sizes
\* stay, so that size() of what was moved from speaks of data it has not got.
Move(s, t) ==
    /\ Count(Ts) > 0 /\ s # t /\ m_data[t] # NoData
    /\ m_data' = [m_data EXCEPT ![s] = m_data[t], ![t] = NoData]
    /\ m_sizes' = [m_sizes EXCEPT ![s] = m_sizes[t]]
    /\ sizes' = [sizes EXCEPT ![s] = sizes[t]]
    /\ written' = [written EXCEPT ![s] = written[t], ![t] = {}]
    /\ UNCHANGED Ts

\* A PackedStruct has its bytes in itself, uninitialized to begin with.  To move it is
\* to copy it.
ConstructPacked(s) ==
    /\ Count(Ts) = 0
    /\ Becomes(s, [b \in 0 .. staticSize - 1 |-> Raw], <<>>, <<>>, {})

CopyPacked(s, t) ==
    /\ Count(Ts) = 0 /\ s # t /\ m_data[t] # NoData
    /\ Becomes(s, m_data[t], <<>>, <<>>, written[t])

\* set<I>(v): memcpy to the field's own place
SetPacked(s, i) ==
    /\ Count(Ts) = 0 /\ m_data[s] # NoData
    /\ LET places == ElemOffset(i) .. ElemOffset(i) + Ts[i].size - 1
       IN Becomes(s, [b \in DOMAIN m_data[s] \cup places |-> IF b \in places THEN <<i, 0>> ELSE m_data[s][b]],
                  <<>>, <<>>, written[s] \cup {<<i, 0>>})

\* operator==: the sizes, then the bytes; of a PackedStruct the bytes alone
SameBytes(s, t, n) == \A b \in 0 .. n - 1 : m_data[s][b] = m_data[t][b]
Equal(s, t) == size(s) = size(t) /\ SameBytes(s, t, size(s))
PackedEqual(s, t) == SameBytes(s, t, staticSize)

Next == \E s \in Structs :
    \/ \E args \in [1..Count(Ts) -> 0..MaxSize] : Construct(s, args)
    \/ \E i \in DOMAIN Ts, e \in 0..MaxSize : Set(s, i, e)
    \/ \E t \in Structs : Copy(s, t) \/ Move(s, t) \/ CopyPacked(s, t)
    \/ ConstructPacked(s)
    \/ \E i \in DOMAIN Ts : SetPacked(s, i)

Spec == Init /\ [][Next]_vars

-----------------------------------------------------------------------------
(* Properties *)

Living == {s \in Structs : m_data[s] # NoData}

\* What is allocated, what size() says and what the elements occupy are the same
\* bytes: no field leaves them and none is behind a gap.
LayoutFits == \A s \in Living :
    /\ DOMAIN m_data[s] = 0 .. size(s) - 1
    /\ DOMAIN m_data[s] =
         UNION {UNION {Place(s, i, e) : e \in 0 .. Elements(i, sizes[s]) - 1} : i \in DOMAIN Ts}
    /\ size(s) = AccumSize(sizes[s])

\* What was set is there, whatever else was set, copied or moved.
FieldsKeepTheirValues == \A s \in Living : \A x \in written[s] :
    \A b \in Place(s, x[1], x[2]) : m_data[s][b] = x

\* == tells structs apart by their elements, once they have the same sizes.
EqualComparesElements == \A s, t \in Living :
    sizes[s] = sizes[t] =>
        ((IF Count(Ts) > 0 THEN Equal(s, t) ELSE PackedEqual(s, t)) <=> written[s] = written[t])

LayoutSound == LayoutFits /\ FieldsKeepTheirValues /\ EqualComparesElements
=============================================================================
