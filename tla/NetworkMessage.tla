--------------------------- MODULE NetworkMessage ---------------------------
(* NetworkMessage.h: messages that are written and read item by item.  A     *)
(* byte is a digit; words are the values of the plain types that read() and  *)
(* write() copy.  Arithmetic on sizes wraps at SizeMax + 1.  "items" is what *)
(* was written, and "matched" says that the reader has so far asked for just *)
(* these items.  A write that throws changes nothing and is no step.         *)
EXTENDS Naturals, Sequences, SequencesExt

CONSTANTS Base,        \* values of a byte
          SizeBytes,   \* sizeof(SerializedSizeType)
          SizeMax,     \* numeric_limits<std::size_t>::max()
          WordSize, Words, Strings,
          NarrowMax,   \* numeric_limits<SizeType>::max() of a smaller SizeType
          MaxItems     \* bound on the items written

VARIABLES data, m_offset,        \* the outgoing message: its bytes, where it is
          items,
          incoming, in_offset,   \* the same of the incoming message
          matched,               \* number of the items read, or Mismatch
          last                   \* the last call of the reader

vars == <<data, m_offset, items, incoming, in_offset, matched, last>>

Mismatch == SizeMax + 1   \* more than there can be items
Nothing == [ok |-> TRUE, from |-> 0, asked |-> 0, value |-> <<>>]
Power[n \in Nat] == IF n = 0 THEN 1 ELSE Base * Power[n-1]
ValueOf(digits) ==
    LET value[k \in 0..Len(digits)] == IF k = 0 THEN 0 ELSE value[k-1] * Base + digits[k]
    IN value[Len(digits)]
hostToSharemindNetOrder(n) == [i \in 1..SizeBytes |-> (n \div Power[SizeBytes - i]) % Base]
Item(kind, value) == [kind |-> kind, value |-> value]
BytesOf(item) == IF item.kind = "string"
                 THEN hostToSharemindNetOrder(Len(item.value)) \o item.value
                 ELSE item.value

Init == /\ data = <<>> /\ m_offset = 0 /\ items = <<>>
        /\ incoming = <<>> /\ in_offset = 0 /\ matched = Mismatch /\ last = Nothing

-----------------------------------------------------------------------------
(* OutgoingNetworkMessage *)

spaceLeft == SizeMax - m_offset
Writing == incoming = <<>>   \* the ends are independent: first all writes, then reads
\* addBytes() and pokeBytes(); "assert(this->size == m_offset)"
Add(bytes) == /\ Writing /\ Len(data) = m_offset
              /\ data' = data \o bytes
              /\ m_offset' = m_offset + Len(bytes)
Written(item) == /\ Len(items) < MaxItems
                 /\ items' = Append(items, item)
                 /\ UNCHANGED <<incoming, in_offset, matched, last>>

\* write() of a bool or a word: writeBytes() throws when there is no space.
WriteBool(v) == /\ 1 <= spaceLeft
                /\ Add(<<v>>) /\ Written(Item("bool", <<v>>))
WriteWord(w) == /\ WordSize <= spaceLeft
                /\ Add(w) /\ Written(Item("word", w))

\* write(T &&) of a string, a message or a char * that is not const: it is a better
\* match than the overload for the const one, and writes the bytes of the object
\* itself (as many as a word has, here).  No read gives its contents back.
WriteObject(w) == /\ WordSize <= spaceLeft
                  /\ Add(w) /\ Written(Item("object", w))

\* write() of a const string: writeSizeAndArray(), and writeSize() alone for an empty one
WriteString(s) ==
    /\ IF Len(s) = 0 THEN SizeBytes <= spaceLeft
       ELSE SizeBytes <= spaceLeft /\ spaceLeft - SizeBytes >= Len(s)
    /\ Add(hostToSharemindNetOrder(Len(s)) \o s) /\ Written(Item("string", s))

\* writeArray() of words; an empty array is nothing.
WriteArray(ws) ==
    /\ Len(ws) > 0 /\ spaceLeft \div WordSize >= Len(ws)
    /\ Add(FlattenSeq(ws)) /\ Written(Item("array", FlattenSeq(ws)))

\* rewind() and seek(): unless the message is empty, a write fails its assertion then
Rewind == /\ Writing /\ m_offset' = 0
          /\ UNCHANGED <<data, items, incoming, in_offset, matched, last>>
Seek(p) == /\ Writing /\ p < Len(data) /\ m_offset' = p
           /\ UNCHANGED <<data, items, incoming, in_offset, matched, last>>

-----------------------------------------------------------------------------
(* IncomingNetworkMessage *)

\* The message arrives, or another one does.
Receive == /\ Writing
           /\ incoming' = data /\ in_offset' = 0 /\ matched' = 0 /\ last' = Nothing
           /\ UNCHANGED <<data, m_offset, items>>
ReceiveOther(bytes) == /\ Writing /\ items = <<>> /\ incoming' = bytes /\ in_offset' = 0 /\ matched' = Mismatch /\ last' = Nothing
                       /\ UNCHANGED <<data, m_offset, items>>

Remaining == Len(incoming) - in_offset
Peek(from, n) == SubSeq(incoming, from + 1, from + n)
NextItem == IF matched < Len(items) THEN items[matched + 1] ELSE Item("none", <<>>)

\* A call that asked for a kind of n bytes or elements ends.
Ends(kind, n, ok, offset, value) ==
    /\ Len(incoming) > 0   \* "assert(this->data)"
    /\ in_offset' = offset
    /\ last' = [ok |-> ok, from |-> in_offset, asked |-> n, value |-> value]
    /\ matched' = IF ok /\ matched < Len(items) /\ NextItem.kind = kind
                        /\ (kind = "array" => Len(NextItem.value) = n * WordSize)
                  THEN matched + 1 ELSE Mismatch
    /\ UNCHANGED <<data, m_offset, items, incoming>>

\* readBytes(), and read() of a word
ReadWord ==
    IF Remaining < WordSize THEN Ends("word", WordSize, FALSE, in_offset, <<>>)
    ELSE Ends("word", WordSize, TRUE, in_offset + WordSize, Peek(in_offset, WordSize))

\* read(bool &): a byte that is neither 0 nor 1 is given back.
ReadBool ==
    IF Remaining < 1 \/ Peek(in_offset, 1)[1] > 1 THEN Ends("bool", 1, FALSE, in_offset, <<>>)
    ELSE Ends("bool", 1, TRUE, in_offset + 1, Peek(in_offset, 1))

\* Bug: the size stays read when the characters are not there.
ReadStringNoRollback ==
    LET length == ValueOf(Peek(in_offset, SizeBytes))
        start  == in_offset + SizeBytes
    IN IF Remaining < SizeBytes THEN Ends("string", 0, FALSE, in_offset, <<>>)
       ELSE IF length > Len(incoming) - start THEN Ends("string", length, FALSE, start, <<>>)
       ELSE Ends("string", length, TRUE, start + length, Peek(start, length))

\* read(std::string &): the size, then so many characters, or the offset goes back.
ReadString ==
    LET length == ValueOf(Peek(in_offset, SizeBytes))
        start  == in_offset + SizeBytes
    IN IF Remaining < SizeBytes THEN Ends("string", 0, FALSE, in_offset, <<>>)
       ELSE IF length > Len(incoming) - start THEN Ends("string", length, FALSE, in_offset, <<>>)
       ELSE Ends("string", length, TRUE, start + length, Peek(start, length))

\* readSize() into a smaller type.  It throws when the size does not fit, with the
\* size consumed: no roll back there, so that a caller that catches goes on behind it.
ReadSize ==
    LET size == ValueOf(Peek(in_offset, SizeBytes))
        end  == in_offset + SizeBytes
    IN IF Remaining < SizeBytes THEN Ends("size", SizeBytes, FALSE, in_offset, <<>>)
       ELSE IF size > NarrowMax THEN Ends("exception", SizeBytes, TRUE, end, <<>>)
       ELSE Ends("size", SizeBytes, TRUE, end, Peek(in_offset, SizeBytes))

\* readArray(): the product of the sizes must not wrap.
ReadArray(size) ==
    LET bytes == (WordSize * size) % (SizeMax + 1) IN
    IF SizeMax \div WordSize < size \/ Remaining < bytes
    THEN Ends("array", size, FALSE, in_offset, <<>>)
    ELSE Ends("array", size, TRUE, in_offset + bytes, Peek(in_offset, bytes))

SeekIncoming(p) == /\ p < Len(incoming) /\ in_offset' = p
                   /\ matched' = Mismatch /\ last' = Nothing
                   /\ UNCHANGED <<data, m_offset, items, incoming>>

Next == \/ \E v \in {0, 1} : WriteBool(v)
        \/ \E w \in Words : WriteWord(w) \/ WriteObject(w)
        \/ \E s \in Strings : WriteString(s)
        \/ \E ws \in {<<w>> : w \in Words} \cup {<<w, x>> : w, x \in Words} : WriteArray(ws)
        \/ Rewind \/ \E p \in 0..SizeMax : Seek(p) \/ SeekIncoming(p)
        \/ Receive \/ \E s \in Strings : ReceiveOther(s)
        \/ ReadWord \/ ReadBool \/ ReadString \/ ReadSize
        \/ \E size \in 0..SizeMax : ReadArray(size)

Spec == Init /\ [][Next]_vars

-----------------------------------------------------------------------------
(* Properties *)

\* The message is the items, each complete; it never outgrows std::size_t.
WritesAreWhole == /\ data = FlattenSeq([i \in DOMAIN items |-> BytesOf(items[i])])
                  /\ Len(data) <= SizeMax

\* A reader that asks for the items in their order gets their values, from the
\* bytes that the writer used for them.
ReadsWhatWasWritten == matched \in 1..Len(items) =>
    /\ last.ok => last.value = items[matched].value
    /\ in_offset = Len(FlattenSeq([i \in 1..matched |-> BytesOf(items[i])]))

\* A read that fails leaves the offset where it was, and one that succeeds got all
\* it asked for, inside the message (readArray, read of strings).
ReadsAreWhole == /\ in_offset <= Len(incoming)
                 /\ ~last.ok => in_offset = last.from
                 /\ last.ok => in_offset >= last.from + last.asked

MessageAgrees == WritesAreWhole /\ ReadsWhatWasWritten /\ ReadsAreWhole
=============================================================================
