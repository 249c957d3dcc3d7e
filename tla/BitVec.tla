------------------------------- MODULE BitVec -------------------------------
(* BitVector.h: a vector of bits in blocks.  A block is the set of the       *)
(* positions of its ones.  The bits of the last block beyond m_num_bits are  *)
(* excess bits: "we do not keep the invariant that excess bits are zeroed".  *)
(* append() at an offset inside a block relies on more than the class keeps; *)
(* "unaligned" remembers that it was called so, and nothing follows it.      *)
EXTENDS Naturals, Sequences

CONSTANTS Vectors,
          BitsPerBlock,   \* bits_per_block()
          BlockWidth,     \* blocks in one block of the serialization
          MaxBits         \* bound on the size

VARIABLES m_blocks, m_num_bits,
          bits,           \* history: what a vector of Booleans would hold
          unaligned

vars == <<m_blocks, m_num_bits, bits, unaligned>>

Full == 0 .. BitsPerBlock-1
compute_block_count(n) == (n + BitsPerBlock - 1) \div BitsPerBlock
bit_index(i) == i % BitsPerBlock
block_index(i) == i \div BitsPerBlock + 1   \* sequences begin at 1
Blocks(n, b) == [j \in 1..compute_block_count(n) |-> b]
BitsOf(blocks, n) == [i \in 1..n |-> bit_index(i-1) \in blocks[block_index(i-1)]]

Init == /\ m_blocks = [v \in Vectors |-> <<>>]
        /\ m_num_bits = [v \in Vectors |-> 0]
        /\ bits = [v \in Vectors |-> <<>>]
        /\ unaligned = FALSE

\* v gets these blocks and this size, and should hold b
Becomes(v, blocks, n, b) ==
    /\ m_blocks' = [m_blocks EXCEPT ![v] = blocks]
    /\ m_num_bits' = [m_num_bits EXCEPT ![v] = n]
    /\ bits' = [bits EXCEPT ![v] = b]
    /\ UNCHANGED unaligned

\* The constructor from a size and a value, assign(n, val), clear() for n = 0:
\* all blocks are filled, the excess bits too.
Fill(v, n, val) == Becomes(v, Blocks(n, IF val THEN Full ELSE {}), n, [i \in 1..n |-> val])

\* The constructor from a range and assign() of one: reset(), then the ones
AssignRange(v, b) ==
    LET n == Len(b) IN
    Becomes(v, [j \in 1..compute_block_count(n) |->
                  {i \in Full : (j-1) * BitsPerBlock + i < n /\ b[(j-1) * BitsPerBlock + i + 1]}], n, b)

\* resize(): new blocks are zero; bits that were excess come to light as they
\* are ("undefined valued bits").
Resize(v, n) ==
    LET old == m_blocks[v]
        new == [j \in 1..compute_block_count(n) |-> IF j <= Len(old) THEN old[j] ELSE {}]
        kept == SubSeq(bits[v], 1, IF n < m_num_bits[v] THEN n ELSE m_num_bits[v])
    IN Becomes(v, new, n, kept \o SubSeq(BitsOf(new, n), Len(kept) + 1, n))

\* push_back(): the last block, which is a new one at the end of a block
PushBack(v, val) ==
    LET n == m_num_bits[v]
        old == IF bit_index(n) = 0 THEN Append(m_blocks[v], {}) ELSE m_blocks[v]
    IN Becomes(v, [old EXCEPT ![Len(old)] = IF val THEN @ \cup {bit_index(n)} ELSE @ \ {bit_index(n)}],
               n + 1, Append(bits[v], val))

PopBack(v) ==
    LET n == m_num_bits[v] - 1 IN
    /\ m_num_bits[v] > 0
    /\ Becomes(v, IF bit_index(n) = 0 THEN SubSeq(m_blocks[v], 1, Len(m_blocks[v]) - 1) ELSE m_blocks[v],
               n, SubSeq(bits[v], 1, n))

\* A reference to bit i of v: operator=, |=, &=, ^=, -= and flip()
Write(v, i, val) ==
    /\ i < m_num_bits[v]
    /\ Becomes(v, [m_blocks[v] EXCEPT ![block_index(i)] = IF val THEN @ \cup {bit_index(i)} ELSE @ \ {bit_index(i)}],
               m_num_bits[v], [bits[v] EXCEPT ![i+1] = val])

\* randomize(), assignBits() and users of data(): any blocks, the excess included
Randomize(v) == \E blocks \in [1..Len(m_blocks[v]) -> SUBSET Full] :
    Becomes(v, blocks, m_num_bits[v], BitsOf(blocks, m_num_bits[v]))

Flip(v) == Becomes(v, [j \in DOMAIN m_blocks[v] |-> Full \ m_blocks[v][j]],
                   m_num_bits[v], [i \in DOMAIN bits[v] |-> ~bits[v][i]])

\* operator|=, &=, ^= on vectors of one size, and assign() of another vector
Combine(v, w) ==
    /\ m_num_bits[v] = m_num_bits[w]
    /\ \/ Becomes(v, [j \in DOMAIN m_blocks[v] |-> m_blocks[v][j] \cup m_blocks[w][j]],
                  m_num_bits[v], [i \in DOMAIN bits[v] |-> bits[v][i] \/ bits[w][i]])
       \/ Becomes(v, [j \in DOMAIN m_blocks[v] |-> m_blocks[v][j] \cap m_blocks[w][j]],
                  m_num_bits[v], [i \in DOMAIN bits[v] |-> bits[v][i] /\ bits[w][i]])
       \/ Becomes(v, [j \in DOMAIN m_blocks[v] |-> (m_blocks[v][j] \cup m_blocks[w][j])
                                                   \ (m_blocks[v][j] \cap m_blocks[w][j])],
                  m_num_bits[v], [i \in DOMAIN bits[v] |-> bits[v][i] # bits[w][i]])
       \/ Becomes(v, [j \in DOMAIN m_blocks[v] |-> m_blocks[w][j]], m_num_bits[v], bits[w])

\* append() at the end of a block: the other blocks are pushed behind.
AppendAligned(v, w) ==
    /\ bit_index(m_num_bits[v]) = 0 /\ v # w
    /\ m_num_bits[v] + m_num_bits[w] <= MaxBits
    /\ Becomes(v, m_blocks[v] \o m_blocks[w], m_num_bits[v] + m_num_bits[w], bits[v] \o bits[w])

\* append() at offset r inside a block: every block of w is or-ed in and spills
\* into one more block.  (Of an empty w it dereferences end().)
AppendUnaligned(v, w) ==
    LET r == bit_index(m_num_bits[v])
        n == Len(m_blocks[v])
        low(b)  == {i + r : i \in {k \in b : k + r \in Full}}
        high(b) == {i + r - BitsPerBlock : i \in {k \in b : k + r \notin Full}}
        from(j) == high(m_blocks[w][j]) \cup (IF j = Len(m_blocks[w]) THEN {} ELSE low(m_blocks[w][j+1]))
    IN /\ r # 0 /\ v # w /\ m_num_bits[w] > 0
       /\ m_num_bits[v] + m_num_bits[w] <= MaxBits
       /\ m_blocks' = [m_blocks EXCEPT ![v] = [@ EXCEPT ![n] = @ \cup low(m_blocks[w][1])]
                                              \o [j \in 1..Len(m_blocks[w]) |-> from(j)]]
       /\ m_num_bits' = [m_num_bits EXCEPT ![v] = @ + m_num_bits[w]]
       /\ bits' = [bits EXCEPT ![v] = @ \o bits[w]]
       /\ unaligned' = TRUE

\* swap(); the moving constructor and assignment leave the other one empty.
Swap(v, w) == /\ v # w
              /\ m_blocks' = [m_blocks EXCEPT ![v] = m_blocks[w], ![w] = m_blocks[v]]
              /\ m_num_bits' = [m_num_bits EXCEPT ![v] = m_num_bits[w], ![w] = m_num_bits[v]]
              /\ bits' = [bits EXCEPT ![v] = bits[w], ![w] = bits[v]]
              /\ UNCHANGED unaligned
Move(v, w) == /\ v # w
              /\ m_blocks' = [m_blocks EXCEPT ![v] = m_blocks[w], ![w] = <<>>]
              /\ m_num_bits' = [m_num_bits EXCEPT ![v] = m_num_bits[w], ![w] = 0]
              /\ bits' = [bits EXCEPT ![v] = bits[w], ![w] = <<>>]
              /\ UNCHANGED unaligned

\* serialize() of w: its blocks, padded to whole words of the serialization
Serialized(w) ==
    LET words == compute_block_count(m_num_bits[w]) IN
    [j \in 1 .. ((words + BlockWidth - 1) \div BlockWidth) * BlockWidth |->
        IF j <= Len(m_blocks[w]) THEN m_blocks[w][j] ELSE {}]

\* deserialize() by v of what w has serialized: sizes must match; reset(), then
\* every block of v is or-ed with the next of the message.
Deserialize(v, w) ==
    /\ m_num_bits[v] = m_num_bits[w]
    /\ Becomes(v, [j \in DOMAIN m_blocks[v] |-> Serialized(w)[j]], m_num_bits[v], bits[w])

\* equals_(): whole blocks, then the last one under a mask
Equals(v, w) ==
    /\ m_num_bits[v] = m_num_bits[w]
    /\ m_num_bits[v] > 0 =>
         LET n == Len(m_blocks[w])
             mask == 0 .. bit_index(m_num_bits[v] - 1)
         IN /\ \A j \in 1..n-1 : m_blocks[v][j] = m_blocks[w][j]
            /\ m_blocks[v][n] \cap mask = m_blocks[w][n] \cap mask

Next == /\ ~unaligned
        /\ \E v \in Vectors :
             \/ \E n \in 0..MaxBits : Resize(v, n) \/ \E val \in BOOLEAN : Fill(v, n, val)
             \/ \E n \in 0..MaxBits : \E b \in [1..n -> BOOLEAN] : AssignRange(v, b)
             \/ \E val \in BOOLEAN : m_num_bits[v] < MaxBits /\ PushBack(v, val)
             \/ \E i \in 0..MaxBits-1, val \in BOOLEAN : Write(v, i, val)
             \/ PopBack(v) \/ Randomize(v) \/ Flip(v)
             \/ \E w \in Vectors : \/ Combine(v, w) \/ Swap(v, w) \/ Move(v, w) \/ Deserialize(v, w)
                                   \/ AppendAligned(v, w) \/ AppendUnaligned(v, w)

Spec == Init /\ [][Next]_vars

-----------------------------------------------------------------------------
(* Properties *)

\* Whatever the excess bits are, after any operations the vector holds the bits
\* a vector of Booleans would (push_back, resize, append, deserialize, ...), it has
\* as many blocks as they need, and == compares them; until an unaligned append().
BitVectorAgrees == ~unaligned =>
    /\ \A v \in Vectors : /\ Len(m_blocks[v]) = compute_block_count(m_num_bits[v])
                          /\ BitsOf(m_blocks[v], m_num_bits[v]) = bits[v]
    /\ \A v, w \in Vectors : Equals(v, w) <=> bits[v] = bits[w]
=============================================================================
