-------------------------------- MODULE Uint --------------------------------
(* uint_t.h: unsigned integers of num_of_bits bits in blocks, the lowest     *)
(* first.  Block arithmetic is modulo 2^bits_in_block.  "\invariant Unused   *)
(* bits are always set to zero."                                             *)
EXTENDS Integers, Sequences, Bitwise

CONSTANT bits_in_block   \* 8 .. 64 in the code

VARIABLES num_of_bits, a, b   \* the size of a uint_t and two of its values

vars == <<num_of_bits, a, b>>

BlockBase == 2^bits_in_block
num_of_blocks == (num_of_bits + bits_in_block - 1) \div bits_in_block
Indices == 0 .. num_of_blocks-1
last_block_mask == 2^(num_of_bits - (num_of_blocks - 1) * bits_in_block) - 1

Shl(x, k) == (x * 2^k) % BlockBase
Shr(x, k) == x \div 2^k
clear_unused_bits_(u) == [u EXCEPT ![num_of_blocks-1] = @ & last_block_mask]

\* Uints, and their values
ValueOf(u, n) == LET sum[i \in 0..n] == IF i = 0 THEN 0 ELSE sum[i-1] + u[i-1] * BlockBase^(i-1) IN sum[n]
Value(u) == ValueOf(u, num_of_blocks)
Valid(u) == u \in [Indices -> 0..BlockBase-1] /\ u = clear_unused_bits_(u)

\* copy_bits_ of an unsigned integer, which may have more bits than a block: the
\* blocks are peeled off from its low end.
From(val) == clear_unused_bits_([i \in Indices |-> (val \div BlockBase^i) % BlockBase])
Zero == From(0)

\* ~, &, ^ and |, block by block
Complement(u)   == clear_unused_bits_([i \in Indices |-> BlockBase - 1 - u[i]])
BitAnd(u, v)    == [i \in Indices |-> u[i] & v[i]]
BitXor(u, v)    == [i \in Indices |-> u[i] ^^ v[i]]
BitOr(u, v)     == [i \in Indices |-> u[i] | v[i]]
NonZero(u)      == \E i \in Indices : u[i] # 0   \* operator!, and demotion to bool
Bit(u, i)       == Shr(u[i \div bits_in_block], i % bits_in_block) % 2

\* bit_reference to bit i: what =, |=, &=, ^=, -= and flip() end in
AssignBit(u, i, val) ==
    LET mask == 2^(i % bits_in_block)
    IN [u EXCEPT ![i \div bits_in_block] = IF val THEN @ | mask ELSE @ & (BlockBase - 1 - mask)]

shift_blocks_left_(u, n)  == clear_unused_bits_([i \in Indices |-> IF i < n THEN 0 ELSE u[i-n]])
shift_blocks_right_(u, n) == [i \in Indices |-> IF i + n < num_of_blocks THEN u[i+n] ELSE 0]

\* operator<<: by whole blocks, or each block with what the one below shifts out
ShiftLeft(u, shift) ==
    LET blockShift == shift \div bits_in_block
        bitShift   == shift % bits_in_block
    IN IF bitShift = 0 THEN shift_blocks_left_(u, blockShift)
       ELSE clear_unused_bits_([i \in Indices |->
              IF i < blockShift THEN 0
              ELSE Shl(u[i-blockShift], bitShift)
                   | (IF i = blockShift THEN 0 ELSE Shr(u[i-blockShift-1], bits_in_block - bitShift))])

\* operator>>, which needs no mask
ShiftRight(u, shift) ==
    LET blockShift == shift \div bits_in_block
        blockKeep  == num_of_blocks - blockShift - 1
        bitShift   == shift % bits_in_block
    IN IF bitShift = 0 THEN shift_blocks_right_(u, blockShift)
       ELSE clear_unused_bits_([i \in Indices |->
              IF i > blockKeep THEN 0
              ELSE Shr(u[i+blockShift], bitShift)
                   | (IF i = blockKeep THEN 0 ELSE Shl(u[i+blockShift+1], bits_in_block - bitShift))])

\* as_uint64_t(), to w bits (64 in the code, and here WordBits): the blocks that begin
\* below the lesser size.  The shifts by a uint_t use it.
WordBits == 6
as_uint64_t(u, w) ==
    LET s == IF num_of_bits < w THEN num_of_bits ELSE w
    IN ValueOf(u, (s + bits_in_block - 1) \div bits_in_block) % 2^w
ShiftLeftBy(u, v)  == ShiftLeft(u, as_uint64_t(v, WordBits))
ShiftRightBy(u, v) == ShiftRight(u, as_uint64_t(v, WordBits))

\* Bug: a carry that brings a block round to where it was is lost.
AddNoWrap(u, v) ==
    LET carry[i \in 0..num_of_blocks] ==
          IF i = 0 THEN 0
          ELSE LET temp  == (u[i-1] + v[i-1] + carry[i-1]) % BlockBase
                   limit == IF u[i-1] < v[i-1] THEN u[i-1] ELSE v[i-1]
               IN IF temp < limit THEN 1 ELSE 0
    IN clear_unused_bits_([i \in Indices |-> (u[i] + v[i] + carry[i]) % BlockBase])

\* operator+: the carry out of a block is seen by comparing with the smaller one.
Add(u, v) ==
    LET carry[i \in 0..num_of_blocks] ==
          IF i = 0 THEN 0
          ELSE LET temp  == (u[i-1] + v[i-1] + carry[i-1]) % BlockBase
                   limit == IF u[i-1] < v[i-1] THEN u[i-1] ELSE v[i-1]
               IN IF temp < limit \/ (carry[i-1] = 1 /\ temp = limit) THEN 1 ELSE 0
    IN clear_unused_bits_([i \in Indices |-> (u[i] + v[i] + carry[i]) % BlockBase])

\* operator-
Subtract(u, v) ==
    LET borrow[i \in 0..num_of_blocks] ==
          IF i = 0 THEN 0
          ELSE LET temp == (u[i-1] - borrow[i-1]) % BlockBase
               IN IF v[i-1] > temp \/ (borrow[i-1] = 1 /\ u[i-1] = 0) THEN 1 ELSE 0
    IN clear_unused_bits_([i \in Indices |-> (u[i] - borrow[i] - v[i]) % BlockBase])

Minus(u) == Subtract(Zero, u)

\* copy_bits_ of a uint128_t whose halves have h bits
FromUint128(upper, lower, h) == Add(ShiftLeft(From(upper), h), From(lower))

\* increment_(1) and decrement_(1), that is ++ and --
Increment(u) ==
    LET carry[i \in 0..num_of_blocks] ==
          IF i = 0 THEN 1 ELSE IF (u[i-1] + carry[i-1]) % BlockBase < carry[i-1] THEN 1 ELSE 0
    IN clear_unused_bits_([i \in Indices |-> (u[i] + carry[i]) % BlockBase])
Decrement(u) ==
    LET borrow[i \in 0..num_of_blocks] ==
          IF i = 0 THEN 1 ELSE IF borrow[i-1] > u[i-1] THEN 1 ELSE 0
    IN clear_unused_bits_([i \in Indices |-> (u[i] - borrow[i]) % BlockBase])

\* multHiLo of 64 bits: four products of halves of h bits, each sum below 2^(2h)
multHiLo(u, v, h) ==
    LET H  == 2^h
        u0 == u % H  u1 == u \div H  v0 == v % H  v1 == v \div H
        t0 == u0 * v0
        t1 == u1 * v0 + (t0 \div H)
        t2 == (u0 * v1 + (t1 % H)) % H^2
    IN [lo |-> (((t2 * H) % H^2) + (t0 % H)) % H^2,
        hi |-> (u1 * v1 + (t1 \div H) + (t2 \div H)) % H^2]

\* operator*: column by column, the sum of the column in a uint_t "carry"
Multiply(u, v) ==
    LET product(j, k) == LET m == multHiLo(u[j], v[k], bits_in_block \div 2)
                         IN [shift_blocks_left_(From(m.hi), 1) EXCEPT ![0] = @ | m.lo]
        column(c, i) == LET sum[j \in 0..i+1] == IF j = 0 THEN c ELSE Add(sum[j-1], product(j-1, i-j+1))
                        IN sum[i+1]
        carry[i \in 0..num_of_blocks] ==
          IF i = 0 THEN Zero ELSE shift_blocks_right_(column(carry[i-1], i-1), 1)
    IN IF num_of_blocks = 1 THEN From(u[0] * v[0])
       ELSE clear_unused_bits_([i \in Indices |-> column(carry[i], i)[0]])

\* operator<, from the highest block down
Less(u, v) == \E i \in Indices : u[i] < v[i] /\ \A j \in i+1 .. num_of_blocks-1 : u[j] = v[j]

\* divMod: bitwise long division; rem <<= 1 asserts that there are two bits.
DivMod(u, v) ==
    LET step[n \in 0..num_of_bits] ==
          IF n = 0 THEN [quot |-> Zero, rem |-> Zero]
          ELSE LET i    == num_of_bits - n
                   last == step[n-1]
                   rem  == [ShiftLeft(last.rem, 1) EXCEPT ![0] = @ | Bit(u, i)]
               IN IF ~Less(rem, v)
                  THEN [quot |-> BitOr(last.quot, ShiftLeft(From(1), i)), rem |-> Subtract(rem, v)]
                  ELSE [quot |-> last.quot, rem |-> rem]
    IN step[num_of_bits]

\* The digits operator<< writes, from the last to the first; a number of few
\* bits is one digit.  (A digit is in one block of the code's, of 8 bits or more.)
Digits(u, base) ==
    LET quot[n \in 0..num_of_bits] ==
          IF n = 0 THEN u ELSE IF Value(quot[n-1]) = 0 THEN Zero ELSE DivMod(quot[n-1], From(base)).quot
        count == CHOOSE n \in 0..num_of_bits : Value(quot[n]) = 0 /\ \A k \in 0..n-1 : Value(quot[k]) # 0
    IN IF Value(u) = 0 THEN <<0>>
       ELSE IF num_of_bits < (IF base = 16 THEN 5 ELSE 4) THEN <<Value(u)>>
       ELSE [n \in 1..count |-> Value(DivMod(quot[n-1], From(base)).rem)]
buff_size == 1 + (num_of_bits + 2) \div 3

\* demote<T>() to an integer of the given bits: one block, or all of them from
\* the highest down
Demote(u, bits) ==
    LET out[n \in 0..num_of_blocks] ==
          IF n = 0 THEN 0 ELSE (out[n-1] * BlockBase + u[num_of_blocks - n]) % 2^bits
    IN IF bits <= bits_in_block THEN u[0] % 2^bits ELSE out[num_of_blocks]

Sizes == 1 .. 5
Init == /\ num_of_bits \in Sizes
        /\ a \in {From(n) : n \in 0 .. 2^num_of_bits - 1}
        /\ b \in {From(n) : n \in 0 .. 2^num_of_bits - 1}

\* One value takes the place of the other: there is no other state.
Next == a' = b /\ b' = a /\ UNCHANGED num_of_bits

Spec == Init /\ [][Next]_vars

-----------------------------------------------------------------------------
(* Properties *)

Is(u, n) == Valid(u) /\ Value(u) = n % 2^num_of_bits

\* Every operation gives the value modulo 2^N whatever the carries and borrows
\* between blocks and wherever N ends in the last block, and leaves the unused
\* bits zero.
UintAgrees ==
    LET x == Value(a)  y == Value(b) IN
    /\ Is(Add(a, b), x + y) /\ Is(Subtract(a, b), x - y) /\ Is(Multiply(a, b), x * y)
    /\ Is(Increment(a), x + 1) /\ Is(Decrement(a), x - 1) /\ Is(Complement(a), -x - 1)
    /\ Is(BitAnd(a, b), x & y) /\ Is(BitOr(a, b), x | y) /\ Is(BitXor(a, b), x ^^ y)
    /\ Is(Minus(a), -x) /\ (NonZero(a) <=> x # 0) /\ (Less(a, b) <=> x < y)
    /\ \A i \in 0..num_of_bits-1, val \in {0, 1} :
         Is(AssignBit(a, i, val = 1), x + (val - Bit(a, i)) * 2^i) /\ Bit(a, i) = (x \div 2^i) % 2
    /\ y < num_of_bits => Is(ShiftLeftBy(a, b), x * 2^y) /\ Is(ShiftRightBy(a, b), x \div 2^y)
    /\ \A h \in 1..num_of_bits-1 : Is(FromUint128(x, y, h), x * 2^h + y)
    /\ \A s \in 0..num_of_bits-1 : Is(ShiftLeft(a, s), x * 2^s) /\ Is(ShiftRight(a, s), x \div 2^s)
    /\ num_of_bits > 1 /\ y # 0 => /\ Is(DivMod(a, b).quot, x \div y)
                                   /\ Is(DivMod(a, b).rem, x % y)
    /\ \A bits \in 1..6 : Demote(a, bits) = x % 2^bits /\ as_uint64_t(a, bits) = x % 2^bits

\* What operator<< writes has the value, and with a sign it fits the buffer.
DigitsAgree == num_of_bits > 1 => \A base \in {8, 10, 16} :
    LET d == Digits(a, base)
        value[n \in 0..Len(d)] == IF n = 0 THEN 0 ELSE value[n-1] + d[n] * base^(n-1)
    IN value[Len(d)] = Value(a) /\ d \in Seq(0..base-1) /\ Len(d) + 1 <= buff_size

\* multHiLo computes the product of two blocks in two blocks.
MultHiLoAgrees == LET m == multHiLo(Value(a) % 16, Value(b) % 16, 2)
                  IN m.hi * 16 + m.lo = (Value(a) % 16) * (Value(b) % 16)

ArithmeticAgrees == UintAgrees /\ DigitsAgree /\ MultHiLoAgrees
=============================================================================
