------------------------------ MODULE Uint128 ------------------------------
(* uint128_t.h: an unsigned integer in two halves of HalfBits bits (64 in    *)
(* the code), with arithmetic on the halves modulo 2^HalfBits.               *)
EXTENDS Integers, Sequences, Bitwise

CONSTANTS HalfBits,
          Halves     \* the values of a half that are tried

VARIABLES a, b

vars == <<a, b>>

Half == 2^HalfBits
Number(upper, lower) == [upper |-> upper % Half, lower |-> lower % Half]
Value(x) == x.upper * Half + x.lower
Shl(h, k) == (h * 2^k) % Half
Shr(h, k) == h \div 2^k

\* operator<< and operator>> for 0 < shift < 2 * HalfBits (asserted), and 0
ShiftLeft(x, shift) ==
    IF shift = 0 THEN x
    ELSE IF shift < HalfBits
    THEN Number(Shl(x.upper, shift) | Shr(x.lower, HalfBits - shift), Shl(x.lower, shift))
    ELSE Number(Shl(x.lower, shift - HalfBits), 0)
ShiftRight(x, shift) ==
    IF shift = 0 THEN x
    ELSE IF shift < HalfBits
    THEN Number(Shr(x.upper, shift), Shr(x.lower, shift) | Shl(x.upper, HalfBits - shift))
    ELSE Number(0, Shr(x.upper, shift - HalfBits))

\* Unary minus, + and -: the lower halves tell whether there is a carry.
Carry(c) == IF c THEN 1 ELSE 0
Negate(x) == Number(-x.upper - Carry(x.lower > 0), -x.lower)
Add(x, y) == LET lower == (x.lower + y.lower) % Half
             IN Number(x.upper + y.upper + Carry(lower < x.lower), lower)
Subtract(x, y) == LET lower == (x.lower - y.lower) % Half
                  IN Number(x.upper - y.upper - Carry(lower > x.lower), lower)
Complement(x) == Number(Half - 1 - x.upper, Half - 1 - x.lower)

\* operator*: both numbers in four pieces of half the bits, the products of one
\* weight summed in a half, then the four sums added with their weights
Multiply(x, y) ==
    LET B == HalfBits \div 2  P == 2^B
        xs == <<x.upper \div P, x.upper % P, x.lower \div P, x.lower % P>>
        ys == <<y.upper \div P, y.upper % P, y.lower \div P, y.lower % P>>
        muls(i, j) == (xs[i] * ys[j]) % Half
        low(i, j)  == muls(i, j) % P
        high(i, j) == muls(i, j) \div P
        vals0 == low(4,4)
        vals1 == (low(3,4) + high(4,4) + low(4,3)) % Half
        vals2 == (low(2,4) + high(3,4) + low(3,3) + high(4,3) + low(4,2)) % Half
        vals3 == (low(1,4) + high(2,4) + low(2,3) + high(3,3) + low(3,2) + high(4,2) + low(4,1)) % Half
    IN Add(Add(Add(Number(0, vals0), Number(vals1 \div P, Shl(vals1, B))), Number(vals2, 0)),
           Number(Shl(vals3, B), 0))

Less(x, y) == x.upper < y.upper \/ (x.upper = y.upper /\ x.lower < y.lower)

\* divMod: bitwise long division, with bit i of x taken from the top
DivMod(x, y) ==
    LET bit(i) == ShiftRight(x, i).lower % 2
        step[n \in 0 .. 2 * HalfBits] ==
          IF n = 0 THEN [quot |-> Number(0, 0), rem |-> Number(0, 0)]
          ELSE LET i    == 2 * HalfBits - n
                   last == step[n-1]
                   q    == last.quot
                   rem  == [ShiftLeft(last.rem, 1) EXCEPT !.lower = @ | bit(i)]
                   one  == ShiftLeft(Number(0, 1), i)
               IN IF ~Less(rem, y)
                  THEN [quot |-> Number(q.upper | one.upper, q.lower | one.lower), rem |-> Subtract(rem, y)]
                  ELSE [quot |-> q, rem |-> rem]
    IN step[2 * HalfBits]

DemoteToBool(x) == x.upper | x.lower # 0
Demote(x, bits) == x.lower % 2^bits

\* The digits operator<< writes, from the last to the first
Digits(x, base) ==
    LET digits[q \in [upper : 0..Half-1, lower : 0..Half-1]] ==
          LET d == DivMod(q, Number(0, base))
          IN <<d.rem.lower>> \o (IF DemoteToBool(d.quot) THEN digits[d.quot] ELSE <<>>)
    IN digits[x]

Init == /\ a \in [upper : Halves, lower : Halves]
        /\ b \in [upper : Halves, lower : Halves]

\* There is no other state than the two operands.
Next == a' = b /\ b' = a

Spec == Init /\ [][Next]_vars

-----------------------------------------------------------------------------
(* Properties *)

Is(x, n) == Value(x) = n % (Half * Half)

\* Every operation gives the value modulo 2^128, whatever is carried between the
\* halves and, in a product, between the sums of its pieces.
Uint128Agrees ==
    LET x == Value(a)  y == Value(b) IN
    /\ Is(Add(a, b), x + y) /\ Is(Subtract(a, b), x - y) /\ Is(Multiply(a, b), x * y)
    /\ Is(Negate(a), -x) /\ Is(Complement(a), -x - 1) /\ (Less(a, b) <=> x < y)
    /\ \A s \in 0 .. 2*HalfBits - 1 : Is(ShiftLeft(a, s), x * 2^s) /\ Is(ShiftRight(a, s), x \div 2^s)
    /\ \A bits \in 1..HalfBits : Demote(a, bits) = x % 2^bits
    /\ DemoteToBool(a) <=> x # 0
    /\ \A base \in {8, 10} : LET d == Digits(a, base)
                                 value[n \in 0..Len(d)] == IF n = 0 THEN 0 ELSE value[n-1] + d[n] * base^(n-1)
                             IN value[Len(d)] = x /\ \A n \in DOMAIN d : d[n] < base
    /\ y # 0 => Is(DivMod(a, b).quot, x \div y) /\ Is(DivMod(a, b).rem, x % y)
=============================================================================
