-------------------------------- MODULE Words --------------------------------
(* The numbers of an 8086 and of the 32-bit routines of SYSTEM, for a word   *)
(* of Width bits: a byte has half of them and a LONGINT twice as many.       *)
EXTENDS Integers

CONSTANT Width

ASSUME WidthAssumption == /\ Width \in Nat
                          /\ Width >= 4
                          /\ Width % 2 = 0

Byte == 2 ^ (Width \div 2)
Word == Byte * Byte
Long == Word * Word

\* The number that bits n of a register of modulus m stand for.
Signed(m, n) == IF 2 * n < m THEN n ELSE n - m
Wrap(m, n) == Signed(m, n % m)

Lo(n) == n % Word
Hi(n) == n \div Word

\* Truncating division, the one of IDIV and of S32DIV.
Quotient(a, b) == IF (a < 0) = (b < 0)
                  THEN (IF a < 0 THEN -a ELSE a) \div (IF b < 0 THEN -b ELSE b)
                  ELSE -((IF a < 0 THEN -a ELSE a) \div (IF b < 0 THEN -b ELSE b))

\* A REAL is a number of halves, so that it has something to be rounded.
RealProduct(a, b) == (a * b) \div 2
RealQuotient(a, b) == IF b < 0 THEN (-2 * a) \div (-b) ELSE (2 * a) \div b

-----------------------------------------------------------------------------
(* SYSTEM_S32MUL, SYSTEM_S32DIV and SYSTEM_S32MOD, on the bits of LONGINTs. *)
Negated(n) == (Long - n) % Long
Negative(n) == 2 * n >= Long
Magnitude(n) == IF Negative(n) THEN Negated(n) ELSE n

\* div_kernel_32: one bit of the dividend after the other enters the
\* remainder; a divisor of zero gives all ones.
Kernel(n, d) ==
    LET next[s \in [rem : Nat, quo : Nat]] ==
            LET rem == (2 * s.rem + (2 * s.quo) \div Long) % Long
                quo == (2 * s.quo) % Long
            IN IF rem >= d THEN [rem |-> rem - d, quo |-> quo + 1] ELSE [rem |-> rem, quo |-> quo]
        step[k \in 0 .. 2 * Width] == IF k = 0 THEN [rem |-> 0, quo |-> n] ELSE next[step[k - 1]]
    IN IF d = 0 THEN [rem |-> Long - 1, quo |-> Long - 1] ELSE step[2 * Width]

S32Div(a, b) == LET q == Kernel(Magnitude(a), Magnitude(b)).quo
                IN IF Negative(a) # Negative(b) THEN Negated(q) ELSE q

S32Mod(a, b) == LET r == Kernel(Magnitude(a), Magnitude(b)).rem
                IN IF Negative(a) THEN Negated(r) ELSE r

\* Three products of words; what they carry out of the high word is lost.
Product(x, y) == LET low == Lo(x) * Lo(y)
                     high == Hi(low) + Lo(x) * Hi(y) + Hi(x) * Lo(y)
                 IN Lo(low) + Word * (high % Word)

S32Mul(a, b) == LET p == Product(Magnitude(a), Magnitude(b))
                IN IF Negative(a) # Negative(b) THEN Negated(p) ELSE p
=============================================================================
