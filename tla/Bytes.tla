------------------------------- MODULE Bytes -------------------------------
(***************************************************************************)
(* Numbers of more bits than TLC's integers have: sequences of bytes, the  *)
(* most significant one first, without a sign or in two's complement.      *)
(***************************************************************************)
EXTENDS Integers, Sequences

Byte == 0 .. 255
Zeros(n) == [i \in 1 .. n |-> 0]
LastBytes(b, n) == SubSeq(b, Len(b) - n + 1, Len(b))

\* b * k + a in the width of b, from the last byte to the first.
MulAdd(b, k, a) ==
  LET last[n \in 0 .. Len(b)] ==
        IF n = 0 THEN [bytes |-> <<>>, carry |-> a]
        ELSE LET r == last[n - 1]
                 x == b[Len(b) - n + 1] * k + r.carry
             IN [bytes |-> <<x % 256>> \o r.bytes, carry |-> x \div 256]
  IN last[Len(b)].bytes

\* The number x in n bytes.
ToBytes(n, x) == MulAdd(Zeros(n), 0, x)

\* Quotient and remainder of b and k, from the first byte to the last.
DivMod(b, k) ==
  LET first[n \in 0 .. Len(b)] ==
        IF n = 0 THEN [quotient |-> <<>>, remainder |-> 0]
        ELSE LET r == first[n - 1]
                 x == r.remainder * 256 + b[n]
             IN [quotient |-> Append(r.quotient, x \div k), remainder |-> x % k]
  IN first[Len(b)]

\* The value of a number that is small enough for it.
ToNumber(b) == LET value[i \in 0 .. Len(b)] == IF i = 0 THEN 0 ELSE value[i - 1] * 256 + b[i]
               IN value[Len(b)]
-----------------------------------------------------------------------------
(* Two's complement: -x - 1 has the bits of x inverted.                     *)

Complement(b) == [i \in DOMAIN b |-> 255 - b[i]]
IsNegative(b) == b[1] >= 128

SignedBytes(n, x) == IF x >= 0 THEN ToBytes(n, x) ELSE Complement(ToBytes(n, -x - 1))
SignedNumber(b) == IF IsNegative(b) THEN -ToNumber(Complement(b)) - 1 ELSE ToNumber(b)

\* Rounded down, so that the remainder is never negative.
FloorDivMod(b, k) ==
  IF ~IsNegative(b) THEN DivMod(b, k)
  ELSE LET r == DivMod(Complement(b), k)
       IN [quotient |-> Complement(r.quotient), remainder |-> k - 1 - r.remainder]
=============================================================================
