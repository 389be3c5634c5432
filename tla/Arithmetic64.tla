----------------------------- MODULE Arithmetic64 -----------------------------
(***************************************************************************)
(* The 64-bit division of gcc_arithmetics64.c, for any number of bits.     *)
(***************************************************************************)
EXTENDS Integers

CONSTANT MAXBITS    \* 64, the bits of qword_t and of uintmax_t

ASSUME ArithmeticAssumption == MAXBITS \in Nat \ {0}

\* base^n.  The provers have no facts about ^; of this they can be proved.
Power(base, n) ==
  LET power[k \in 0 .. n] == IF k = 0 THEN 1 ELSE base * power[k - 1]
  IN  power[n]

\* Mutant: no subtraction when the remainder equals the divisor.
FitsStrict(R, D) == R > D

Fits(R, D) == R >= D

\* Bit i of N moves into the remainder.
Step(before, N, D, i) ==
  LET R == (before.remainder * 2 + ((N \div Power(2, i)) % 2)) % Power(2, MAXBITS)
  IN  IF Fits(R, D)
      THEN [quotient |-> before.quotient + Power(2, i), remainder |-> R - D]
      ELSE [quotient |-> before.quotient, remainder |-> R]

\* Long division, from the highest bit to the lowest.
unsigned_division64(N, D) ==
  LET after[k \in 0 .. MAXBITS] ==
        IF k = 0 THEN [quotient |-> 0, remainder |-> 0]
        ELSE Step(after[k - 1], N, D, MAXBITS - k)
  IN  after[MAXBITS]
=============================================================================
