------------------------------- MODULE Random --------------------------------
(***************************************************************************)
(* random-next of src/init.scm: the next of a sequence of numbers, modulo  *)
(* M, in longs that hold M but not the products A * *seed* (Schrage).  In  *)
(* the code A is 16807 and M is 2^31 - 1.                                  *)
(***************************************************************************)
EXTENDS Integers

CONSTANTS A, M,       \* the multiplier and the modulus
          MaxLong     \* the greatest long

Q == M \div A
R == M % A

(* What Schrage's method needs of A, and the width of a long.              *)
ASSUME RandomAssumption ==
  /\ A \in Nat \ {0} /\ M \in Nat \ {0, 1} /\ MaxLong \in Nat
  /\ R < Q
  /\ M <= MaxLong

Longs == (-MaxLong - 1) .. MaxLong
Seeds == (1 - M) .. (M - 1)

Wrap(n) == IF n \in Longs THEN n
           ELSE ((n + MaxLong + 1) % (2 * MaxLong + 2)) - MaxLong - 1
quotient(a, b) == IF a >= 0 THEN a \div b ELSE -((-a) \div b)

(* What random-next sets *seed* to.  Each product, difference and sum is a *)
(* long.                                                                   *)
Scrambled_at_once(seed) == Wrap(A * seed) % M
Scrambled(seed) ==
  LET k == quotient(seed, Q)
      n == Wrap(Wrap(A * Wrap(seed - Wrap(k * Q))) - Wrap(k * R))
  IN  IF n < 0 THEN Wrap(n + M) ELSE n

(* The seed times the multiplier, modulo M: nothing overflows on the way,  *)
(* and the result is a seed again.                                         *)
SeedMeant(seed) == Scrambled(seed) = (A * seed) % M /\ Scrambled(seed) \in Seeds
=============================================================================
