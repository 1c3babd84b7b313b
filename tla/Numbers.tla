------------------------------- MODULE Numbers -------------------------------
(***************************************************************************)
(* Arithmetic in src/scheme.c: num_add ... num_le, the opcodes that fold    *)
(* them over their arguments, and the procedures of src/init.scm that are   *)
(* loops over these opcodes (max, min, gcd, lcm).  One call is made at a    *)
(* time; a step is an opcode or one turn of a loop.                         *)
(*                                                                         *)
(* A number is a long or a double of Width bits.  Doubles have Precision    *)
(* significant bits and are counted in units, the least of which one number *)
(* has UnitsPerOne.  They round to nearest, have no greatest value, and     *)
(* infinities and NaN are one value.  Additions and products of longs wrap; *)
(* the quotient that a long cannot hold ends the process (SIGFPE).          *)
(***************************************************************************)
EXTENDS Integers, Sequences, Random

CONSTANTS Width, Precision, UnitsPerOne,
          Fixnums, Reals,      \* the operands: longs, and doubles in units
          MaxArgs              \* the most arguments of a call

Power[n \in Nat] == IF n = 0 THEN 1 ELSE 2 * Power[n - 1]

ASSUME NumbersAssumption ==
  /\ {Precision, MaxArgs} \subseteq Nat \ {0}
  /\ Width \in Nat /\ Width > Precision /\ MaxLong = Power[Width - 1] - 1
  /\ UnitsPerOne \in {Power[i] : i \in 0..Width}
  /\ Fixnums \subseteq Longs

VARIABLES pc,       \* "call", "loop" or "done"
          op, given,\* the procedure and its arguments
          x,        \* what the loop still has to do
          v         \* the result so far

vars == <<pc, op, given, x, v>>

----------------------------------------------------------------------------
(* Words, longs and Wrap being those of Random.tla.                        *)
MinLong == -MaxLong - 1
Magnitude(n) == IF n < 0 THEN -n ELSE n
CQuo(a, b) == IF b < 0 THEN quotient(-a, -b) ELSE quotient(a, b)
CRem(a, b) == a - b * CQuo(a, b)
Traps(a, b) == a = MinLong /\ b = -1

(* Doubles.  Nearest is the double next to n/d units, the even one of two. *)
NaN == Power[2 * Width + Precision]
Nearest[f \in Int \X Int] ==
  LET n == f[1]
      d == f[2]
      m == Magnitude(n)
      D == Magnitude(d)
      e == CHOOSE e \in 0..(3 * Width) :
             /\ m < Power[Precision] * D * Power[e]
             /\ e > 0 => m >= Power[Precision] * D * Power[e - 1]
      w == m \div (D * Power[e])
      half == 2 * (m - w * D * Power[e]) - D * Power[e]
      up == half > 0 \/ (half = 0 /\ w % 2 = 1)
      k == (IF up THEN w + 1 ELSE w) * Power[e]
  IN  IF n < 0 <=> d < 0 THEN k ELSE -k
ToDouble[n \in Longs] == Nearest[<<n * UnitsPerOne, 1>>]
ToLong[k \in Int] == LET n == CQuo(k, UnitsPerOne) IN IF n \in Longs THEN n ELSE MinLong
ASSUME OperandsAssumption ==
  \A k \in Reals : k \in Int /\ Nearest[<<k, 1>>] = k /\ k # NaN
is_zero_double(k) == Magnitude(k) < Power[Precision - 1]         \* DBL_MIN

(* The double whose bits are those of the long w.                          *)
FromBits[w \in Longs] ==
  LET bits == IF w < 0 THEN w - MinLong ELSE w
      field == Power[Precision - 1]
      e == bits \div field
      k == IF e = 0 THEN bits ELSE ((bits % field) + field) * Power[e - 1]
  IN  IF e = Power[Width - Precision] - 1 THEN NaN ELSE IF w < 0 THEN -k ELSE k

----------------------------------------------------------------------------
(* struct num, with tags for what is no number: an error that was reported,*)
(* the end of the process.                                                 *)
Fix(n) == [tag |-> "fixnum", value |-> Wrap(n)]
Real(k) == [tag |-> "real", value |-> k]
Bool(b) == [tag |-> "bool", value |-> b]
Error == [tag |-> "error", value |-> 0]
Trap == [tag |-> "trap", value |-> 0]
Zero == Fix(0)
One == Fix(1)

is_fixnum(n) == n.tag = "fixnum"
Stopped(n) == n.tag \in {"error", "trap"}
Fixed(a, b) == is_fixnum(a) /\ is_fixnum(b)
rvalue(n) == IF is_fixnum(n) THEN ToDouble[n.value] ELSE n.value
ivalue(n) == IF is_fixnum(n) THEN n.value ELSE ToLong[n.value]
is_integer(n) == is_fixnum(n) \/ ToDouble[ivalue(n)] = rvalue(n)

(* An operation on doubles, exact but for the rounding.                    *)
Rounded(a, b, n, d) ==
  IF NaN \in {rvalue(a), rvalue(b)} THEN Real(NaN) ELSE Real(Nearest[<<n, d>>])

num_add(a, b) == IF Fixed(a, b) THEN Fix(a.value + b.value)
                 ELSE Rounded(a, b, rvalue(a) + rvalue(b), 1)
num_sub(a, b) == IF Fixed(a, b) THEN Fix(a.value - b.value)
                 ELSE Rounded(a, b, rvalue(a) - rvalue(b), 1)
num_mul(a, b) == IF Fixed(a, b) THEN Fix(a.value * b.value)
                 ELSE Rounded(a, b, rvalue(a) * rvalue(b), UnitsPerOne)
Divided(a, b) == Rounded(a, b, rvalue(a) * UnitsPerOne, rvalue(b))
num_div(a, b) ==
  IF Fixed(a, b) /\ Traps(a.value, b.value) THEN Trap
  ELSE IF Fixed(a, b) /\ CRem(a.value, b.value) = 0
       THEN Fix(CQuo(a.value, b.value)) ELSE Divided(a, b)
num_intdiv(a, b) ==
  IF ~Fixed(a, b) THEN Divided(a, b)
  ELSE IF Traps(a.value, b.value) THEN Trap ELSE Fix(CQuo(a.value, b.value))

(* The result goes into the long of the union, whatever is_fixnum says.    *)
InLong(a, b, w) == IF Fixed(a, b) THEN Fix(w) ELSE Real(FromBits[w])
num_rem(a, b) ==
  LET e1 == ivalue(a)
      e2 == ivalue(b)
      res == CRem(e1, e2)
      l == Wrap(Magnitude(e2))
  IN  IF Traps(e1, e2) THEN Trap
      ELSE InLong(a, b, IF res > 0 /\ e1 < 0 THEN Wrap(res - l)
                        ELSE IF res < 0 /\ e1 > 0 THEN Wrap(res + l) ELSE res)
num_mod_as_rem(a, b) == num_rem(a, b)
num_mod(a, b) ==
  LET e1 == ivalue(a)
      e2 == ivalue(b)
      res == CRem(e1, e2)
  IN  IF Traps(e1, e2) THEN Trap
      ELSE InLong(a, b, IF Wrap(res * e2) < 0 THEN Wrap(res + e2) ELSE res)

num_eq(a, b) == IF Fixed(a, b) THEN a.value = b.value
                ELSE rvalue(a) = rvalue(b) /\ rvalue(a) # NaN
num_gt(a, b) == IF Fixed(a, b) THEN a.value > b.value
                ELSE rvalue(a) > rvalue(b) /\ NaN \notin {rvalue(a), rvalue(b)}
num_lt(a, b) == num_gt(b, a)
num_ge(a, b) == ~num_lt(a, b)
num_le(a, b) == ~num_gt(a, b)

----------------------------------------------------------------------------
(* The opcodes: one turn of their loops, what they start with, the checks  *)
(* of their row in opdefines.h.                                            *)
Folds == {"+", "-", "*", "/", "quotient"}
Binary == {"remainder", "modulo"}
Comparisons == {"=", "<", ">", "<=", ">="}
OnIntegers == {"quotient"} \cup Binary
Extremes == {"max", "min"}
Divisors == {"gcd", "lcm"}
Opcodes == Folds \cup Binary \cup Comparisons
Arity(o) == CASE o \in {"+", "*"} -> 0..MaxArgs
              [] o \in {"-", "/", "quotient"} \cup Extremes -> 1..MaxArgs
              [] o \in Divisors -> 0..2
              [] o \in Binary -> {2}
              [] OTHER -> 2..MaxArgs

remainder(a, b) == IF ivalue(b) = 0 THEN Error ELSE num_rem(a, b)
Turn(o, a, b) ==
  CASE o = "+" -> num_add(a, b)
    [] o = "-" -> num_sub(a, b)
    [] o = "*" -> num_mul(a, b)
    [] o = "/" -> IF is_zero_double(rvalue(b)) THEN Error ELSE num_div(a, b)
    [] o = "quotient" -> IF ivalue(b) = 0 THEN Error ELSE num_intdiv(a, b)
    [] o = "remainder" -> remainder(a, b)
    [] o = "modulo" -> IF ivalue(b) = 0 THEN Error ELSE num_mod(a, b)
Unit(o) == IF o \in {"+", "-"} THEN Zero ELSE One
StartsWithUnitAlways(o, args) == o \in Folds
StartsWithUnit(o, args) ==
  o \in {"+", "*"} \/ (o \in {"-", "/", "quotient"} /\ Len(args) = 1)

Compare(o, a, b) == CASE o = "=" -> num_eq(a, b)
                      [] o = "<" -> num_lt(a, b)
                      [] o = ">" -> num_gt(a, b)
                      [] o = "<=" -> num_le(a, b)
                      [] o = ">=" -> num_ge(a, b)

Folded(o, start, args) ==
  LET turn[k \in 0..Len(args)] ==
        IF k = 0 THEN start
        ELSE IF Stopped(turn[k - 1]) THEN turn[k - 1]
             ELSE Turn(o, turn[k - 1], args[k])
  IN  turn[Len(args)]

Opcode(o, args) ==
  LET unit == StartsWithUnit(o, args)
  IN  IF o \in OnIntegers /\ \E i \in DOMAIN args : ~is_integer(args[i]) THEN Error
      ELSE IF o \in Comparisons
      THEN Bool(\A i \in 1..(Len(args) - 1) : Compare(o, args[i], args[i + 1]))
      ELSE Folded(o, IF unit THEN Unit(o) ELSE Head(args),
                  IF unit THEN args ELSE Tail(args))

----------------------------------------------------------------------------
(* The procedures of init.scm.  exact? is integer?.                        *)
abs_of_positive(n) == n
abs(n) == IF num_ge(n, Zero) THEN n ELSE num_sub(Zero, n)
Inexact(n) == num_add(n, Real(0))
BetterWithoutMin(o, a, b) == IF num_gt(a, b) THEN a ELSE b
Better(o, a, b) ==
  IF IF o = "max" THEN num_gt(a, b) ELSE num_lt(a, b)
  THEN IF is_integer(b) THEN a ELSE Inexact(a)
  ELSE IF is_integer(a) THEN b ELSE Inexact(b)

Numbers == {Fix(n) : n \in Fixnums} \cup {Real(k) : k \in Reals}

Init == /\ pc = "call" /\ op = "none" /\ given = <<>> /\ x = <<>> /\ v = Zero

Returns(n) == pc' = "done" /\ v' = n /\ x' = <<>>

Operand ==
  /\ pc = "call" /\ Len(given) < MaxArgs
  /\ \E n \in Numbers : given' = Append(given, n)
  /\ UNCHANGED <<pc, op, x, v>>

Calls(ops) == /\ pc = "call"
              /\ \E o \in ops : Len(given) \in Arity(o) /\ op' = o
              /\ UNCHANGED given

CallOpcode == Calls(Opcodes) /\ Returns(Opcode(op', given))

CallExtreme ==
  /\ Calls(Extremes)
  /\ pc' = "loop" /\ v' = Head(given) /\ x' = Tail(given)

(* foldr of init.scm, which folds from the left                            *)
NextArgument ==
  /\ pc = "loop" /\ op \in Extremes
  /\ IF x = <<>> THEN Returns(v)
     ELSE v' = Better(op, v, Head(x)) /\ x' = Tail(x) /\ UNCHANGED pc
  /\ UNCHANGED <<op, given>>

(* (gcd) is 0, (lcm) is 1; with one argument (cadr a) is an error.          *)
CallDivisor ==
  /\ Calls(Divisors)
  /\ CASE given = <<>> -> Returns(IF op' = "gcd" THEN Zero ELSE One)
       [] Len(given) = 1 -> Returns(Error)
       [] Len(given) = 2 /\ op' = "lcm"
            /\ \E i \in 1..2 : num_eq(abs(given[i]), Zero) -> Returns(Zero)
       [] OTHER -> /\ pc' = "loop" /\ v' = Zero
                   /\ x' = IF op' = "gcd" THEN given
                           ELSE <<abs(given[1]), abs(given[2])>>

(* lcm goes on with the gcd of the absolute values of its arguments, which *)
(* are integers, or remainder would have reported an error.                *)
WithGcd(g) ==
  IF op = "gcd" THEN g
  ELSE abs(num_mul(num_intdiv(abs(given[1]), g), abs(given[2])))

GcdArgumentsInPlace(aa, bb) == <<remainder(aa, bb), bb>>
GcdArguments(aa, bb) == <<bb, remainder(aa, bb)>>
NextRemainder ==
  /\ pc = "loop" /\ op \in Divisors
  /\ LET aa == abs(x[1])
         bb == abs(x[2])
         next == GcdArguments(aa, bb)
     IN  IF num_eq(bb, Zero) THEN Returns(WithGcd(aa))
         ELSE IF ~is_integer(aa) \/ ~is_integer(bb) THEN Returns(Error)
         ELSE IF \E i \in 1..2 : Stopped(next[i])
         THEN Returns(CHOOSE n \in {next[1], next[2]} : Stopped(n))
         ELSE x' = next /\ UNCHANGED <<pc, v>>
  /\ UNCHANGED <<op, given>>

CallRandom ==
  /\ pc = "call" /\ given = <<>>
  /\ \E seed \in Seeds :
       /\ op' = "random-next" /\ given' = <<Fix(seed)>>
       /\ Returns(Fix(Scrambled(seed)))

(* The program makes another call: what was computed matters no more.      *)
Forget == /\ pc = "done"
          /\ pc' = "call" /\ op' = "none" /\ given' = <<>> /\ x' = <<>>
          /\ v' = Zero

Loop == NextArgument \/ NextRemainder
Next == Operand \/ CallOpcode \/ CallExtreme \/ CallDivisor \/ CallRandom \/ Loop \/ Forget

(* The interpreter does not stop between two turns of a loop.              *)
Spec == Init /\ [][Next]_vars /\ WF_vars(Loop)

----------------------------------------------------------------------------
(* What the calls should return.                                           *)
Value(n) == IF is_fixnum(n) THEN n.value * UnitsPerOne ELSE n.value
IsNumber(n) == n.tag \in {"fixnum", "real"}
AllFixnums(args) == \A i \in DOMAIN args : is_fixnum(args[i])
Comparable(args) ==
  AllFixnums(args) \/ \A i \in DOMAIN args : Value(args[i]) = rvalue(args[i])
Returned(ops) == pc = "done" /\ op \in ops

Sum(s) ==
  LET to[k \in 0..Len(s)] == IF k = 0 THEN 0 ELSE to[k - 1] + s[k] IN to[Len(s)]
Product(s) ==
  LET to[k \in 0..Len(s)] == IF k = 0 THEN 1 ELSE to[k - 1] * s[k] IN to[Len(s)]
Ivalues(args) == [i \in DOMAIN args |-> args[i].value]
SameSign(a, b) == a = 0 \/ (a < 0 <=> b < 0)

(* The first operand and those that are taken from it, or that divide it:  *)
(* (- n) is (- 0 n) and (/ n) is (/ 1 n).                                  *)
First(args, unit) == IF Len(args) = 1 THEN unit ELSE args[1]
Others(args) == IF Len(args) = 1 THEN args ELSE Tail(args)

(* Sums, differences and products of longs are right but for multiples of  *)
(* 2^Width; a division that returns a long is exact; a comparison says how *)
(* the numbers are ordered, if they are all longs, or longs and doubles in *)
(* any mixture where every long is a double too (Comparable).              *)
ArithmeticMeant ==
  Returned(Opcodes \ OnIntegers) =>
    LET n == Ivalues(given)
        same(r) == (v.value - r) % Power[Width] = 0
    IN  /\ AllFixnums(given) /\ is_fixnum(v) =>
             CASE op = "+" -> same(Sum(n))
               [] op = "*" -> same(Product(n))
               [] op = "-" -> same(First(n, 0) - Sum(Others(n)))
               [] op = "/" -> v.value * Product(Others(n)) = First(n, 1)
        /\ op \in Comparisons /\ Comparable(given) =>
             (v.value <=> \A i \in 1..(Len(given) - 1) :
                LET a == Value(given[i])
                    b == Value(given[i + 1])
                IN  CASE op = "=" -> a = b [] op = "<" -> a < b
                      [] op = ">" -> a > b [] op = "<=" -> a <= b
                      [] op = ">=" -> a >= b)

(* Of longs: quotient truncates, also by several divisors, remainder has   *)
(* the sign of the first operand, as in R5RS (src/scheme.c:449 says "of    *)
(* second operand": RemainderSign), and modulo that of the second, if the  *)
(* product that num_mod looks at is a long.  An error is a division by     *)
(* zero, and only that of the least long by -1 ends the process.           *)
ProductFits(n, d) == CRem(n, d) * d \in Longs
DivisionMeant ==
  Returned(OnIntegers) /\ AllFixnums(given) =>
    LET n == First(Ivalues(given), 1)
        d == Product(Others(Ivalues(given)))
        r == IF op = "quotient" THEN n - v.value * d ELSE v.value
    IN  /\ v.tag = "error" => d = 0
        /\ v.tag = "trap" =>
             n = MinLong /\ \E i \in DOMAIN given : given[i].value = -1
        /\ is_fixnum(v) /\ (op = "modulo" => ProductFits(n, d)) =>
             /\ d # 0 /\ Magnitude(r) < Magnitude(d)
             /\ (n - r) % Magnitude(d) = 0
             /\ SameSign(r, IF op = "modulo" THEN d ELSE n)

(* gcd and lcm end with the greatest common divisor and the least common   *)
(* multiple of any two longs, negative and extreme ones included; only the *)
(* least long, which abs cannot make positive, may be returned as it is.   *)
Greatest(a, b) ==
  IF a = 0 /\ b = 0 THEN 0
  ELSE CHOOSE g \in 1..-MinLong :
         /\ a % g = 0 /\ b % g = 0
         /\ \A h \in (g + 1)..-MinLong : a % h # 0 \/ b % h # 0
DivisorsMeant ==
  Returned(Divisors) /\ Len(given) = 2 /\ AllFixnums(given) =>
    LET a == given[1].value
        b == given[2].value
        g == Greatest(a, b)
        n == Magnitude(a * b)
    IN  /\ is_fixnum(v)
        /\ v.value >= 0 \/ v.value = MinLong \/ (op = "lcm" /\ n \div g \notin Longs)
        /\ op = "gcd" => Magnitude(v.value) = g
        /\ op = "lcm" /\ n = 0 => v.value = 0
        /\ op = "lcm" /\ n # 0 /\ n \div g \in Longs => v.value = n \div g

(* max and min return the value of an argument that no other one exceeds,  *)
(* if all are longs or every long among them is a double too (Comparable). *)
ExtremesMeant ==
  Returned(Extremes) /\ Comparable(given) =>
    LET values == {Value(given[i]) : i \in DOMAIN given}
    IN  /\ Value(v) \in values
        /\ \A n \in values : IF op = "max" THEN n <= Value(v) ELSE n >= Value(v)

(* random-next goes to the seed times the multiplier modulo M, though the  *)
(* products of its multiplier are no longs.                                *)
RandomMeant ==
  Returned({"random-next"}) => v.value = (A * given[1].value) % M

(* All of these: what a call returns is the number it is called for, of    *)
(* longs (but for the product of num_mod that overflows), and where it     *)
(* compares, of mixtures in which the longs are doubles too.  It says      *)
(* nothing of sums, products and quotients of doubles, nor of larger longs *)
(* compared with doubles.                                                  *)
CallsMeant == /\ ArithmeticMeant /\ DivisionMeant
              /\ DivisorsMeant /\ ExtremesMeant /\ RandomMeant

(* Every call of gcd, lcm, max or min returns, whatever its arguments.     *)
Ends == (pc = "loop") ~> (pc = "done")

(* "modulo should have same sign as second operand" (src/scheme.c:470).    *)
ModuloSign ==
  Returned({"modulo"}) /\ AllFixnums(given) /\ is_fixnum(v) =>
    SameSign(v.value, given[2].value)

(* "remainder should have same sign as second operand" (src/scheme.c:449). *)
RemainderSign ==
  Returned({"remainder"}) /\ AllFixnums(given) /\ is_fixnum(v) =>
    SameSign(v.value, given[2].value)

(* "min and max must return inexact if any arg is inexact"                 *)
(* (src/init.scm:74): an argument that (inexact? n) holds for.             *)
ExtremesInexact ==
  Returned(Extremes) /\ (\E i \in DOMAIN given : ~is_integer(given[i])) =>
    ~is_fixnum(v)

(* "Number-theoretical quotient, remainder and modulo" (src/Manual.txt:107):*)
(* their results are integers.                                             *)
DivisionOfIntegers == Returned(OnIntegers) /\ IsNumber(v) => is_integer(v)
=============================================================================
