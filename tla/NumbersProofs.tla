---------------------------- MODULE NumbersProofs ----------------------------
(***************************************************************************)
(* Proofs about arithmetic (Numbers) and random-next (Random): for longs   *)
(* and doubles of any width and any number of arguments, a call on longs   *)
(* that returns, returns the number it is called for, and so does one that *)
(* compares longs with doubles, if the longs are doubles too.              *)
(***************************************************************************)
EXTENDS Numbers, SequenceTheorems, WellFoundedInduction, TLAPS

----------------------------------------------------------------------------
(* Numbers that are computed step by step.                                 *)

LEMMA HasLeast ==
  ASSUME NEW S \in SUBSET Nat, S # {}
  PROVE  \E m \in S : \A k \in S : m <= k
<1>1. PICK m \in S : \A k \in S : ~(<<k, m>> \in OpToRel(<, Nat))
  BY NatLessThanWellFounded, WFMin
<1>2. \A k \in S : ~(k < m)
  BY <1>1 DEF OpToRel
<1> QED BY <1>2

(* What holds of 0 and of k + 1 if of k holds up to n.                     *)
LEMMA Climb ==
  ASSUME NEW n \in Nat, NEW S \in SUBSET (0..n), 0 \in S,
         \A k \in 0..(n - 1) : k \in S => k + 1 \in S
  PROVE  S = 0..n
<1> DEFINE B == {k \in 0..n : k \notin S}
<1> SUFFICES ASSUME B # {} PROVE FALSE
  OBVIOUS
<1>1. B \in SUBSET Nat
  OBVIOUS
<1>2. PICK m \in B : \A k \in B : m <= k
  BY <1>1, HasLeast
<1>3. m # 0 /\ m - 1 \in 0..(n - 1) /\ m - 1 \in S
  BY <1>2
<1> QED
  BY <1>2, <1>3

(* There is a function that starts with a and goes on with step.           *)
Stepwise(f, m, a, step) == f[0] = a /\ \A k \in 1..m : f[k] = step[k][f[k - 1]]

LEMMA Recursion ==
  ASSUME NEW n \in Nat, NEW S, NEW a \in S, NEW step \in [1..n -> [S -> S]]
  PROVE  \E f \in [0..n -> S] : Stepwise(f, n, a, step)
<1> DEFINE T == {m \in 0..n : \E f \in [0..m -> S] : Stepwise(f, m, a, step)}
<1>1. 0 \in T
  <2> DEFINE z == [k \in 0..0 |-> a]
  <2>1. z \in [0..0 -> S] /\ Stepwise(z, 0, a, step)
    BY DEF Stepwise
  <2> QED
    BY <2>1
<1>2. ASSUME NEW m \in 0..(n - 1), m \in T PROVE m + 1 \in T
  <2>1. PICK f \in [0..m -> S] : Stepwise(f, m, a, step)
    BY <1>2
  <2>2. PICK b \in S : b = step[m + 1][f[m]]
    <3>1. m + 1 \in 1..n /\ f[m] \in S
      OBVIOUS
    <3>2. step[m + 1] \in [S -> S]
      BY <3>1
    <3> QED
      BY <3>1, <3>2
  <2> DEFINE h == [k \in 0..(m + 1) |-> IF k <= m THEN f[k] ELSE b]
  <2>3. h \in [0..(m + 1) -> S]
    OBVIOUS
  <2>4. h[m + 1] = b /\ \A k \in 0..m : h[k] = f[k]
    OBVIOUS
  <2> HIDE DEF h
  <2>5. ASSUME NEW k \in 1..(m + 1) PROVE h[k] = step[k][h[k - 1]]
    <3>1. CASE k <= m
      <4>1. k \in 1..m /\ k \in 0..m /\ k - 1 \in 0..m
        BY <3>1
      <4> QED
        BY <2>1, <2>4, <4>1 DEF Stepwise
    <3>2. CASE k = m + 1
      BY <2>2, <2>4, <3>2
    <3> QED
      BY <3>1, <3>2
  <2>6. Stepwise(h, m + 1, a, step) /\ m + 1 \in 0..n
    BY <2>1, <2>4, <2>5 DEF Stepwise
  <2> QED
    BY <2>3, <2>6
<1>3. T = 0..n
  <2>1. T \in SUBSET (0..n)
    OBVIOUS
  <2> HIDE DEF T
  <2> QED
    BY <1>1, <1>2, <2>1, Climb
<1>4. n \in T
  BY <1>3
<1> QED
  BY <1>4

(* Powers of two.                                                          *)
Doubled(n, f) ==
  f \in [0..n -> Nat \ {0}] /\ f[0] = 1 /\ \A k \in 1..n : f[k] = 2 * f[k - 1]

LEMMA DoubledExists == \A n \in Nat : \E f : Doubled(n, f)
<1> TAKE n \in Nat
<1> DEFINE S == Nat \ {0}
           step == [k \in 1..n |-> [r \in S |-> 2 * r]]
<1>1. step \in [1..n -> [S -> S]] /\ 1 \in S
  OBVIOUS
<1>2. \A k \in 1..n : \A r \in S : step[k][r] = 2 * r
  OBVIOUS
<1> HIDE DEF step
<1>3. PICK f \in [0..n -> S] : Stepwise(f, n, 1, step)
  BY <1>1, Recursion
<1>4. \A k \in 1..n : k - 1 \in 0..n /\ f[k - 1] \in S
  OBVIOUS
<1>5. \A k \in 1..n : f[k] = 2 * f[k - 1]
  BY <1>2, <1>3, <1>4 DEF Stepwise
<1>6. f[0] = 1
  BY <1>3 DEF Stepwise
<1> QED
  BY <1>5, <1>6 DEF Doubled

LEMMA DoubledAgree ==
  ASSUME NEW n \in Nat, NEW m \in Nat, n <= m, NEW f, Doubled(n, f), NEW h, Doubled(m, h)
  PROVE  f[n] = h[n]
<1> DEFINE S == {k \in 0..n : f[k] = h[k]}
<1>1. 0 \in S
  BY DEF Doubled
<1>2. ASSUME NEW k \in 0..(n - 1), k \in S PROVE k + 1 \in S
  <2>1. k + 1 \in 1..n /\ k + 1 \in 1..m /\ (k + 1) - 1 = k /\ f[k] = h[k]
    BY <1>2
  <2> QED
    BY <2>1 DEF Doubled
<1>3. S = 0..n
  <2>1. S \in SUBSET (0..n)
    OBVIOUS
  <2> HIDE DEF S
  <2> QED
    BY <1>1, <1>2, <2>1, Climb
<1> QED
  BY <1>3

LEMMA PowerFacts ==
  /\ Power[0] = 1
  /\ \A n \in Nat : Power[n] \in Nat \ {0} /\ Power[n + 1] = 2 * Power[n]
<1> DEFINE F(n) == CHOOSE f : Doubled(n, f)
           g == [n \in Nat |-> F(n)[n]]
<1>1. \A n \in Nat : Doubled(n, F(n))
  BY DoubledExists
<1>2. g[0] = 1
  BY <1>1 DEF Doubled
<1>3. ASSUME NEW n \in Nat PROVE g[n] \in Nat \ {0} /\ g[n + 1] = 2 * g[n]
  <2>1. Doubled(n, F(n)) /\ Doubled(n + 1, F(n + 1))
    BY <1>1
  <2> HIDE DEF F
  <2>2. F(n)[n] = F(n + 1)[n]
    BY <2>1, DoubledAgree
  <2>3. n \in 0..n /\ n + 1 \in 1..(n + 1) /\ (n + 1) - 1 = n /\ n + 1 \in Nat
    OBVIOUS
  <2>4. F(n)[n] \in Nat \ {0} /\ F(n + 1)[n + 1] = 2 * F(n + 1)[n]
    BY <2>1, <2>3 DEF Doubled
  <2> QED
    BY <2>2, <2>3, <2>4
<1>4. g = [n \in Nat |-> IF n = 0 THEN 1 ELSE 2 * g[n - 1]]
  <2>1. ASSUME NEW n \in Nat PROVE g[n] = IF n = 0 THEN 1 ELSE 2 * g[n - 1]
    <3>1. CASE n = 0
      BY <1>2, <3>1
    <3>2. CASE n # 0
      <4>1. n - 1 \in Nat /\ (n - 1) + 1 = n
        BY <3>2
      <4> HIDE DEF g
      <4> QED
        BY <1>3, <3>2, <4>1
    <3> QED
      BY <3>1, <3>2
  <2>2. g = [n \in Nat |-> g[n]]
    OBVIOUS
  <2> HIDE DEF g
  <2> QED
    BY <2>1, <2>2
<1> HIDE DEF g
<1>5. Power = [n \in Nat |-> IF n = 0 THEN 1 ELSE 2 * Power[n - 1]]
  BY <1>4 DEF Power
<1>6. Power[0] = 1 /\ \A n \in Nat : Power[n + 1] = 2 * Power[n]
  <2>1. Power[0] = 1
    BY <1>5
  <2>2. ASSUME NEW n \in Nat PROVE Power[n + 1] = 2 * Power[n]
    <3>1. n + 1 \in Nat /\ n + 1 # 0 /\ (n + 1) - 1 = n
      OBVIOUS
    <3> QED
      BY <1>5, <3>1
  <2> QED
    BY <2>1, <2>2
<1>7. ASSUME NEW n \in Nat PROVE Power[n] \in Nat \ {0}
  <2> DEFINE S == {k \in 0..n : Power[k] \in Nat \ {0}}
  <2>1. 0 \in S
    BY <1>6
  <2>2. \A k \in 0..(n - 1) : k \in S => k + 1 \in S
    BY <1>6
  <2>3. S = 0..n
    <3>1. S \in SUBSET (0..n)
      OBVIOUS
    <3> HIDE DEF S
    <3> QED
      BY <2>1, <2>2, <3>1, Climb
  <2> QED
    BY <2>3
<1> QED
  BY <1>6, <1>7

LEMMA PowerSum ==
  ASSUME NEW m \in Nat, NEW n \in Nat
  PROVE  Power[m + n] = Power[m] * Power[n]
<1> DEFINE S == {k \in 0..n : Power[m + k] = Power[m] * Power[k]}
<1>1. 0 \in S
  BY PowerFacts
<1>2. ASSUME NEW k \in 0..(n - 1), k \in S PROVE k + 1 \in S
  <2>1. Power[m + k] = Power[m] * Power[k]
    BY <1>2
  <2>2. /\ Power[m + k + 1] = 2 * Power[m + k] /\ Power[k + 1] = 2 * Power[k]
        /\ Power[m] \in Nat /\ Power[k] \in Nat
    BY PowerFacts
  <2>3. 2 * (Power[m] * Power[k]) = Power[m] * (2 * Power[k])
    BY <2>2
  <2>4. m + (k + 1) = m + k + 1 /\ k + 1 \in 0..n
    OBVIOUS
  <2> QED
    BY <2>1, <2>2, <2>3, <2>4
<1>3. S = 0..n
  <2>1. S \in SUBSET (0..n)
    OBVIOUS
  <2> HIDE DEF S
  <2> QED
    BY <1>1, <1>2, <2>1, Climb
<1>4. n \in S
  BY <1>3
<1> QED
  BY <1>4

----------------------------------------------------------------------------
(* Division.                                                               *)

(* In the words of the SMT solver                                          *)
LEMMA DivMod ==
  ASSUME NEW a \in Int, NEW b \in Nat \ {0}
  PROVE  /\ a \div b \in Int /\ a % b \in Nat
         /\ a = b * (a \div b) + (a % b)
         /\ a % b < b
         /\ a >= 0 => a \div b >= 0
OBVIOUS

(* There is one remainder.                                                 *)
LEMMA ModUnique ==
  ASSUME NEW k \in Int, NEW n \in Nat, NEW b \in Nat \ {0}, n < b
  PROVE  (k * b + n) % b = n
OBVIOUS

LEMMA TimesMonotone ==
  ASSUME NEW a \in Nat, NEW b \in Nat, NEW c \in Nat, b <= c
  PROVE  a * b \in Nat /\ a * b <= a * c
OBVIOUS

LEMMA TimesAssociate == \A a, b, c \in Int : (a * b) * c = a * (b * c) /\ a * b = b * a
OBVIOUS

Divides(h, n) == \E q \in Int : n = h * q

LEMMA DividesMeans ==
  ASSUME NEW h \in Nat \ {0}, NEW n \in Int
  PROVE  n % h = 0 <=> Divides(h, n)
<1>1. ASSUME n % h = 0 PROVE Divides(h, n)
  <2>1. n = h * (n \div h) + (n % h) /\ n \div h \in Int /\ h * (n \div h) \in Int
    BY DivMod
  <2>2. n = h * (n \div h)
    BY <1>1, <2>1
  <2> QED
    BY <2>1, <2>2 DEF Divides
<1>2. ASSUME Divides(h, n) PROVE n % h = 0
  <2>1. PICK q \in Int : n = h * q
    BY <1>2 DEF Divides
  <2>2. n = q * h + 0
    BY <2>1
  <2>3. (q * h + 0) % h = 0
    BY ModUnique
  <2> QED
    BY <2>2, <2>3
<1> QED
  BY <1>1, <1>2

LEMMA MinusZero == \A s \in Int : s <= 0 /\ s >= 0 => -s = 0
OBVIOUS

LEMMA QuotientFacts ==
  ASSUME NEW a \in Int, NEW b \in Nat \ {0}
  PROVE  /\ quotient(a, b) \in Int
         /\ Magnitude(a - b * quotient(a, b)) < b
         /\ SameSign(a - b * quotient(a, b), a)
<1>1. CASE a >= 0
  <2>1. /\ a = b * (a \div b) + (a % b) /\ a % b \in Nat /\ a % b < b /\ a \div b \in Int
        /\ b * (a \div b) \in Int
    BY DivMod
  <2>2. a - b * quotient(a, b) = a % b
    BY <1>1, <2>1 DEF quotient
  <2> QED
    BY <1>1, <2>1, <2>2 DEF quotient, Magnitude, SameSign
<1>2. CASE a < 0
  <2> DEFINE c == -a
  <2>1. c \in Nat /\ a = -c
    BY <1>2
  <2> HIDE DEF c
  <2>2. /\ c = b * (c \div b) + (c % b) /\ c % b \in Nat /\ c % b < b /\ c \div b \in Int
        /\ b * (c \div b) \in Int
    BY <2>1, DivMod
  <2>3. quotient(a, b) = -(c \div b)
    BY <1>2 DEF quotient, c
  <2>4. b * (-(c \div b)) = -(b * (c \div b))
    BY <2>2
  <2>5. a - b * quotient(a, b) = -(c % b)
    BY <2>1, <2>2, <2>3, <2>4
  <2> QED
    BY SMTT(40), <1>2, <2>2, <2>3, <2>5 DEF Magnitude, SameSign
<1> QED
  BY <1>1, <1>2

LEMMA CQuoFacts ==
  ASSUME NEW a \in Int, NEW b \in Int \ {0}
  PROVE  /\ CQuo(a, b) \in Int /\ CRem(a, b) \in Int
         /\ a = b * CQuo(a, b) + CRem(a, b)
         /\ Magnitude(CRem(a, b)) < Magnitude(b)
         /\ SameSign(CRem(a, b), a)
<1>1. CASE b > 0
  <2>1. b \in Nat \ {0} /\ CQuo(a, b) = quotient(a, b)
    BY <1>1 DEF CQuo
  <2> QED
    BY <1>1, <2>1, QuotientFacts DEF CRem, Magnitude
<1>2. CASE b < 0
  <2>1. -b \in Nat \ {0} /\ -a \in Int /\ CQuo(a, b) = quotient(-a, -b)
    BY <1>2 DEF CQuo
  <2> DEFINE s == (-a) - (-b) * quotient(-a, -b)
  <2>2. quotient(-a, -b) \in Int /\ Magnitude(s) < -b /\ SameSign(s, -a)
    BY <2>1, QuotientFacts
  <2>3. (-b) * quotient(-a, -b) = -(b * quotient(-a, -b)) /\ b * quotient(-a, -b) \in Int
    BY <2>2
  <2>4. CRem(a, b) = -s /\ s \in Int
    BY <2>1, <2>2, <2>3 DEF CRem
  <2> HIDE DEF s
  <2>5. Magnitude(-s) < Magnitude(b)
    BY <1>2, <2>2, <2>4 DEF Magnitude
  <2>6. SameSign(-s, a)
    <3>1. s \in Int /\ -a \in Int /\ (s = 0 \/ (s < 0 <=> -a < 0))
      BY <2>2, <2>4 DEF SameSign
    <3>2. CASE a = 0
      <4>1. quotient(0, -b) = 0
        <5>1. 0 = (-b) * (0 \div (-b)) + (0 % (-b)) /\ 0 \div (-b) \in Nat /\ 0 % (-b) \in Nat
          BY <2>1, DivMod
        <5>2. 0 \div (-b) = 0
          BY <2>1, <5>1
        <5> QED
          BY <5>2 DEF quotient
      <4>2. s = 0
        BY <2>1, <3>2, <4>1 DEF s
      <4>3. s <= 0 /\ s >= 0
        BY <4>2
      <4>4. -s = 0
        BY <3>1, <4>3, MinusZero
      <4> QED
        BY <4>4 DEF SameSign
    <3>3. CASE a # 0 /\ s # 0
      <4>1. -s < 0 <=> a < 0
        BY <3>1, <3>3
      <4> QED
        BY <4>1 DEF SameSign
    <3>4. CASE s <= 0 /\ s >= 0
      <4>1. -s = 0
        BY <3>1, <3>4, MinusZero
      <4> QED
        BY <4>1 DEF SameSign
    <3> QED
      BY <3>2, <3>3, <3>4
  <2>7. b * CQuo(a, b) \in Int /\ CQuo(a, b) \in Int
    BY <2>1, <2>2
  <2> QED
    BY <2>4, <2>5, <2>6, <2>7 DEF CRem
<1> QED
  BY <1>1, <1>2

(* ------------------------------------------------------------------------*)
(* Words.                                                                  *)
Words == 2 * MaxLong + 2

LEMMA WordFacts ==
  /\ MaxLong \in Nat \ {0} /\ Words \in Nat \ {0} /\ MinLong \in Longs
  /\ Power[Width] = Words /\ Longs \subseteq Int
<1>1. MaxLong \in Nat \ {0}
  BY RandomAssumption
<1>2. Width - 1 \in Nat /\ (Width - 1) + 1 = Width
  BY NumbersAssumption
<1>3. Power[Width] = 2 * Power[Width - 1] /\ Power[Width - 1] \in Nat
  BY <1>2, PowerFacts
<1>4. Power[Width - 1] = MaxLong + 1
  BY <1>1, <1>3, NumbersAssumption
<1> QED
  BY <1>1, <1>3, <1>4 DEF Words, MinLong, Longs

LEMMA WrapFacts ==
  ASSUME NEW n \in Int
  PROVE  /\ Wrap(n) \in Longs
         /\ n \in Longs => Wrap(n) = n
         /\ \E k \in Int : Wrap(n) = n + k * Words
<1>1. MaxLong \in Nat \ {0} /\ Words \in Nat \ {0}
  BY WordFacts
<1>2. CASE n \in Longs
  <2>1. n = n + 0 * Words
    BY <1>1
  <2> QED
    BY <1>2, <2>1 DEF Wrap
<1>3. CASE n \notin Longs
  <2> DEFINE c == n + MaxLong + 1
  <2>1. c \in Int
    BY <1>1
  <2> HIDE DEF c
  <2>2. /\ c = Words * (c \div Words) + (c % Words) /\ c % Words \in 0..(Words - 1)
        /\ c \div Words \in Int /\ Words * (c \div Words) \in Int
    BY <1>1, <2>1, DivMod
  <2>3. Wrap(n) = (c % Words) - MaxLong - 1
    BY <1>3 DEF Wrap, Words, c
  <2>4. Wrap(n) \in Longs
    BY SMTT(40), <1>1, <2>2, <2>3 DEF Words, Longs
  <2> DEFINE q == c \div Words
  <2>5. q \in Int /\ -q \in Int /\ (-q) * Words = -(Words * q) /\ Words * q \in Int
    BY SMTT(40), <1>1, <2>2
  <2>6. Wrap(n) = n + (-q) * Words
    BY <1>1, <2>2, <2>3, <2>5 DEF c
  <2> QED
    BY <1>3, <2>4, <2>5, <2>6
<1> QED
  BY <1>2, <1>3

(* The same but for multiples of 2^Width                                   *)
Same(a, b) == a \in Int /\ b \in Int /\ \E k \in Int : a = b + k * Words

LEMMA SameMeans ==
  ASSUME NEW a, NEW b, Same(a, b)
  PROVE  (a - b) % Power[Width] = 0
<1>1. PICK k \in Int : a \in Int /\ b \in Int /\ a = b + k * Words
  BY DEF Same
<1>2. a - b = k * Words + 0 /\ Words \in Nat \ {0} /\ Power[Width] = Words
  BY <1>1, WordFacts
<1>3. (k * Words + 0) % Words = 0
  BY <1>2, ModUnique
<1> QED
  BY <1>2, <1>3

LEMMA SameWrapped ==
  ASSUME NEW n \in Int
  PROVE  Same(Wrap(n), n) /\ Same(n, n)
<1>1. n = n + 0 * Words
  BY WordFacts
<1> QED
  BY <1>1, WrapFacts, WordFacts DEF Same

LEMMA SameOperations ==
  ASSUME NEW a, NEW b, NEW n \in Int, Same(a, b)
  PROVE  /\ Same(Wrap(a + n), b + n) /\ Same(Wrap(a - n), b - n)
         /\ Same(Wrap(a * n), b * n)
<1>1. PICK k \in Int : a \in Int /\ b \in Int /\ a = b + k * Words
  BY DEF Same
<1>2. Words \in Nat
  BY WordFacts
<1>3. /\ a + n = (b + n) + k * Words /\ a - n = (b - n) + k * Words
      /\ k * n \in Int /\ a * n \in Int /\ b * n \in Int
  BY <1>1, <1>2
<1>4. a * n = b * n + (k * n) * Words
  BY <1>1, <1>2
<1>5. ASSUME NEW c \in Int, NEW d \in Int, NEW j \in Int, c = d + j * Words
      PROVE  Same(Wrap(c), d)
  <2>1. PICK i \in Int : Wrap(c) = c + i * Words /\ Wrap(c) \in Int
    BY WrapFacts, WordFacts
  <2>2. Wrap(c) = d + (j + i) * Words
    BY <1>2, <1>5, <2>1
  <2> QED
    BY <2>1, <2>2 DEF Same
<1> QED
  BY <1>1, <1>3, <1>4, <1>5

----------------------------------------------------------------------------
(* The functions that sums, products and the opcodes' loops are ends of.   *)

SumSteps(s, f) == f = [k \in 0..Len(s) |-> IF k = 0 THEN 0 ELSE f[k - 1] + s[k]]
ProductSteps(s, f) == f = [k \in 0..Len(s) |-> IF k = 0 THEN 1 ELSE f[k - 1] * s[k]]

LEMMA SumLoop ==
  ASSUME NEW s \in Seq(Int)
  PROVE  \E f \in [0..Len(s) -> Int] :
           /\ f[0] = 0 /\ \A k \in 1..Len(s) : f[k] = f[k - 1] + s[k]
           /\ Sum(s) = f[Len(s)]
<1> DEFINE n == Len(s)
           step == [k \in 1..n |-> [r \in Int |-> r + s[k]]]
<1>1. n \in Nat /\ \A k \in 1..n : s[k] \in Int
  BY ElementOfSeq
<1> HIDE DEF n
<1>2. /\ step \in [1..n -> [Int -> Int]] /\ 0 \in Int
      /\ \A k \in 1..n : \A r \in Int : step[k][r] = r + s[k]
  BY <1>1
<1> HIDE DEF step
<1>3. \E g : SumSteps(s, g)
  <2>1. PICK f \in [0..n -> Int] : Stepwise(f, n, 0, step)
    BY <1>1, <1>2, Recursion
  <2>2. f[0] = 0 /\ \A k \in 1..n : f[k] = f[k - 1] + s[k]
    <3>1. \A k \in 1..n : k - 1 \in 0..n /\ f[k - 1] \in Int
      BY <1>1, <2>1
    <3> QED
      BY <1>2, <2>1, <3>1 DEF Stepwise
  <2>3. f = [k \in 0..n |-> IF k = 0 THEN 0 ELSE f[k - 1] + s[k]]
    <3>1. \A k \in 0..n : f[k] = IF k = 0 THEN 0 ELSE f[k - 1] + s[k]
      BY <1>1, <2>2
    <3>2. f = [k \in 0..n |-> f[k]]
      BY <2>1
    <3> QED
      BY <3>1, <3>2
  <2> QED
    BY <2>3 DEF SumSteps, n
<1> DEFINE h == CHOOSE g : SumSteps(s, g)
<1>4. SumSteps(s, h)
  BY <1>3
<1>5. Sum(s) = h[n]
  BY DEF Sum, SumSteps, n
<1> HIDE DEF h
<1>6. h[0] = 0 /\ \A k \in 1..n : h[k] = h[k - 1] + s[k]
  <2>1. h = [k \in 0..n |-> IF k = 0 THEN 0 ELSE h[k - 1] + s[k]]
    BY <1>4 DEF SumSteps, n
  <2>2. 0 \in 0..n /\ \A k \in 1..n : k \in 0..n /\ k # 0
    BY <1>1
  <2> QED
    BY <2>1, <2>2
<1>7. \A k \in 0..n : h[k] \in Int
  <2>1. \A k \in 1..n : h[k - 1] \in Int => h[k] \in Int
    BY <1>1, <1>6
  <2> DEFINE T == {k \in 0..n : h[k] \in Int}
  <2>2. 0 \in T
    BY <1>1, <1>6
  <2>3. ASSUME NEW k \in 0..(n - 1), k \in T PROVE k + 1 \in T
    <3>1. k + 1 \in 1..n /\ (k + 1) - 1 = k /\ k + 1 \in 0..n
      BY <1>1, <2>3
    <3> QED
      BY <2>1, <2>3, <3>1
  <2>4. T = 0..n
    <3>1. T \in SUBSET (0..n)
      OBVIOUS
    <3> HIDE DEF T
    <3> QED
      BY <1>1, <2>2, <2>3, <3>1, Climb
  <2> QED
    BY <2>4
<1>8. h \in [0..n -> Int]
  <2>1. h = [k \in 0..n |-> h[k]]
    <3>1. h = [k \in 0..n |-> IF k = 0 THEN 0 ELSE h[k - 1] + s[k]]
      BY <1>4 DEF SumSteps, n
    <3> QED
      BY <3>1
  <2> QED
    BY <1>7, <2>1
<1>9. h \in [0..Len(s) -> Int]
  BY <1>8 DEF n
<1>10. /\ h[0] = 0 /\ \A k \in 1..Len(s) : h[k] = h[k - 1] + s[k]
       /\ Sum(s) = h[Len(s)]
  BY <1>5, <1>6 DEF n
<1> QED
  BY <1>9, <1>10

LEMMA ProductLoop ==
  ASSUME NEW s \in Seq(Int)
  PROVE  \E f \in [0..Len(s) -> Int] :
           /\ f[0] = 1 /\ \A k \in 1..Len(s) : f[k] = f[k - 1] * s[k]
           /\ Product(s) = f[Len(s)]
<1> DEFINE n == Len(s)
           step == [k \in 1..n |-> [r \in Int |-> r * s[k]]]
<1>1. n \in Nat /\ \A k \in 1..n : s[k] \in Int
  BY ElementOfSeq
<1> HIDE DEF n
<1>2. /\ step \in [1..n -> [Int -> Int]] /\ 1 \in Int
      /\ \A k \in 1..n : \A r \in Int : step[k][r] = r * s[k]
  BY <1>1
<1> HIDE DEF step
<1>3. \E g : ProductSteps(s, g)
  <2>1. PICK f \in [0..n -> Int] : Stepwise(f, n, 1, step)
    BY <1>1, <1>2, Recursion
  <2>2. f[0] = 1 /\ \A k \in 1..n : f[k] = f[k - 1] * s[k]
    <3>1. \A k \in 1..n : k - 1 \in 0..n /\ f[k - 1] \in Int
      BY <1>1, <2>1
    <3> QED
      BY <1>2, <2>1, <3>1 DEF Stepwise
  <2>3. f = [k \in 0..n |-> IF k = 0 THEN 1 ELSE f[k - 1] * s[k]]
    <3>1. \A k \in 0..n : f[k] = IF k = 0 THEN 1 ELSE f[k - 1] * s[k]
      BY <1>1, <2>2
    <3>2. f = [k \in 0..n |-> f[k]]
      BY <2>1
    <3> QED
      BY <3>1, <3>2
  <2> QED
    BY <2>3 DEF ProductSteps, n
<1> DEFINE h == CHOOSE g : ProductSteps(s, g)
<1>4. ProductSteps(s, h)
  BY <1>3
<1>5. Product(s) = h[n]
  BY DEF Product, ProductSteps, n
<1> HIDE DEF h
<1>6. h[0] = 1 /\ \A k \in 1..n : h[k] = h[k - 1] * s[k]
  <2>1. h = [k \in 0..n |-> IF k = 0 THEN 1 ELSE h[k - 1] * s[k]]
    BY <1>4 DEF ProductSteps, n
  <2>2. 0 \in 0..n /\ \A k \in 1..n : k \in 0..n /\ k # 0
    BY <1>1
  <2> QED
    BY <2>1, <2>2
<1>7. \A k \in 0..n : h[k] \in Int
  <2>1. \A k \in 1..n : h[k - 1] \in Int => h[k] \in Int
    BY SMTT(40), <1>1, <1>6
  <2> DEFINE T == {k \in 0..n : h[k] \in Int}
  <2>2. 0 \in T
    BY <1>1, <1>6
  <2>3. ASSUME NEW k \in 0..(n - 1), k \in T PROVE k + 1 \in T
    <3>1. k + 1 \in 1..n /\ (k + 1) - 1 = k /\ k + 1 \in 0..n
      BY <1>1, <2>3
    <3> QED
      BY <2>1, <2>3, <3>1
  <2>4. T = 0..n
    <3>1. T \in SUBSET (0..n)
      OBVIOUS
    <3> HIDE DEF T
    <3> QED
      BY <1>1, <2>2, <2>3, <3>1, Climb
  <2> QED
    BY <2>4
<1>8. h \in [0..n -> Int]
  <2>1. h = [k \in 0..n |-> h[k]]
    <3>1. h = [k \in 0..n |-> IF k = 0 THEN 1 ELSE h[k - 1] * s[k]]
      BY <1>4 DEF ProductSteps, n
    <3> QED
      BY <3>1
  <2> QED
    BY <1>7, <2>1
<1>9. h \in [0..Len(s) -> Int]
  BY <1>8 DEF n
<1>10. /\ h[0] = 1 /\ \A k \in 1..Len(s) : h[k] = h[k - 1] * s[k]
       /\ Product(s) = h[Len(s)]
  BY <1>5, <1>6 DEF n
<1> QED
  BY <1>9, <1>10

LEMMA SumIsInt ==
  ASSUME NEW s \in Seq(Int)
  PROVE  Sum(s) \in Int /\ Product(s) \in Int
<1>1. Len(s) \in Nat /\ Len(s) \in 0..Len(s)
  BY LenProperties
<1> QED
  BY <1>1, SumLoop, ProductLoop

(* A turn of an opcode's loop                                              *)
After(o, n, a) == IF Stopped(n) THEN n ELSE Turn(o, n, a)
Turns(o, start, args, m, f) ==
  f[0] = start /\ \A k \in 1..m : f[k] = After(o, f[k - 1], args[k])
FoldedSteps(o, start, args, f) ==
  f = [k \in 0..Len(args) |-> IF k = 0 THEN start
                             ELSE IF Stopped(f[k - 1]) THEN f[k - 1]
                                  ELSE Turn(o, f[k - 1], args[k])]

LEMMA FoldedLoop ==
  ASSUME NEW o, NEW start, NEW args, Len(args) \in Nat
  PROVE  \E f : Turns(o, start, args, Len(args), f) /\ Folded(o, start, args) = f[Len(args)]
<1> DEFINE n == Len(args)
           T == {m \in 0..n : \E f : Turns(o, start, args, m, f)}
<1>1. n \in Nat
  OBVIOUS
<1> HIDE DEF n
<1>2. 0 \in T
  <2> DEFINE z == [k \in 0..0 |-> start]
  <2>1. z[0] = start
    OBVIOUS
  <2> HIDE DEF z
  <2>2. Turns(o, start, args, 0, z)
    BY <2>1 DEF Turns
  <2> QED
    BY <1>1, <2>2
<1>3. ASSUME NEW m \in 0..(n - 1), m \in T PROVE m + 1 \in T
  <2>1. PICK f : Turns(o, start, args, m, f)
    BY <1>3
  <2> DEFINE h == [k \in 0..(m + 1) |-> IF k <= m THEN f[k] ELSE After(o, f[m], args[m + 1])]
  <2>2. h[m + 1] = After(o, f[m], args[m + 1]) /\ \A k \in 0..m : h[k] = f[k]
    BY <1>1
  <2> HIDE DEF h
  <2>3. ASSUME NEW k \in 1..(m + 1) PROVE h[k] = After(o, h[k - 1], args[k])
    <3>1. CASE k <= m
      <4>1. k \in 1..m /\ k \in 0..m /\ k - 1 \in 0..m
        BY <1>1, <3>1
      <4>2. f[k] = After(o, f[k - 1], args[k])
        BY <2>1, <4>1 DEF Turns
      <4> QED
        BY <2>2, <4>1, <4>2
    <3>2. CASE k = m + 1
      <4>1. k - 1 = m /\ m \in 0..m
        BY <1>1, <3>2
      <4> QED
        BY <2>2, <3>2, <4>1
    <3> QED
      BY <1>1, <3>1, <3>2
  <2>4. h[0] = start
    BY <1>1, <2>1, <2>2 DEF Turns
  <2>5. Turns(o, start, args, m + 1, h) /\ m + 1 \in 0..n
    BY <1>1, <2>3, <2>4 DEF Turns
  <2> QED
    BY <2>5
<1>4. T = 0..n
  <2>1. T \in SUBSET (0..n)
    OBVIOUS
  <2> HIDE DEF T
  <2> QED
    BY <1>1, <1>2, <1>3, <2>1, Climb
<1>5. \E g : FoldedSteps(o, start, args, g)
  <2>1. PICK f : Turns(o, start, args, n, f)
    <3>1. n \in 0..n
      BY <1>1
    <3>2. n \in T
      <4> HIDE DEF T
      <4> QED
        BY <1>4, <3>1
    <3> QED
      BY <3>2
  <2> DEFINE g == [k \in 0..n |-> f[k]]
  <2>2. g[0] = start /\ \A k \in 1..n : g[k] = After(o, g[k - 1], args[k])
    <3>1. 0 \in 0..n /\ \A k \in 1..n : k \in 0..n /\ k - 1 \in 0..n
      BY <1>1
    <3>2. \A k \in 0..n : g[k] = f[k]
      OBVIOUS
    <3> HIDE DEF g
    <3> QED
      BY <2>1, <3>1, <3>2 DEF Turns
  <2>3. \A k \in 0..n : g[k] = IF k = 0 THEN start
                               ELSE IF Stopped(g[k - 1]) THEN g[k - 1]
                                    ELSE Turn(o, g[k - 1], args[k])
    <3>1. \A k \in 0..n : k # 0 => k \in 1..n
      BY <1>1
    <3> HIDE DEF g
    <3> QED
      BY <2>2, <3>1 DEF After
  <2>4. g = [k \in 0..n |-> g[k]]
    OBVIOUS
  <2> HIDE DEF g
  <2>5. g = [k \in 0..n |-> IF k = 0 THEN start
                            ELSE IF Stopped(g[k - 1]) THEN g[k - 1]
                                 ELSE Turn(o, g[k - 1], args[k])]
    BY <2>3, <2>4
  <2> QED
    BY <2>5 DEF FoldedSteps, n
<1> DEFINE h == CHOOSE g : FoldedSteps(o, start, args, g)
<1>6. FoldedSteps(o, start, args, h)
  BY <1>5
<1>7. Folded(o, start, args) = h[n]
  BY DEF Folded, FoldedSteps, n
<1> HIDE DEF h
<1>8. h[0] = start /\ \A k \in 1..n : h[k] = After(o, h[k - 1], args[k])
  <2>1. h = [k \in 0..n |-> IF k = 0 THEN start
                            ELSE IF Stopped(h[k - 1]) THEN h[k - 1]
                                 ELSE Turn(o, h[k - 1], args[k])]
    BY <1>6 DEF FoldedSteps, n
  <2>2. 0 \in 0..n /\ \A k \in 1..n : k \in 0..n /\ k # 0
    BY <1>1
  <2> QED
    BY <2>1, <2>2 DEF After
<1>9. Turns(o, start, args, Len(args), h) /\ Folded(o, start, args) = h[Len(args)]
  BY <1>7, <1>8 DEF Turns, n
<1> QED
  BY <1>9

----------------------------------------------------------------------------
(* Longs and what num_add ... num_mod make of them.                        *)
Fixs == {Fix(n) : n \in Longs}

LEMMA FixFacts ==
  ASSUME NEW n \in Int
  PROVE  /\ Fix(n) \in Fixs /\ is_fixnum(Fix(n)) /\ Fix(n).value = Wrap(n)
         /\ n \in Longs => Fix(n).value = n
<1>1. Wrap(n) \in Longs /\ Wrap(n) \in Int
  BY WrapFacts, WordFacts
<1>2. Wrap(Wrap(n)) = Wrap(n) /\ (n \in Longs => Wrap(n) = n)
  BY <1>1, WrapFacts
<1>3. Fix(n) = Fix(Wrap(n))
  BY <1>2 DEF Fix
<1> QED
  BY <1>1, <1>2, <1>3 DEF Fixs, Fix, is_fixnum

LEMMA FixsFacts ==
  ASSUME NEW a \in Fixs
  PROVE  a.value \in Longs /\ a.value \in Int /\ is_fixnum(a) /\ ~Stopped(a)
<1>1. PICK n \in Longs : a = Fix(n)
  BY DEF Fixs
<1>2. n \in Int /\ Wrap(n) = n
  BY WrapFacts, WordFacts
<1> QED
  BY <1>1, <1>2 DEF Fix, is_fixnum, Stopped

LEMMA UnitFacts == /\ Zero \in Fixs /\ Zero.value = 0 /\ One \in Fixs /\ One.value = 1
                   /\ 0 \in Longs /\ 1 \in Longs
<1>1. 0 \in Longs /\ 1 \in Longs
  BY WordFacts DEF Longs
<1> QED
  BY <1>1, FixFacts DEF Zero, One

LEMMA QuotientBounds ==
  ASSUME NEW a \in Int, NEW b \in Nat \ {0}
  PROVE  /\ a >= 0 => quotient(a, b) \in 0..a
         /\ a < 0 => quotient(a, b) \in a..0
         /\ quotient(-a, b) = -quotient(a, b)
<1>1. ASSUME NEW c \in Nat PROVE c \div b \in 0..c
  <2>1. c = b * (c \div b) + (c % b) /\ c % b \in Nat /\ c \div b \in Nat
    BY DivMod
  <2>2. 1 * (c \div b) <= b * (c \div b)
    BY <2>1
  <2> QED
    BY <2>1, <2>2
<1>2. CASE a > 0
  <2>1. ~(-a >= 0) /\ -(-a) = a /\ a \in Nat
    BY <1>2
  <2> QED
    BY <1>1, <1>2, <2>1 DEF quotient
<1>3. CASE a < 0
  <2>1. -a \in Nat /\ -a >= 0
    BY <1>3
  <2>2. (-a) \div b \in 0..(-a)
    BY <1>1, <2>1
  <2>3. quotient(a, b) = -((-a) \div b) /\ quotient(-a, b) = (-a) \div b
    BY <1>3, <2>1 DEF quotient
  <2> QED
    BY <1>3, <2>2, <2>3
<1>4. CASE a <= 0 /\ a >= 0
  <2>1. -a = 0 /\ a = 0
    BY <1>4, MinusZero
  <2>2. 0 \div b \in 0..0
    BY <1>1
  <2>3. quotient(0, b) <= 0 /\ quotient(0, b) >= 0 /\ quotient(0, b) \in Int
    BY <2>2 DEF quotient
  <2>4. -quotient(0, b) = 0 /\ quotient(0, b) = 0
    BY <2>3, MinusZero
  <2> QED
    BY <2>1, <2>4
<1> QED
  BY <1>2, <1>3, <1>4

LEMMA DivTwice ==
  ASSUME NEW a \in Nat, NEW b \in Nat \ {0}, NEW c \in Nat \ {0}
  PROVE  b * c \in Nat \ {0} /\ (a \div b) \div c = a \div (b * c)
<1>1. b * c \in Nat \ {0}
  OBVIOUS
<1> DEFINE q == a \div b
           r == a % b
           p == q \div c
           s == q % c
<1>2. q \in Nat /\ r \in Nat /\ a = b * q + r /\ r < b
  BY DivMod
<1> HIDE DEF q, r
<1>3. p \in Nat /\ s \in Nat /\ q = c * p + s /\ s < c
  BY <1>2, DivMod
<1> HIDE DEF p, s
<1>4. b * s + r \in Nat /\ b * s + r < b * c
  <2>1. s <= c - 1 /\ c - 1 \in Nat
    BY <1>3
  <2>2. b * s <= b * (c - 1) /\ b * s \in Nat
    BY <1>3, <2>1, TimesMonotone
  <2>3. b * (c - 1) = b * c - b
    OBVIOUS
  <2> QED
    BY <1>1, <1>2, <2>2, <2>3
<1>5. a = (b * c) * p + (b * s + r)
  <2>1. b * (c * p + s) = (b * c) * p + b * s
    BY <1>3
  <2> QED
    BY <1>2, <1>3, <2>1
<1>6. ((b * c) * p + (b * s + r)) \div (b * c) = p
  <2> DEFINE d == b * c
             t == b * s + r
  <2>1. d \in Nat \ {0} /\ t \in Nat /\ t < d
    BY <1>1, <1>4
  <2> HIDE DEF d, t
  <2>2. (d * p + t) \div d = p
    BY <1>3, <2>1
  <2> QED
    BY <2>2 DEF d, t
<1>7. a \div (b * c) = p
  BY <1>5, <1>6
<1> QED
  BY <1>1, <1>7 DEF p, q

LEMMA QuotientTwice ==
  ASSUME NEW a \in Int, NEW b \in Nat \ {0}, NEW c \in Nat \ {0}
  PROVE  quotient(quotient(a, b), c) = quotient(a, b * c)
<1>1. b * c \in Nat \ {0}
  BY DivTwice
<1>2. CASE a >= 0
  <2>1. a \in Nat /\ a \div b \in Nat /\ a \div b >= 0
    BY <1>2, DivMod
  <2>2. quotient(a, b) = a \div b /\ quotient(a, b * c) = a \div (b * c)
    BY <1>2 DEF quotient
  <2>3. quotient(a \div b, c) = (a \div b) \div c
    BY <2>1 DEF quotient
  <2> QED
    BY <2>1, <2>2, <2>3, DivTwice
<1>3. CASE a < 0
  <2> DEFINE e == -a
  <2>1. e \in Nat /\ e \div b \in Nat /\ a = -e /\ ~(a >= 0)
    BY <1>3, DivMod
  <2>2. quotient(a, b) = -(e \div b) /\ quotient(a, b * c) = -(e \div (b * c))
    BY <2>1 DEF quotient
  <2> HIDE DEF e
  <2>3. quotient(-(e \div b), c) = -quotient(e \div b, c)
    BY <2>1, QuotientBounds
  <2>4. quotient(e \div b, c) = (e \div b) \div c
    BY <2>1 DEF quotient
  <2> QED
    BY ZenonT(60), <2>1, <2>2, <2>3, <2>4, DivTwice
<1> QED
  BY <1>2, <1>3

(* Dividing by two numbers is dividing by their product.                   *)
LEMMA CQuoTwice ==
  ASSUME NEW a \in Int, NEW b \in Int \ {0}, NEW c \in Int \ {0}
  PROVE  b * c \in Int \ {0} /\ CQuo(CQuo(a, b), c) = CQuo(a, b * c)
<1>1. b * c \in Int \ {0} /\ (b * c < 0 <=> ~(b < 0 <=> c < 0))
  OBVIOUS
<1>2. CASE b > 0 /\ c > 0
  <2>1. ~(b < 0) /\ ~(c < 0) /\ ~(b * c < 0) /\ b \in Nat \ {0} /\ c \in Nat \ {0}
    BY <1>1, <1>2
  <2> QED
    BY <1>1, <2>1, QuotientTwice DEF CQuo
<1>3. CASE b < 0 /\ c > 0
  <2>1. ~(c < 0) /\ b * c < 0 /\ -b \in Nat \ {0} /\ c \in Nat \ {0} /\ -a \in Int
        /\ -(b * c) = (-b) * c
    BY <1>1, <1>3
  <2> QED
    BY <1>1, <1>3, <2>1, QuotientTwice DEF CQuo
<1>4. CASE b > 0 /\ c < 0
  <2>1. ~(b < 0) /\ b * c < 0 /\ b \in Nat \ {0} /\ -c \in Nat \ {0} /\ -a \in Int
        /\ -(b * c) = b * (-c)
    BY <1>1, <1>4
  <2>2. -quotient(a, b) = quotient(-a, b)
    BY <2>1, QuotientBounds
  <2> QED
    BY <1>1, <1>4, <2>1, <2>2, QuotientTwice DEF CQuo
<1>5. CASE b < 0 /\ c < 0
  <2>1. ~(b * c < 0) /\ -b \in Nat \ {0} /\ -c \in Nat \ {0} /\ -a \in Int
        /\ b * c = (-b) * (-c)
    BY <1>1, <1>5
  <2>2. quotient(-(-a), -b) = -quotient(-a, -b) /\ -(-a) = a
    BY <2>1, QuotientBounds
  <2> QED
    BY <1>1, <1>5, <2>1, <2>2, QuotientTwice DEF CQuo
<1> QED
  BY <1>2, <1>3, <1>4, <1>5

LEMMA CQuoByOne == \A a \in Int : CQuo(a, 1) = a
<1> TAKE a \in Int
<1>1. \A c \in Nat : c \div 1 = c
  OBVIOUS
<1>2. CASE a >= 0
  BY <1>1, <1>2 DEF CQuo, quotient
<1>3. CASE a < 0
  <2>1. -a \in Nat /\ ~(a >= 0) /\ -(-a) = a
    BY <1>3
  <2> QED
    BY <1>1, <2>1 DEF CQuo, quotient
<1> QED
  BY <1>2, <1>3

(* A quotient is no greater than what is divided.                          *)
LEMMA CQuoBounds ==
  ASSUME NEW a \in Int, NEW b \in Int \ {0}
  PROVE  CQuo(a, b) \in Int /\ Magnitude(CQuo(a, b)) <= Magnitude(a)
<1>1. CASE b > 0
  <2>1. b \in Nat \ {0} /\ CQuo(a, b) = quotient(a, b)
    BY <1>1 DEF CQuo
  <2> QED
    BY <2>1, QuotientBounds DEF Magnitude
<1>2. CASE b < 0
  <2>1. -b \in Nat \ {0} /\ -a \in Int /\ CQuo(a, b) = quotient(-a, -b)
    BY <1>2 DEF CQuo
  <2> QED
    BY <2>1, QuotientBounds DEF Magnitude
<1> QED
  BY <1>1, <1>2

(* Only the least long by -1 is no long.                                   *)
LEMMA CQuoLong ==
  ASSUME NEW a \in Longs, NEW b \in Longs \ {0}, ~Traps(a, b)
  PROVE  CQuo(a, b) \in Longs
<1>1. a \in Int /\ b \in Int \ {0} /\ MaxLong \in Nat \ {0}
      /\ a >= -MaxLong - 1 /\ a <= MaxLong
  BY WordFacts DEF Longs
<1>2. CASE b > 0
  <2>1. b \in Nat \ {0} /\ CQuo(a, b) = quotient(a, b)
    BY <1>1, <1>2 DEF CQuo
  <2>2. CASE a >= 0
    BY <1>1, <2>1, <2>2, QuotientBounds DEF Longs
  <2>3. CASE a < 0
    BY <1>1, <2>1, <2>3, QuotientBounds DEF Longs
  <2> QED
    BY <1>1, <2>2, <2>3
<1>3. CASE b < 0
  <2> DEFINE c == -a
             d == -b
  <2>1. c \in Int /\ d \in Nat \ {0} /\ CQuo(a, b) = quotient(c, d)
    BY <1>1, <1>3 DEF CQuo
  <2>2. c >= -MaxLong /\ c <= MaxLong + 1 /\ (c = MaxLong + 1 => a = MinLong)
        /\ (d = 1 => b = -1)
    BY <1>1 DEF MinLong
  <2> HIDE DEF c, d
  <2>3. CASE c <= MaxLong
    <3>1. CASE c >= 0
      BY SMTT(40), <1>1, <2>1, <2>3, <3>1, QuotientBounds DEF Longs
    <3>2. CASE c < 0
      <4> DEFINE q == quotient(c, d)
      <4>1. q \in c..0
        BY <2>1, <3>2, QuotientBounds
      <4> HIDE DEF q
      <4>2. q \in Longs
        BY <1>1, <2>1, <2>2, <4>1 DEF Longs
      <4> QED
        BY <2>1, <4>2 DEF q
    <3> QED
      BY <2>1, <3>1, <3>2
  <2>4. CASE c = MaxLong + 1
    <3>1. d >= 2 /\ c \in Nat /\ c >= 0
      BY <1>1, <2>1, <2>2, <2>4 DEF Traps
    <3>2. /\ quotient(c, d) = c \div d /\ c = d * (c \div d) + (c % d) /\ c % d \in Nat
          /\ c \div d \in Nat
      BY <2>1, <3>1, DivMod DEF quotient
    <3>3. 2 * (c \div d) <= d * (c \div d)
      BY <2>1, <3>1, <3>2
    <3> DEFINE q == c \div d
               p == d * q
    <3>4. q \in Nat /\ p \in Nat /\ 2 * q <= p /\ c = p + (c % d) /\ c % d \in Nat
      BY <2>1, <3>2, <3>3
    <3> HIDE DEF q, p
    <3>5. q \in Longs
      BY <1>1, <2>4, <3>4 DEF Longs
    <3> QED
      BY <2>1, <3>2, <3>5 DEF q
  <2> QED
    BY <1>1, <2>1, <2>2, <2>3, <2>4
<1> QED
  BY <1>1, <1>2, <1>3

LEMMA IvaluesFacts ==
  ASSUME NEW args \in Seq(Fixs)
  PROVE  /\ Ivalues(args) \in Seq(Int) /\ Len(Ivalues(args)) = Len(args) /\ Len(args) \in Nat
         /\ \A i \in 1..Len(args) : args[i] \in Fixs /\ Ivalues(args)[i] = args[i].value
<1>1. Len(args) \in Nat /\ DOMAIN args = 1..Len(args) /\ \A i \in 1..Len(args) : args[i] \in Fixs
  BY ElementOfSeq, LenProperties
<1>2. \A i \in 1..Len(args) : args[i].value \in Int
  BY <1>1, FixsFacts
<1>3. Ivalues(args) = [i \in 1..Len(args) |-> args[i].value]
  BY <1>1 DEF Ivalues
<1>4. Ivalues(args) \in [1..Len(args) -> Int]
  BY <1>2, <1>3
<1> QED
  BY <1>1, <1>3, <1>4, LenProperties, SeqDef

LEMMA TurnFacts ==
  ASSUME NEW a \in Fixs, NEW b \in Fixs
  PROVE  /\ Turn("+", a, b) = Fix(a.value + b.value)
         /\ Turn("-", a, b) = Fix(a.value - b.value)
         /\ Turn("*", a, b) = Fix(a.value * b.value)
         /\ Turn("/", a, b) = IF is_zero_double(rvalue(b)) THEN Error ELSE num_div(a, b)
         /\ Turn("quotient", a, b) = IF b.value = 0 THEN Error ELSE num_intdiv(a, b)
         /\ Turn("remainder", a, b) = IF b.value = 0 THEN Error ELSE num_rem(a, b)
         /\ Turn("modulo", a, b) = IF b.value = 0 THEN Error ELSE num_mod(a, b)
<1>1. is_fixnum(a) /\ is_fixnum(b)
  BY FixsFacts
<1> QED
  BY <1>1 DEF Turn, num_add, num_sub, num_mul, remainder, ivalue, Fixed

(* What the loop has at each turn                                          *)
LEMMA Fold ==
  ASSUME NEW o, NEW start \in Fixs, NEW args \in Seq(Fixs),
         NEW f, Turns(o, start, args, Len(args), f),
         NEW T \in SUBSET (0..Len(args)), 0 \in T,
         \A k \in 1..Len(args) : k - 1 \in T /\ f[k] = After(o, f[k - 1], args[k]) => k \in T
  PROVE  T = 0..Len(args)
<1>1. Len(args) \in Nat
  BY LenProperties
<1>2. ASSUME NEW k \in 0..(Len(args) - 1), k \in T PROVE k + 1 \in T
  <2>1. k + 1 \in 1..Len(args) /\ (k + 1) - 1 = k
    BY <1>1
  <2> QED
    BY <1>2, <2>1 DEF Turns
<1> QED
  BY <1>1, <1>2, Climb

LEMMA Added ==
  ASSUME NEW start \in Fixs, NEW args \in Seq(Fixs)
  PROVE  LET r == Folded("+", start, args)
         IN  r \in Fixs /\ Same(r.value, start.value + Sum(Ivalues(args)))
<1> DEFINE n == Len(args)
           s == Ivalues(args)
<1>1. n \in Nat /\ s \in Seq(Int) /\ Len(s) = n
      /\ \A k \in 1..n : args[k] \in Fixs /\ s[k] = args[k].value
  BY IvaluesFacts
<1>2. PICK f : Turns("+", start, args, n, f) /\ Folded("+", start, args) = f[n]
  BY <1>1, FoldedLoop
<1> HIDE DEF s
<1>3. PICK to \in [0..n -> Int] :
        /\ to[0] = 0 /\ \A k \in 1..n : to[k] = to[k - 1] + s[k]
        /\ Sum(s) = to[n]
  BY <1>1, SumLoop
<1> DEFINE T == {k \in 0..n : f[k] \in Fixs /\ Same(f[k].value, start.value + to[k])}
<1>4. 0 \in T
  <2>1. f[0] = start /\ start.value \in Int /\ start.value + 0 = start.value
    BY <1>2, FixsFacts DEF Turns
  <2> QED
    BY <1>1, <1>3, <2>1, SameWrapped
<1>5. ASSUME NEW k \in 1..n, k - 1 \in T, f[k] = After("+", f[k - 1], args[k]) PROVE k \in T
  <2>1. /\ f[k - 1] \in Fixs /\ Same(f[k - 1].value, start.value + to[k - 1])
        /\ args[k] \in Fixs /\ k \in 0..n /\ k - 1 \in 0..n
    BY <1>1, <1>5
  <2>2. /\ f[k - 1].value \in Int /\ args[k].value \in Int /\ ~Stopped(f[k - 1])
        /\ start.value \in Int /\ to[k - 1] \in Int
    BY <1>3, <2>1, FixsFacts
  <2>3. f[k] = Fix(f[k - 1].value + args[k].value)
    BY <1>5, <2>1, <2>2, TurnFacts DEF After
  <2>4. f[k] \in Fixs /\ f[k].value = Wrap(f[k - 1].value + args[k].value)
    BY <2>2, <2>3, FixFacts
  <2>5. Same(f[k].value, (start.value + to[k - 1]) + args[k].value)
    BY <2>1, <2>2, <2>4, SameOperations
  <2>6. (start.value + to[k - 1]) + args[k].value = start.value + to[k]
    <3>1. to[k] = to[k - 1] + s[k] /\ s[k] = args[k].value
      BY <1>1, <1>3
    <3> QED
      BY <2>2, <3>1
  <2> QED
    BY <2>1, <2>4, <2>5, <2>6
<1>6. T = 0..n
  <2>1. T \in SUBSET (0..n)
    OBVIOUS
  <2> HIDE DEF T
  <2> QED
    BY <1>2, <1>4, <1>5, <2>1, Fold
<1>7. n \in T
  <2> HIDE DEF T
  <2> QED
    BY <1>1, <1>6
<1> QED
  BY <1>2, <1>3, <1>7 DEF s
LEMMA Subtracted ==
  ASSUME NEW start \in Fixs, NEW args \in Seq(Fixs)
  PROVE  LET r == Folded("-", start, args)
         IN  r \in Fixs /\ Same(r.value, start.value - Sum(Ivalues(args)))
<1> DEFINE n == Len(args)
           s == Ivalues(args)
<1>1. n \in Nat /\ s \in Seq(Int) /\ Len(s) = n
      /\ \A k \in 1..n : args[k] \in Fixs /\ s[k] = args[k].value
  BY IvaluesFacts
<1>2. PICK f : Turns("-", start, args, n, f) /\ Folded("-", start, args) = f[n]
  BY <1>1, FoldedLoop
<1> HIDE DEF s
<1>3. PICK to \in [0..n -> Int] :
        /\ to[0] = 0 /\ \A k \in 1..n : to[k] = to[k - 1] + s[k]
        /\ Sum(s) = to[n]
  BY <1>1, SumLoop
<1> DEFINE T == {k \in 0..n : f[k] \in Fixs /\ Same(f[k].value, start.value - to[k])}
<1>4. 0 \in T
  <2>1. f[0] = start /\ start.value \in Int /\ start.value - 0 = start.value
    BY <1>2, FixsFacts DEF Turns
  <2> QED
    BY <1>1, <1>3, <2>1, SameWrapped
<1>5. ASSUME NEW k \in 1..n, k - 1 \in T, f[k] = After("-", f[k - 1], args[k]) PROVE k \in T
  <2>1. /\ f[k - 1] \in Fixs /\ Same(f[k - 1].value, start.value - to[k - 1])
        /\ args[k] \in Fixs /\ k \in 0..n /\ k - 1 \in 0..n
    BY <1>1, <1>5
  <2>2. /\ f[k - 1].value \in Int /\ args[k].value \in Int /\ ~Stopped(f[k - 1])
        /\ start.value \in Int /\ to[k - 1] \in Int
    BY <1>3, <2>1, FixsFacts
  <2>3. f[k] = Fix(f[k - 1].value - args[k].value)
    BY <1>5, <2>1, <2>2, TurnFacts DEF After
  <2>4. f[k] \in Fixs /\ f[k].value = Wrap(f[k - 1].value - args[k].value)
    BY <2>2, <2>3, FixFacts
  <2>5. Same(f[k].value, (start.value - to[k - 1]) - args[k].value)
    BY <2>1, <2>2, <2>4, SameOperations
  <2>6. (start.value - to[k - 1]) - args[k].value = start.value - to[k]
    BY SMTT(40), <1>1, <1>3, <2>2
  <2> QED
    BY <2>1, <2>4, <2>5, <2>6
<1>6. T = 0..n
  <2>1. T \in SUBSET (0..n)
    OBVIOUS
  <2> HIDE DEF T
  <2> QED
    BY <1>2, <1>4, <1>5, <2>1, Fold
<1>7. n \in T
  <2> HIDE DEF T
  <2> QED
    BY <1>1, <1>6
<1> QED
  BY <1>2, <1>3, <1>7 DEF s
LEMMA Multiplied ==
  ASSUME NEW start \in Fixs, NEW args \in Seq(Fixs)
  PROVE  LET r == Folded("*", start, args)
         IN  r \in Fixs /\ Same(r.value, start.value * Product(Ivalues(args)))
<1> DEFINE n == Len(args)
           s == Ivalues(args)
<1>1. n \in Nat /\ s \in Seq(Int) /\ Len(s) = n
      /\ \A k \in 1..n : args[k] \in Fixs /\ s[k] = args[k].value
  BY IvaluesFacts
<1>2. PICK f : Turns("*", start, args, n, f) /\ Folded("*", start, args) = f[n]
  BY <1>1, FoldedLoop
<1> HIDE DEF s
<1>3. PICK to \in [0..n -> Int] :
        /\ to[0] = 1 /\ \A k \in 1..n : to[k] = to[k - 1] * s[k]
        /\ Product(s) = to[n]
  BY <1>1, ProductLoop
<1> DEFINE T == {k \in 0..n : f[k] \in Fixs /\ Same(f[k].value, start.value * to[k])}
<1>4. 0 \in T
  <2>1. f[0] = start /\ start.value \in Int /\ start.value * 1 = start.value
    BY <1>2, FixsFacts DEF Turns
  <2> QED
    BY <1>1, <1>3, <2>1, SameWrapped
<1>5. ASSUME NEW k \in 1..n, k - 1 \in T, f[k] = After("*", f[k - 1], args[k]) PROVE k \in T
  <2>1. /\ f[k - 1] \in Fixs /\ Same(f[k - 1].value, start.value * to[k - 1])
        /\ args[k] \in Fixs /\ k \in 0..n /\ k - 1 \in 0..n
    BY <1>1, <1>5
  <2>2. /\ f[k - 1].value \in Int /\ args[k].value \in Int /\ ~Stopped(f[k - 1])
        /\ start.value \in Int /\ to[k - 1] \in Int
    BY <1>3, <2>1, FixsFacts
  <2>3. f[k] = Fix(f[k - 1].value * args[k].value)
    BY <1>5, <2>1, <2>2, TurnFacts DEF After
  <2>4. f[k] \in Fixs /\ f[k].value = Wrap(f[k - 1].value * args[k].value)
    BY <2>2, <2>3, FixFacts
  <2>5. Same(f[k].value, (start.value * to[k - 1]) * args[k].value)
    BY <2>1, <2>2, <2>4, SameOperations
  <2>6. (start.value * to[k - 1]) * args[k].value = start.value * to[k]
    <3>1. to[k] = to[k - 1] * args[k].value
      BY <1>1, <1>3
    <3> QED
      BY <2>2, <3>1, TimesAssociate
  <2> QED
    BY <2>1, <2>4, <2>5, <2>6
<1>6. T = 0..n
  <2>1. T \in SUBSET (0..n)
    OBVIOUS
  <2> HIDE DEF T
  <2> QED
    BY <1>2, <1>4, <1>5, <2>1, Fold
<1>7. n \in T
  <2> HIDE DEF T
  <2> QED
    BY <1>1, <1>6
<1> QED
  BY <1>2, <1>3, <1>7 DEF s

(* The double next to zero is zero, which the division finds to be zero.   *)
LEMMA NearestZero == Nearest[<<0, 1>>] = 0
<1> DEFINE p == <<0, 1>>
           E == 0..(3 * Width)
           C(e) == /\ Magnitude(p[1]) < Power[Precision] * Magnitude(p[2]) * Power[e]
                   /\ e > 0 => Magnitude(p[1]) >= Power[Precision] * Magnitude(p[2]) * Power[e - 1]
           e0 == CHOOSE e \in E : C(e)
<1>1. p \in Int \X Int /\ p[1] = 0 /\ p[2] = 1 /\ Magnitude(p[1]) = 0 /\ Magnitude(p[2]) = 1
  BY DEF Magnitude
<1> HIDE DEF p
<1>2. Precision \in Nat /\ Width \in Nat /\ 0 \in E
  BY NumbersAssumption
<1>3. Power[0] = 1 /\ \A n \in Nat : Power[n] \in Nat \ {0}
  BY PowerFacts
<1>4. Power[Precision] \in Nat \ {0} /\ Power[Precision] * 1 * Power[0] \in Nat \ {0}
  BY <1>2, <1>3
<1>5. C(0)
  BY <1>1, <1>4
<1>6. ASSUME NEW e \in E, C(e) PROVE e = 0
  <2>1. e \in Nat
    BY <1>2
  <2>2. CASE e > 0
    <3>1. e - 1 \in Nat
      BY <2>1, <2>2
    <3>2. Power[Precision] * 1 * Power[e - 1] \in Nat \ {0}
      BY <1>3, <1>4, <3>1
    <3> QED
      BY <1>1, <1>6, <2>2, <3>2
  <2> QED
    BY <2>1, <2>2
<1>7. e0 = 0
  <2> HIDE DEF C, E
  <2> QED
    BY <1>2, <1>5, <1>6
<1>8. Nearest[p] =
        LET w == Magnitude(p[1]) \div (Magnitude(p[2]) * Power[e0])
            half == 2 * (Magnitude(p[1]) - w * Magnitude(p[2]) * Power[e0]) - Magnitude(p[2]) * Power[e0]
            up == half > 0 \/ (half = 0 /\ w % 2 = 1)
            k == (IF up THEN w + 1 ELSE w) * Power[e0]
        IN  IF p[1] < 0 <=> p[2] < 0 THEN k ELSE -k
  BY <1>1 DEF Nearest
<1>9. 0 \div 1 = 0 /\ 1 * 1 = 1 /\ 0 * 1 = 0 /\ 2 * (0 - 0 * 1 * 1) - 1 * 1 < 0
  OBVIOUS
<1> HIDE DEF e0
<1>10. Nearest[p] = 0
  BY <1>1, <1>3, <1>7, <1>8, <1>9
<1> QED
  BY <1>10 DEF p

LEMMA UnitsFacts ==
  /\ UnitsPerOne \in Nat \ {0} /\ UnitsPerOne <= Power[Width]
  /\ Power[Precision - 1] \in Nat \ {0}
<1>1. Precision \in Nat \ {0} /\ Width \in Nat
  BY NumbersAssumption
<1>2. PICK i \in 0..Width : UnitsPerOne = Power[i]
  BY NumbersAssumption
<1>3. i \in Nat /\ Width - i \in Nat /\ i + (Width - i) = Width /\ Precision - 1 \in Nat
  BY <1>1
<1>4. Power[i] \in Nat \ {0} /\ Power[Width - i] \in Nat \ {0} /\ Power[Precision - 1] \in Nat \ {0}
  BY <1>3, PowerFacts
<1>5. Power[Width] = Power[i] * Power[Width - i]
  BY <1>3, PowerSum
<1>6. Power[i] * 1 <= Power[i] * Power[Width - i]
  BY <1>4
<1> QED
  BY <1>2, <1>4, <1>5, <1>6

LEMMA ZeroDivides ==
  ASSUME NEW b \in Fixs, b.value = 0
  PROVE  is_zero_double(rvalue(b))
<1>1. rvalue(b) = ToDouble[0] /\ 0 \in Longs
  BY FixsFacts, UnitFacts DEF rvalue
<1>2. ToDouble[0] = Nearest[<<0 * UnitsPerOne, 1>>] /\ 0 * UnitsPerOne = 0
  BY <1>1, UnitsFacts DEF ToDouble
<1>3. rvalue(b) = 0
  BY <1>1, <1>2, NearestZero
<1> QED
  BY <1>3, UnitsFacts DEF is_zero_double, Magnitude

LEMMA DivideTurn ==
  ASSUME NEW a, NEW b \in Fixs, is_fixnum(Turn("/", a, b)), is_fixnum(a) => a \in Fixs
  PROVE  /\ a \in Fixs /\ Turn("/", a, b) \in Fixs
         /\ Turn("/", a, b).value * b.value = a.value
<1>1. /\ Turn("/", a, b) = IF is_zero_double(rvalue(b)) THEN Error ELSE num_div(a, b)
      /\ ~is_fixnum(Error) /\ ~is_fixnum(Trap) /\ ~is_fixnum(Divided(a, b))
  BY DEF Turn, is_fixnum, Error, Trap, Divided, Rounded, Real
<1>2. /\ ~is_zero_double(rvalue(b)) /\ Fixed(a, b) /\ ~Traps(a.value, b.value)
      /\ CRem(a.value, b.value) = 0 /\ Turn("/", a, b) = Fix(CQuo(a.value, b.value))
  BY <1>1 DEF num_div
<1>3. a \in Fixs /\ b.value # 0
  BY <1>2, ZeroDivides DEF Fixed
<1>4. a.value \in Longs /\ b.value \in Longs \ {0} /\ a.value \in Int /\ b.value \in Int \ {0}
  BY <1>3, FixsFacts
<1>5. /\ CQuo(a.value, b.value) \in Int /\ CQuo(a.value, b.value) \in Longs
      /\ a.value = b.value * CQuo(a.value, b.value) + 0
  BY <1>2, <1>4, CQuoFacts, CQuoLong
<1>6. Turn("/", a, b) \in Fixs /\ Turn("/", a, b).value = CQuo(a.value, b.value)
  BY <1>2, <1>5, FixFacts
<1> QED
  BY <1>3, <1>4, <1>5, <1>6

LEMMA DividedExactly ==
  ASSUME NEW start \in Fixs, NEW args \in Seq(Fixs), is_fixnum(Folded("/", start, args))
  PROVE  Folded("/", start, args).value * Product(Ivalues(args)) = start.value
<1> DEFINE n == Len(args)
           s == Ivalues(args)
<1>1. n \in Nat /\ s \in Seq(Int) /\ Len(s) = n
      /\ \A k \in 1..n : args[k] \in Fixs /\ s[k] = args[k].value
  BY IvaluesFacts
<1>2. PICK f : Turns("/", start, args, n, f) /\ Folded("/", start, args) = f[n]
  BY <1>1, FoldedLoop
<1> HIDE DEF s
<1>3. PICK to \in [0..n -> Int] :
        /\ to[0] = 1 /\ \A k \in 1..n : to[k] = to[k - 1] * s[k]
        /\ Product(s) = to[n]
  BY <1>1, ProductLoop
<1> DEFINE T == {k \in 0..n : is_fixnum(f[k]) => f[k] \in Fixs /\ f[k].value * to[k] = start.value}
<1>4. 0 \in T
  <2>1. f[0] = start /\ start.value \in Int /\ start.value * 1 = start.value
    BY <1>2, FixsFacts DEF Turns
  <2> QED
    BY <1>1, <1>3, <2>1
<1>5. ASSUME NEW k \in 1..n, k - 1 \in T, f[k] = After("/", f[k - 1], args[k]) PROVE k \in T
  <2>1. /\ is_fixnum(f[k - 1]) => f[k - 1] \in Fixs /\ f[k - 1].value * to[k - 1] = start.value
        /\ args[k] \in Fixs /\ k \in 0..n /\ k - 1 \in 0..n
    BY <1>1, <1>5
  <2> SUFFICES ASSUME is_fixnum(f[k]) PROVE f[k] \in Fixs /\ f[k].value * to[k] = start.value
    BY <2>1
  <2>2. f[k] = Turn("/", f[k - 1], args[k])
    BY <1>5 DEF After, Stopped, is_fixnum
  <2>3. f[k - 1] \in Fixs /\ f[k] \in Fixs /\ f[k].value * args[k].value = f[k - 1].value
    BY <2>1, <2>2, DivideTurn
  <2>4. f[k].value \in Int /\ args[k].value \in Int /\ to[k - 1] \in Int /\ is_fixnum(f[k - 1])
    BY <1>3, <2>1, <2>3, FixsFacts
  <2>5. to[k] = to[k - 1] * args[k].value /\ to[k - 1] * args[k].value = args[k].value * to[k - 1]
    BY <1>1, <1>3, <2>4, TimesAssociate
  <2>6. f[k].value * (args[k].value * to[k - 1]) = (f[k].value * args[k].value) * to[k - 1]
    BY <2>4, TimesAssociate
  <2> QED
    BY <2>1, <2>3, <2>4, <2>5, <2>6
<1>6. T = 0..n
  <2>1. T \in SUBSET (0..n)
    OBVIOUS
  <2> HIDE DEF T
  <2> QED
    BY <1>2, <1>4, <1>5, <2>1, Fold
<1>7. n \in T
  <2> HIDE DEF T
  <2> QED
    BY <1>1, <1>6
<1> QED
  BY <1>2, <1>3, <1>7 DEF s

(* The fold of quotient divides by the product of the divisors.            *)
Quotient(start, args, r, p) ==
  \/ r \in Fixs /\ p # 0 /\ r.value = CQuo(start.value, p)
  \/ r = Error /\ p = 0
  \/ r = Trap /\ start.value = MinLong /\ \E i \in 1..Len(args) : args[i].value = -1

LEMMA QuotientTurn ==
  ASSUME NEW start \in Fixs, NEW args \in Seq(Fixs), NEW k \in 1..Len(args),
         NEW a, NEW p \in Int, Quotient(start, args, a, p)
  PROVE  Quotient(start, args, After("quotient", a, args[k]), p * args[k].value)
<1> DEFINE b == args[k]
           r == After("quotient", a, b)
<1>1. b \in Fixs /\ b.value \in Longs /\ b.value \in Int /\ start.value \in Longs /\ start.value \in Int
  BY IvaluesFacts, FixsFacts
<1> HIDE DEF r
<1>2. CASE a = Error /\ p = 0
  <2>1. r = Error
    BY <1>2 DEF r, After, Stopped, Error
  <2> QED
    BY <1>1, <1>2, <2>1 DEF Quotient, r
<1>3. CASE a = Trap /\ start.value = MinLong /\ \E i \in 1..Len(args) : args[i].value = -1
  <2>1. r = Trap
    BY <1>3 DEF r, After, Stopped, Trap
  <2> QED
    BY <1>3, <2>1 DEF Quotient, r
<1>4. CASE a \in Fixs /\ p # 0 /\ a.value = CQuo(start.value, p)
  <2>1. /\ a.value \in Longs /\ ~Stopped(a) /\ Fixed(a, b)
        /\ r = IF b.value = 0 THEN Error ELSE num_intdiv(a, b)
    BY <1>1, <1>4, FixsFacts, TurnFacts DEF r, After, Fixed
  <2>2. CASE b.value = 0
    <3>1. r = Error /\ p * b.value = 0
      BY <2>1, <2>2
    <3> QED
      BY <3>1 DEF Quotient, r
  <2>3. CASE b.value # 0 /\ Traps(a.value, b.value)
    <3>1. r = Trap /\ b.value = -1 /\ a.value = MinLong
      BY <2>1, <2>3 DEF num_intdiv, Traps
    <3>2. Magnitude(CQuo(start.value, p)) <= Magnitude(start.value)
      BY <1>1, <1>4, CQuoBounds
    <3>3. start.value = MinLong
      BY <1>1, <1>4, <3>1, <3>2, WordFacts DEF Magnitude, MinLong, Longs
    <3> QED
      BY <3>1, <3>3 DEF Quotient, r
  <2>4. CASE b.value # 0 /\ ~Traps(a.value, b.value)
    <3>1. r = Fix(CQuo(a.value, b.value))
      BY <2>1, <2>4 DEF num_intdiv
    <3>2. CQuo(a.value, b.value) \in Longs /\ CQuo(a.value, b.value) \in Int
      BY <1>1, <2>1, <2>4, CQuoLong, WordFacts
    <3>3. r \in Fixs /\ r.value = CQuo(a.value, b.value)
      BY <3>1, <3>2, FixFacts
    <3>4. p * b.value \in Int \ {0} /\ CQuo(CQuo(start.value, p), b.value) = CQuo(start.value, p * b.value)
      <4>1. p \in Int \ {0} /\ b.value \in Int \ {0} /\ start.value \in Int
        BY <1>1, <1>4, <2>4
      <4>2. \A e \in Int : \A c, d \in Int \ {0} :
              c * d \in Int \ {0} /\ CQuo(CQuo(e, c), d) = CQuo(e, c * d)
        BY CQuoTwice
      <4> DEFINE e == start.value
                 d == b.value
      <4>3. p \in Int \ {0} /\ d \in Int \ {0} /\ e \in Int
        BY <4>1
      <4> HIDE DEF d, e
      <4>4. p * d \in Int \ {0} /\ CQuo(CQuo(e, p), d) = CQuo(e, p * d)
        BY <4>2, <4>3
      <4> QED
        BY <4>4 DEF d, e
    <3> QED
      BY <1>4, <3>3, <3>4 DEF Quotient, r
  <2> QED
    BY <2>2, <2>3, <2>4
<1> QED
  BY <1>2, <1>3, <1>4 DEF Quotient

LEMMA Quotients ==
  ASSUME NEW start \in Fixs, NEW args \in Seq(Fixs)
  PROVE  Quotient(start, args, Folded("quotient", start, args), Product(Ivalues(args)))
<1> DEFINE n == Len(args)
           s == Ivalues(args)
<1>1. n \in Nat /\ s \in Seq(Int) /\ Len(s) = n
      /\ \A k \in 1..n : args[k] \in Fixs /\ s[k] = args[k].value
  BY IvaluesFacts
<1>2. PICK f : Turns("quotient", start, args, n, f) /\ Folded("quotient", start, args) = f[n]
  BY <1>1, FoldedLoop
<1> HIDE DEF s
<1>3. PICK to \in [0..n -> Int] :
        /\ to[0] = 1 /\ \A k \in 1..n : to[k] = to[k - 1] * s[k]
        /\ Product(s) = to[n]
  BY <1>1, ProductLoop
<1> DEFINE T == {k \in 0..n : Quotient(start, args, f[k], to[k])}
<1>4. 0 \in T
  <2>1. f[0] = start /\ start.value \in Int /\ CQuo(start.value, 1) = start.value
    BY <1>2, FixsFacts, CQuoByOne DEF Turns
  <2> QED
    BY <1>1, <1>3, <2>1 DEF Quotient
<1>5. ASSUME NEW k \in 1..n, k - 1 \in T, f[k] = After("quotient", f[k - 1], args[k]) PROVE k \in T
  <2>1. Quotient(start, args, f[k - 1], to[k - 1]) /\ k \in 0..n /\ k - 1 \in 0..n
    BY <1>1, <1>5
  <2>2. to[k - 1] \in Int /\ to[k] = to[k - 1] * args[k].value
    BY <1>1, <1>3, <2>1
  <2>3. Quotient(start, args, f[k], to[k])
    BY <1>5, <2>1, <2>2, QuotientTurn
  <2> QED
    BY <2>1, <2>3
<1>6. T = 0..n
  <2>1. T \in SUBSET (0..n)
    OBVIOUS
  <2> HIDE DEF T
  <2> QED
    BY <1>2, <1>4, <1>5, <2>1, Fold
<1>7. n \in T
  <2> HIDE DEF T
  <2> QED
    BY <1>1, <1>6
<1> QED
  BY <1>2, <1>3, <1>7 DEF s

(* The operands of an opcode's fold                                        *)
LEMMA OfIntegers ==
  ASSUME NEW args \in Seq(Fixs)
  PROVE  ~(\E i \in DOMAIN args : ~is_integer(args[i])) /\ AllFixnums(args)
<1>1. DOMAIN args = 1..Len(args) /\ \A i \in 1..Len(args) : is_fixnum(args[i])
  BY IvaluesFacts, FixsFacts, LenProperties
<1> QED
  BY <1>1 DEF is_integer, AllFixnums

LEMMA TailValues ==
  ASSUME NEW args \in Seq(Fixs), Len(args) > 1
  PROVE  Tail(args) \in Seq(Fixs) /\ Ivalues(Tail(args)) = Tail(Ivalues(args))
<1> DEFINE s == Ivalues(args)
           t == Tail(args)
           u == Ivalues(t)
           w == Tail(s)
<1>1. /\ s \in Seq(Int) /\ Len(s) = Len(args) /\ Len(args) \in Nat
      /\ \A i \in 1..Len(args) : s[i] = args[i].value
  BY IvaluesFacts
<1>2. args # <<>> /\ s # <<>>
  BY <1>1, EmptySeq
<1>3. /\ t \in Seq(Fixs) /\ Len(t) = Len(args) - 1
      /\ \A i \in 1..Len(t) : t[i] = args[i + 1]
  BY <1>2, HeadTailProperties
<1> HIDE DEF s, t
<1>4. w \in Seq(Int) /\ Len(w) = Len(args) - 1 /\ \A i \in 1..Len(w) : w[i] = s[i + 1]
  BY <1>1, <1>2, HeadTailProperties
<1>5. u \in Seq(Int) /\ Len(u) = Len(args) - 1 /\ \A i \in 1..Len(t) : u[i] = t[i].value
  BY <1>3, IvaluesFacts
<1> HIDE DEF u, w
<1>6. ASSUME NEW i \in 1..(Len(args) - 1) PROVE u[i] = w[i]
  <2>1. i \in 1..Len(t) /\ i \in 1..Len(w) /\ i + 1 \in 1..Len(args)
    BY <1>1, <1>3, <1>4
  <2> QED
    BY <1>1, <1>3, <1>4, <1>5, <2>1
<1>7. u = w
  BY <1>4, <1>5, <1>6, SeqEqual
<1> QED
  BY <1>3, <1>7 DEF t, u, w, s

LEMMA Opened ==
  ASSUME NEW o \in {"-", "/", "quotient"}, NEW args \in Seq(Fixs), Len(args) >= 1
  PROVE  \E start \in Fixs : \E rest \in Seq(Fixs) :
           /\ Opcode(o, args) = Folded(o, start, rest)
           /\ start.value = First(Ivalues(args), Unit(o).value)
           /\ Ivalues(rest) = Others(Ivalues(args))
           /\ \A i \in 1..Len(rest) : \E j \in 1..Len(args) : rest[i] = args[j]
<1>1. Opcode(o, args) = IF Len(args) = 1 THEN Folded(o, Unit(o), args)
                        ELSE Folded(o, Head(args), Tail(args))
  BY OfIntegers DEF Opcode, StartsWithUnit, Comparisons
<1>2. Len(Ivalues(args)) = Len(args) /\ Len(args) \in Nat
      /\ \A i \in 1..Len(args) : args[i] \in Fixs /\ Ivalues(args)[i] = args[i].value
  BY IvaluesFacts
<1>3. CASE Len(args) = 1
  <2>1. Unit(o) \in Fixs
    BY UnitFacts DEF Unit
  <2> QED
    BY <1>1, <1>2, <1>3, <2>1 DEF First, Others
<1>4. CASE Len(args) > 1
  <2>1. args # <<>>
    BY <1>2, <1>4, EmptySeq
  <2>2. Head(args) = args[1] /\ Len(Tail(args)) = Len(args) - 1
        /\ \A i \in 1..Len(Tail(args)) : Tail(args)[i] = args[i + 1]
    BY <2>1, HeadTailProperties
  <2>3. Head(args) \in Fixs /\ Head(args).value = First(Ivalues(args), Unit(o).value)
    BY <1>2, <1>4, <2>2 DEF First
  <2>4. Tail(args) \in Seq(Fixs) /\ Ivalues(Tail(args)) = Others(Ivalues(args))
    BY <1>2, <1>4, TailValues DEF Others
  <2>5. \A i \in 1..Len(Tail(args)) : \E j \in 1..Len(args) : Tail(args)[i] = args[j]
    <3>1. \A i \in 1..Len(Tail(args)) : i + 1 \in 1..Len(args)
      BY <1>2, <2>2
    <3> QED
      BY <2>2, <3>1
  <2>6. Opcode(o, args) = Folded(o, Head(args), Tail(args))
    BY <1>1, <1>2, <1>4
  <2> DEFINE start == Head(args)
             rest == Tail(args)
  <2> HIDE DEF start, rest
  <2> QED
    BY <2>3, <2>4, <2>5, <2>6 DEF start, rest
<1> QED
  BY <1>2, <1>3, <1>4

(* What DivisionMeant says of one call                                     *)
DivisionOf(o, args, y) ==
  LET n == First(Ivalues(args), 1)
      d == Product(Others(Ivalues(args)))
      r == IF o = "quotient" THEN n - y.value * d ELSE y.value
  IN  /\ y.tag = "error" => d = 0
      /\ y.tag = "trap" =>
           n = MinLong /\ \E i \in DOMAIN args : args[i].value = -1
      /\ is_fixnum(y) /\ (o = "modulo" => ProductFits(n, d)) =>
           /\ d # 0 /\ Magnitude(r) < Magnitude(d)
           /\ (n - r) % Magnitude(d) = 0
           /\ SameSign(r, IF o = "modulo" THEN d ELSE n)

LEMMA Multiple ==
  ASSUME NEW d \in Int \ {0}, NEW q \in Int
  PROVE  (d * q) % Magnitude(d) = 0
<1>1. CASE d > 0
  <2>1. Magnitude(d) = d /\ d * q = q * d + 0 /\ d \in Nat \ {0}
    BY <1>1 DEF Magnitude
  <2>2. (q * d + 0) % d = 0
    BY <2>1, ModUnique
  <2> QED
    BY <2>1, <2>2
<1>2. CASE d < 0
  <2> DEFINE c == -d
             p == -q
  <2>1. Magnitude(d) = c /\ d * q = p * c + 0 /\ c \in Nat \ {0} /\ p \in Int
    BY <1>2 DEF Magnitude
  <2> HIDE DEF c, p
  <2>2. (p * c + 0) % c = 0
    BY <2>1, ModUnique
  <2> QED
    BY <2>1, <2>2
<1> QED
  BY <1>1, <1>2

LEMMA QuotientRight ==
  ASSUME NEW args \in Seq(Fixs), Len(args) >= 1
  PROVE  DivisionOf("quotient", args, Opcode("quotient", args))
<1> DEFINE n == First(Ivalues(args), 1)
           d == Product(Others(Ivalues(args)))
           y == Opcode("quotient", args)
<1>1. PICK start \in Fixs, rest \in Seq(Fixs) :
        /\ y = Folded("quotient", start, rest)
        /\ start.value = n /\ Ivalues(rest) = Others(Ivalues(args))
        /\ \A i \in 1..Len(rest) : \E j \in 1..Len(args) : rest[i] = args[j]
  <2>1. Unit("quotient").value = 1
    BY UnitFacts DEF Unit
  <2> QED
    BY SMTT(40), <2>1, Opened
<1>2. Quotient(start, rest, y, d)
  BY <1>1, Quotients
<1>3. n \in Int /\ DOMAIN args = 1..Len(args)
  BY <1>1, FixsFacts, LenProperties
<1>4. d \in Int
  <2>1. Ivalues(rest) \in Seq(Int) /\ Len(Ivalues(rest)) \in Nat
    BY IvaluesFacts
  <2>2. PICK f \in [0..Len(Ivalues(rest)) -> Int] : Product(Ivalues(rest)) = f[Len(Ivalues(rest))]
    BY <2>1, ProductLoop
  <2> QED
    BY <1>1, <2>1, <2>2
<1> HIDE DEF n, d, y
<1>5. CASE y \in Fixs /\ d # 0 /\ y.value = CQuo(n, d)
  <2>1. is_fixnum(y)
    BY <1>5, FixsFacts
  <2>2. y.tag # "error" /\ y.tag # "trap"
    BY <2>1 DEF is_fixnum
  <2>3. /\ CQuo(n, d) \in Int /\ CRem(n, d) \in Int /\ n = d * CQuo(n, d) + CRem(n, d)
        /\ Magnitude(CRem(n, d)) < Magnitude(d) /\ SameSign(CRem(n, d), n)
    BY <1>3, <1>4, <1>5, CQuoFacts
  <2>4. n - y.value * d = CRem(n, d)
    BY <1>3, <1>4, <1>5, <2>3, TimesAssociate DEF CRem
  <2>5. n - CRem(n, d) = d * CQuo(n, d)
    BY <1>3, <1>4, <2>3
  <2>6. (n - CRem(n, d)) % Magnitude(d) = 0
    BY <1>4, <1>5, <2>3, <2>5, Multiple
  <2>7. DivisionOf("quotient", args, y)
    BY <1>5, <2>2, <2>3, <2>4, <2>6 DEF DivisionOf, n, d
  <2> QED
    BY <2>7 DEF y
<1>6. CASE y = Error /\ d = 0
  <2>1. y.tag # "trap" /\ ~is_fixnum(y)
    BY <1>6 DEF Error, is_fixnum
  <2> QED
    BY <1>6, <2>1 DEF DivisionOf, d, y
<1>7. CASE y = Trap /\ n = MinLong /\ \E i \in 1..Len(rest) : rest[i].value = -1
  <2>1. y.tag # "error" /\ ~is_fixnum(y)
    BY <1>7 DEF Trap, is_fixnum
  <2>2. \E i \in DOMAIN args : args[i].value = -1
    BY <1>1, <1>3, <1>7
  <2> QED
    BY <1>7, <2>1, <2>2 DEF DivisionOf, n, y
<1> QED
  BY <1>1, <1>2, <1>5, <1>6, <1>7 DEF Quotient

LEMMA TwoOperands ==
  ASSUME NEW o \in Binary, NEW args \in Seq(Fixs), Len(args) = 2
  PROVE  /\ args[1] \in Fixs /\ args[2] \in Fixs
         /\ Opcode(o, args) = Turn(o, args[1], args[2])
         /\ First(Ivalues(args), 1) = args[1].value
         /\ Product(Others(Ivalues(args))) = args[2].value
<1>1. /\ args[1] \in Fixs /\ args[2] \in Fixs /\ Ivalues(args) \in Seq(Int) /\ Len(Ivalues(args)) = 2
      /\ Ivalues(args)[1] = args[1].value /\ Ivalues(args)[2] = args[2].value
  BY IvaluesFacts
<1>2. args # <<>>
  BY EmptySeq
<1> DEFINE rest == Tail(args)
<1>3. Head(args) = args[1] /\ rest \in Seq(Fixs) /\ Len(rest) = 1 /\ rest[1] = args[2]
  <2>1. /\ Head(args) = args[1] /\ rest \in Seq(Fixs) /\ Len(rest) = 2 - 1
        /\ \A i \in 1..Len(rest) : rest[i] = args[i + 1]
    BY <1>2, HeadTailProperties
  <2> HIDE DEF rest
  <2>2. 2 - 1 = 1 /\ 1 \in 1..1 /\ 1 + 1 = 2
    OBVIOUS
  <2> QED
    BY <2>1, <2>2
<1>4. Opcode(o, args) = Folded(o, Head(args), rest)
  BY OfIntegers DEF Opcode, StartsWithUnit, Comparisons, Binary
<1>5. PICK f : Turns(o, Head(args), rest, 1, f) /\ Opcode(o, args) = f[1]
  <2> HIDE DEF rest
  <2>1. Len(rest) \in Nat
    BY <1>3
  <2>2. PICK f : Turns(o, Head(args), rest, Len(rest), f) /\ Folded(o, Head(args), rest) = f[Len(rest)]
    BY <2>1, FoldedLoop
  <2> QED
    BY <1>3, <1>4, <2>2
<1>6. f[0] = args[1] /\ f[1] = After(o, f[0], args[2])
  <2>1. 1 \in 1..1 /\ 1 - 1 = 0
    OBVIOUS
  <2> QED
    BY <1>3, <1>5, <2>1 DEF Turns
<1>7. Opcode(o, args) = Turn(o, args[1], args[2])
  BY <1>1, <1>5, <1>6, FixsFacts DEF After
<1>8. First(Ivalues(args), 1) = args[1].value /\ Others(Ivalues(args)) = Ivalues(rest)
  <2>1. Ivalues(rest) = Tail(Ivalues(args))
    BY TailValues
  <2> QED
    BY <1>1, <2>1 DEF First, Others
<1> HIDE DEF rest
<1>9. Product(Ivalues(rest)) = args[2].value
  <2> DEFINE s == Ivalues(rest)
  <2>1. s \in Seq(Int) /\ Len(s) = 1 /\ s[1] = args[2].value /\ args[2].value \in Int
    <3>1. 1 \in 1..Len(rest)
      BY <1>3
    <3> QED
      BY <1>1, <1>3, <3>1, IvaluesFacts, FixsFacts
  <2> HIDE DEF s
  <2>2. PICK f1 \in [0..Len(s) -> Int] :
          /\ f1[0] = 1 /\ \A k \in 1..Len(s) : f1[k] = f1[k - 1] * s[k]
          /\ Product(s) = f1[Len(s)]
    BY <2>1, ProductLoop
  <2>3. 1 \in 1..1 /\ 1 - 1 = 0
    OBVIOUS
  <2>4. Product(s) = 1 * args[2].value
    BY <2>1, <2>2, <2>3
  <2> QED
    BY <2>1, <2>4 DEF s
<1> QED
  BY <1>1, <1>7, <1>8, <1>9

(* What num_rem and num_mod start from                                     *)
LEMMA Remainders ==
  ASSUME NEW a \in Longs, NEW b \in Longs, b # 0, NEW r, r = CRem(a, b)
  PROVE  /\ r \in Longs /\ r \in Int /\ a \in Int /\ b \in Int \ {0}
         /\ Magnitude(r) < Magnitude(b) /\ SameSign(r, a)
         /\ CQuo(a, b) \in Int /\ a - r = b * CQuo(a, b)
<1>1. a \in Int /\ b \in Int \ {0} /\ MaxLong \in Nat \ {0} /\ b >= -MaxLong - 1 /\ b <= MaxLong
  BY WordFacts DEF Longs
<1>2. /\ CQuo(a, b) \in Int /\ r \in Int /\ a = b * CQuo(a, b) + r
      /\ Magnitude(r) < Magnitude(b) /\ SameSign(r, a)
  BY <1>1, CQuoFacts
<1>3. r >= -MaxLong - 1 /\ r <= MaxLong
  BY <1>1, <1>2 DEF Magnitude
<1>4. b * CQuo(a, b) \in Int
  BY <1>1, <1>2
<1> QED
  BY <1>1, <1>2, <1>3, <1>4 DEF Longs

LEMMA RemainderRight ==
  ASSUME NEW args \in Seq(Fixs), Len(args) = 2
  PROVE  DivisionOf("remainder", args, Opcode("remainder", args))
<1> DEFINE a == args[1].value
           b == args[2].value
           y == Opcode("remainder", args)
<1>1. /\ args[1] \in Fixs /\ args[2] \in Fixs
      /\ y = IF b = 0 THEN Error ELSE num_rem(args[1], args[2])
      /\ First(Ivalues(args), 1) = a /\ Product(Others(Ivalues(args))) = b
  BY TwoOperands, TurnFacts DEF Binary
<1>2. a \in Longs /\ b \in Longs /\ Fixed(args[1], args[2]) /\ ivalue(args[1]) = a /\ ivalue(args[2]) = b
      /\ 2 \in DOMAIN args
  BY <1>1, FixsFacts, LenProperties DEF Fixed, ivalue
<1> HIDE DEF y
<1>3. CASE b = 0
  <2>1. y = Error /\ y.tag # "trap" /\ ~is_fixnum(y)
    BY <1>1, <1>3 DEF Error, is_fixnum
  <2> QED
    BY <1>1, <1>3, <2>1 DEF DivisionOf, y
<1>4. CASE b # 0 /\ Traps(a, b)
  <2>1. y = Trap /\ y.tag # "error" /\ ~is_fixnum(y) /\ a = MinLong /\ args[2].value = -1
    BY <1>1, <1>2, <1>4 DEF Trap, is_fixnum, num_rem, Traps
  <2> QED
    BY <1>1, <1>2, <2>1 DEF DivisionOf, y
<1>5. CASE b # 0 /\ ~Traps(a, b)
  <2> DEFINE r == CRem(a, b)
  <2>1. /\ r \in Longs /\ r \in Int /\ a \in Int /\ b \in Int \ {0}
        /\ Magnitude(r) < Magnitude(b) /\ SameSign(r, a)
        /\ CQuo(a, b) \in Int /\ a - r = b * CQuo(a, b)
    BY <1>2, <1>5, Remainders
  <2>2. y = Fix(IF r > 0 /\ a < 0 THEN Wrap(r - Wrap(Magnitude(b)))
                ELSE IF r < 0 /\ a > 0 THEN Wrap(r + Wrap(Magnitude(b))) ELSE r)
    BY <1>1, <1>2, <1>5 DEF num_rem, InLong
  <2> HIDE DEF r
  <2>3. ~(r > 0 /\ a < 0) /\ ~(r < 0 /\ a > 0)
    BY <2>1 DEF SameSign
  <2>4. y = Fix(r)
    BY <2>2, <2>3
  <2>5. y \in Fixs /\ is_fixnum(y) /\ y.value = r
    BY <2>1, <2>4, FixFacts
  <2>6. y.tag # "error" /\ y.tag # "trap"
    BY <2>5 DEF is_fixnum
  <2>7. (a - r) % Magnitude(b) = 0
    BY <2>1, Multiple
  <2> QED
    BY <1>1, <1>5, <2>1, <2>5, <2>6, <2>7 DEF DivisionOf, y
<1> QED
  BY <1>3, <1>4, <1>5

LEMMA ModuloRight ==
  ASSUME NEW args \in Seq(Fixs), Len(args) = 2
  PROVE  DivisionOf("modulo", args, Opcode("modulo", args))
<1> DEFINE a == args[1].value
           b == args[2].value
           y == Opcode("modulo", args)
<1>1. /\ args[1] \in Fixs /\ args[2] \in Fixs
      /\ y = IF b = 0 THEN Error ELSE num_mod(args[1], args[2])
      /\ First(Ivalues(args), 1) = a /\ Product(Others(Ivalues(args))) = b
  BY TwoOperands, TurnFacts DEF Binary
<1>2. a \in Longs /\ b \in Longs /\ Fixed(args[1], args[2]) /\ ivalue(args[1]) = a /\ ivalue(args[2]) = b
      /\ 2 \in DOMAIN args
  BY <1>1, FixsFacts, LenProperties DEF Fixed, ivalue
<1> HIDE DEF y
<1>3. CASE b = 0
  <2>1. y = Error /\ y.tag # "trap" /\ ~is_fixnum(y)
    BY <1>1, <1>3 DEF Error, is_fixnum
  <2> QED
    BY <1>1, <1>3, <2>1 DEF DivisionOf, y
<1>4. CASE b # 0 /\ Traps(a, b)
  <2>1. y = Trap /\ y.tag # "error" /\ ~is_fixnum(y) /\ a = MinLong /\ args[2].value = -1
    BY <1>1, <1>2, <1>4 DEF Trap, is_fixnum, num_mod, Traps
  <2> QED
    BY <1>1, <1>2, <2>1 DEF DivisionOf, y
<1>5. CASE b # 0 /\ ~Traps(a, b)
  <2> DEFINE r == CRem(a, b)
             z == IF r * b < 0 THEN r + b ELSE r
  <2>1. /\ r \in Longs /\ r \in Int /\ a \in Int /\ b \in Int \ {0}
        /\ Magnitude(r) < Magnitude(b) /\ SameSign(r, a)
        /\ CQuo(a, b) \in Int /\ a - r = b * CQuo(a, b)
    BY <1>2, <1>5, Remainders
  <2>2. y = Fix(IF Wrap(r * b) < 0 THEN Wrap(r + b) ELSE r)
    BY <1>1, <1>2, <1>5 DEF num_mod, InLong
  <2>3. is_fixnum(y) /\ y.tag # "error" /\ y.tag # "trap"
    BY <2>2 DEF Fix, is_fixnum
  <2> HIDE DEF r
  <2> SUFFICES ASSUME r * b \in Longs
               PROVE  /\ Magnitude(y.value) < Magnitude(b)
                      /\ (a - y.value) % Magnitude(b) = 0
                      /\ SameSign(y.value, b)
    BY <1>1, <1>5, <2>3 DEF DivisionOf, ProductFits, r, y
  <2>4. Wrap(r * b) = r * b /\ r * b \in Int
    BY WordFacts, WrapFacts
  <2>5. /\ b > 0 => -b < r /\ r < b
        /\ b < 0 => b < r /\ r < -b
    BY <2>1 DEF Magnitude
  <2>6. r * b < 0 <=> (r < 0 /\ b > 0) \/ (r > 0 /\ b < 0)
    BY <2>1
  <2> DEFINE c == b
  <2>7. /\ c \in Int \ {0} /\ r \in Int /\ (c > 0 => -c < r /\ r < c) /\ (c < 0 => c < r /\ r < -c)
        /\ r * c < 0 <=> (r < 0 /\ c > 0) \/ (r > 0 /\ c < 0)
    BY <2>1, <2>5, <2>6
  <2> HIDE DEF c
  <2>8. /\ z \in Int /\ Magnitude(z) < Magnitude(c) /\ SameSign(z, c)
    <3>1. CASE r * c < 0
      <4>1. z = r + c
        BY <3>1 DEF c
      <4> HIDE DEF z
      <4>2. CASE c > 0
        <5>1. r < 0 /\ z > 0 /\ z < c /\ z \in Int
          BY <2>7, <3>1, <4>1, <4>2
        <5> QED
          BY <2>7, <4>2, <5>1 DEF Magnitude, SameSign
      <4>3. CASE c < 0
        <5>1. r > 0 /\ z < 0 /\ z > c /\ z \in Int
          BY <2>7, <3>1, <4>1, <4>3
        <5> QED
          BY <2>7, <4>3, <5>1 DEF Magnitude, SameSign
      <4> QED
        BY <2>7, <4>2, <4>3
    <3>2. CASE ~(r * c < 0)
      <4>1. z = r
        BY <3>2 DEF c
      <4> HIDE DEF z
      <4> QED
        BY <2>7, <3>2, <4>1 DEF Magnitude, SameSign
    <3> QED
      BY <3>1, <3>2
  <2>9. (a - z) % Magnitude(c) = 0
    <3> DEFINE q == CQuo(a, b)
    <3>1. q \in Int /\ a - r = c * q /\ a \in Int /\ c * q \in Int
      BY <2>1 DEF c
    <3> HIDE DEF q
    <3>2. CASE z = r
      BY <2>7, <3>1, <3>2, Multiple
    <3>3. CASE z = r + c
      <4>1. a - z = c * (q - 1) /\ q - 1 \in Int
        BY <2>7, <3>1, <3>3
      <4> QED
        BY <2>7, <4>1, Multiple
    <3> QED
      BY <3>2, <3>3 DEF c
  <2>10. z \in Longs
    <3>1. MaxLong \in Nat \ {0} /\ c >= -MaxLong - 1 /\ c <= MaxLong
      BY <1>2, WordFacts DEF Longs, c
    <3> HIDE DEF z
    <3> QED
      BY <2>7, <2>8, <3>1 DEF Magnitude, Longs
  <2>11. y = Fix(z)
    <3>1. CASE r * b < 0
      <4>1. z = r + b /\ r + b \in Int
        BY <2>1, <3>1
      <4>2. Wrap(r + b) = r + b
        BY <2>10, <4>1, WrapFacts
      <4> QED
        BY <2>2, <2>4, <3>1, <4>1, <4>2
    <3>2. CASE ~(r * b < 0)
      BY <2>2, <2>4, <3>2
    <3> QED
      BY <3>1, <3>2
  <2> HIDE DEF z
  <2>12. y.value = z
    BY <2>8, <2>10, <2>11, FixFacts
  <2> QED
    BY <2>8, <2>9, <2>12 DEF c
<1> QED
  BY <1>3, <1>4, <1>5

----------------------------------------------------------------------------
(* What a call is given                                                    *)
Operands == Fixs \cup {Real(k) : k \in Reals}

LEMMA AllFixs ==
  ASSUME NEW args \in Seq(Operands), AllFixnums(args)
  PROVE  args \in Seq(Fixs)
<1>1. Len(args) \in Nat /\ args \in [1..Len(args) -> Operands] /\ DOMAIN args = 1..Len(args)
  BY LenProperties
<1>2. ASSUME NEW i \in 1..Len(args) PROVE args[i] \in Fixs
  <2>1. args[i] \in Operands /\ is_fixnum(args[i])
    BY <1>1 DEF AllFixnums
  <2> QED
    BY <2>1 DEF Operands, is_fixnum, Real
<1>3. args \in [1..Len(args) -> Fixs]
  BY <1>1, <1>2
<1> QED
  BY <1>1, <1>3, SeqDef

LEMMA ArityFacts ==
  /\ MaxArgs \in Nat
  /\ \A o \in {"-", "/", "quotient", "max", "min"} : Arity(o) = 1..MaxArgs
  /\ \A o \in Binary : Arity(o) = {2}
  /\ \A o \in Comparisons : Arity(o) = 2..MaxArgs
<1>1. MaxArgs \in Nat
  BY NumbersAssumption
<1>2. ASSUME NEW o \in {"-", "/", "quotient", "max", "min"} PROVE Arity(o) = 1..MaxArgs
  <2>1. o \notin {"+", "*"} /\ o \in {"-", "/", "quotient"} \cup Extremes
        /\ o \notin Divisors /\ o \notin Binary
    BY DEF Extremes, Divisors, Binary
  <2> QED
    BY <2>1 DEF Arity
<1>3. \A o \in Binary : Arity(o) = {2}
  BY DEF Arity, Binary, Extremes, Divisors
<1>4. \A o \in Comparisons : Arity(o) = 2..MaxArgs
  BY DEF Arity, Binary, Extremes, Divisors, Comparisons
<1> QED
  BY <1>1, <1>2, <1>3, <1>4

LEMMA DivisionRight ==
  ASSUME NEW o \in OnIntegers, NEW args \in Seq(Operands), Len(args) \in Arity(o), AllFixnums(args)
  PROVE  DivisionOf(o, args, Opcode(o, args))
<1>1. args \in Seq(Fixs) /\ Len(args) \in Nat
  BY AllFixs, LenProperties
<1>2. CASE o = "quotient"
  <2>1. Len(args) >= 1
    BY <1>1, <1>2, ArityFacts
  <2> QED
    BY <1>1, <1>2, <2>1, QuotientRight
<1>3. CASE o \in Binary
  <2>1. Arity(o) = {2}
    BY <1>3, ArityFacts
  <2>2. Len(args) = 2
    BY <2>1
  <2> QED
    BY <1>1, <1>3, <2>2, RemainderRight, ModuloRight DEF Binary
<1> QED
  BY <1>2, <1>3 DEF OnIntegers

(* What ArithmeticMeant says of the result of +, -, * or / of longs        *)
SumsOf(o, args, y) ==
  LET n == Ivalues(args)
      same(r) == (y.value - r) % Power[Width] = 0
  IN  AllFixnums(args) /\ is_fixnum(y) =>
        CASE o = "+" -> same(Sum(n))
          [] o = "*" -> same(Product(n))
          [] o = "-" -> same(First(n, 0) - Sum(Others(n)))
          [] o = "/" -> y.value * Product(Others(n)) = First(n, 1)

LEMMA SumsRight ==
  ASSUME NEW o \in {"+", "-", "*", "/"}, NEW args \in Seq(Operands), Len(args) \in Arity(o)
  PROVE  SumsOf(o, args, Opcode(o, args))
<1> SUFFICES ASSUME AllFixnums(args), is_fixnum(Opcode(o, args))
             PROVE  SumsOf(o, args, Opcode(o, args))
  BY DEF SumsOf
<1> DEFINE n == Ivalues(args)
           y == Opcode(o, args)
<1>1. args \in Seq(Fixs) /\ Len(args) \in Nat
  BY AllFixs, LenProperties
<1>2. /\ n \in Seq(Int) /\ Zero \in Fixs /\ One \in Fixs /\ Zero.value = 0 /\ One.value = 1
  BY <1>1, IvaluesFacts, UnitFacts
<1>3. CASE o = "+"
  <2>1. y = Folded("+", Zero, args)
    BY <1>3 DEF Opcode, StartsWithUnit, Unit, OnIntegers, Binary, Comparisons
  <2>2. Same(y.value, 0 + Sum(n))
    BY <1>1, <1>2, <2>1, Added
  <2>3. Sum(n) \in Int /\ 0 + Sum(n) = Sum(n)
    BY <1>1, <1>2, SumIsInt
  <2>4. (y.value - Sum(n)) % Power[Width] = 0
    BY <2>2, <2>3, SameMeans
  <2> QED
    BY <1>3, <2>4 DEF SumsOf
<1>4. CASE o = "*"
  <2>1. y = Folded("*", One, args)
    BY <1>4 DEF Opcode, StartsWithUnit, Unit, OnIntegers, Binary, Comparisons
  <2>2. Same(y.value, 1 * Product(n))
    BY <1>1, <1>2, <2>1, Multiplied
  <2>3. Product(n) \in Int /\ 1 * Product(n) = Product(n)
    BY <1>1, <1>2, SumIsInt
  <2>4. (y.value - Product(n)) % Power[Width] = 0
    BY <2>2, <2>3, SameMeans
  <2> QED
    BY <1>4, <2>4 DEF SumsOf
<1>5. o \in {"-", "/"} => Len(args) >= 1
  BY <1>1, ArityFacts
<1>6. CASE o = "-"
  <2>1. PICK start \in Fixs, rest \in Seq(Fixs) :
          /\ y = Folded("-", start, rest)
          /\ start.value = First(n, 0) /\ Ivalues(rest) = Others(n)
    <3>1. Unit("-").value = 0
      BY UnitFacts DEF Unit
    <3> QED
      BY ZenonT(60), <1>1, <1>5, <1>6, <3>1, Opened
  <2>2. Same(y.value, First(n, 0) - Sum(Others(n)))
    BY <2>1, Subtracted
  <2>3. (y.value - (First(n, 0) - Sum(Others(n)))) % Power[Width] = 0
    BY <2>2, SameMeans
  <2> QED
    BY <1>6, <2>3 DEF SumsOf
<1>7. CASE o = "/"
  <2>1. PICK start \in Fixs, rest \in Seq(Fixs) :
          /\ y = Folded("/", start, rest)
          /\ start.value = First(n, 1) /\ Ivalues(rest) = Others(n)
    <3>1. Unit("/").value = 1
      BY UnitFacts DEF Unit
    <3>2. Len(args) >= 1
      BY <1>5, <1>7
    <3>3. \E start \in Fixs : \E rest \in Seq(Fixs) :
            /\ Opcode("/", args) = Folded("/", start, rest)
            /\ start.value = First(Ivalues(args), Unit("/").value)
            /\ Ivalues(rest) = Others(Ivalues(args))
      BY <1>1, <3>2, Opened
    <3> QED
      BY <1>7, <3>1, <3>3
  <2>2. is_fixnum(Folded("/", start, rest))
    BY <1>7, <2>1
  <2>3. y.value * Product(Others(n)) = First(n, 1)
    BY <2>1, <2>2, DividedExactly
  <2> QED
    BY <1>7, <2>3 DEF SumsOf
<1> QED
  BY <1>3, <1>4, <1>6, <1>7

(* An operand has a value, and is not NaN.                                 *)
Told(n) == Value(n) \in Int /\ Value(n) # NaN /\ (is_fixnum(n) => n \in Fixs)

LEMMA FixTold ==
  ASSUME NEW n \in Fixs
  PROVE  Told(n) /\ Value(n) = n.value * UnitsPerOne
<1> DEFINE k == n.value
           h == Power[Width - 1]
           p == Power[Width + Precision + 1]
<1>1. k \in Longs /\ k \in Int /\ is_fixnum(n) /\ Value(n) = k * UnitsPerOne
  BY FixsFacts DEF Value
<1>2. Width \in Nat /\ Precision \in Nat /\ Width - 1 \in Nat /\ Width + Precision + 1 \in Nat
      /\ 2 * Width + Precision = (Width - 1) + (Width + Precision + 1)
      /\ Width + Precision + 1 = Width + (Precision + 1) /\ Precision + 1 \in Nat
  BY NumbersAssumption
<1>3. NaN = h * p /\ h \in Nat \ {0} /\ p \in Nat \ {0}
  <2> DEFINE m == Width - 1
             q == Width + Precision + 1
  <2>1. m \in Nat /\ q \in Nat
    BY <1>2
  <2> HIDE DEF m, q
  <2>2. Power[m + q] = Power[m] * Power[q] /\ Power[m] \in Nat \ {0} /\ Power[q] \in Nat \ {0}
    BY <2>1, PowerSum, PowerFacts
  <2>3. NaN = Power[m + q]
    BY <1>2 DEF NaN, m, q
  <2> QED
    BY <2>2, <2>3 DEF m, q
<1>4. p > UnitsPerOne
  <2>1. p = Power[Width] * Power[Precision + 1]
    BY <1>2, PowerSum
  <2>2. Power[Precision + 1] = 2 * Power[Precision] /\ Power[Precision] \in Nat \ {0}
        /\ Power[Width] \in Nat \ {0}
    BY <1>2, PowerFacts
  <2>3. Power[Width] * 2 <= Power[Width] * (2 * Power[Precision])
    BY <2>2
  <2> QED
    BY <2>1, <2>2, <2>3, UnitsFacts
<1>5. h = MaxLong + 1
  BY <1>3, NumbersAssumption, WordFacts
<1> HIDE DEF k, h, p
<1>6. k <= h
  BY <1>1, <1>3, <1>5, WordFacts DEF Longs
<1>7. k * UnitsPerOne \in Int /\ k * UnitsPerOne # h * p
  <2>1. k * UnitsPerOne <= h * UnitsPerOne
    BY <1>1, <1>3, <1>6, UnitsFacts
  <2>2. h * UnitsPerOne < h * p
    BY <1>3, <1>4, UnitsFacts
  <2>3. k * UnitsPerOne \in Int /\ h * UnitsPerOne \in Int /\ h * p \in Int
    BY <1>1, <1>3, UnitsFacts
  <2> QED
    BY <2>1, <2>2, <2>3
<1> QED
  BY <1>1, <1>3, <1>7 DEF Told, k

LEMMA OperandTold ==
  ASSUME NEW n \in Operands
  PROVE  Told(n) /\ (~is_fixnum(n) => rvalue(n) = Value(n) /\ Nearest[<<Value(n), 1>>] = Value(n))
<1>1. CASE n \in Fixs
  BY <1>1, FixTold, FixsFacts
<1>2. CASE n \in {Real(k) : k \in Reals}
  <2>1. PICK k \in Reals : n = Real(k)
    BY <1>2
  <2>2. ~is_fixnum(n) /\ Value(n) = k /\ rvalue(n) = k
    BY <2>1 DEF Real, is_fixnum, Value, rvalue
  <2> QED
    BY <2>1, <2>2, OperandsAssumption DEF Told
<1> QED
  BY <1>1, <1>2 DEF Operands

LEMMA UnitsOrder ==
  ASSUME NEW a \in Int, NEW b \in Int, NEW u \in Nat \ {0}
  PROVE  (a > b <=> a * u > b * u) /\ (a = b <=> a * u = b * u)
OBVIOUS

(* The comparisons tell the values of two numbers apart that are both longs*)
(* or both doubles, or longs that doubles can hold.                        *)
Tells(a, b) == /\ Told(a) /\ Told(b)
               /\ Fixed(a, b) \/ (rvalue(a) = Value(a) /\ rvalue(b) = Value(b))

LEMMA GreaterMeans ==
  ASSUME NEW a, NEW b, Tells(a, b)
  PROVE  /\ num_gt(a, b) <=> Value(a) > Value(b)
         /\ num_eq(a, b) <=> Value(a) = Value(b)
<1>1. CASE Fixed(a, b)
  <2>1. a \in Fixs /\ b \in Fixs
    BY <1>1 DEF Tells, Told, Fixed
  <2>2. /\ a.value \in Int /\ b.value \in Int
        /\ Value(a) = a.value * UnitsPerOne /\ Value(b) = b.value * UnitsPerOne
    BY <2>1, FixsFacts, FixTold
  <2>3. (num_gt(a, b) <=> a.value > b.value) /\ (num_eq(a, b) <=> a.value = b.value)
    BY <1>1 DEF num_gt, num_eq
  <2> QED
    BY <2>2, <2>3, UnitsOrder, UnitsFacts
<1>2. CASE ~Fixed(a, b)
  <2>1. /\ Value(a) \in Int /\ Value(b) \in Int /\ Value(a) # NaN /\ Value(b) # NaN
        /\ rvalue(a) = Value(a) /\ rvalue(b) = Value(b)
    BY <1>2 DEF Tells, Told
  <2> QED
    BY <1>2, <2>1 DEF num_gt, num_eq
<1> QED
  BY <1>1, <1>2

(* What a comparison says of two values                                    *)
Ordered(o, a, b) == CASE o = "=" -> a = b [] o = "<" -> a < b
                      [] o = ">" -> a > b [] o = "<=" -> a <= b
                      [] o = ">=" -> a >= b

LEMMA CompareMeans ==
  ASSUME NEW o \in Comparisons, NEW a, NEW b, Tells(a, b)
  PROVE  Compare(o, a, b) <=> Ordered(o, Value(a), Value(b))
<1>1. Tells(b, a) /\ Value(a) \in Int /\ Value(b) \in Int
  BY DEF Tells, Told, Fixed
<1>2. /\ num_gt(a, b) <=> Value(a) > Value(b)
      /\ num_gt(b, a) <=> Value(b) > Value(a)
      /\ num_eq(a, b) <=> Value(a) = Value(b)
  BY <1>1, GreaterMeans
<1>3. CASE o = "="
  BY <1>2, <1>3 DEF Compare, Ordered
<1>4. CASE o = "<"
  BY <1>1, <1>2, <1>4 DEF Compare, Ordered, num_lt
<1>5. CASE o = ">"
  BY <1>1, <1>2, <1>5 DEF Compare, Ordered
<1>6. CASE o = "<="
  BY <1>1, <1>2, <1>6 DEF Compare, Ordered, num_le
<1>7. CASE o = ">="
  BY <1>1, <1>2, <1>7 DEF Compare, Ordered, num_ge, num_lt
<1> QED
  BY <1>3, <1>4, <1>5, <1>6, <1>7 DEF Comparisons

LEMMA ComparableTells ==
  ASSUME NEW args \in Seq(Operands), Comparable(args), NEW i \in 1..Len(args), NEW j \in 1..Len(args)
  PROVE  Tells(args[i], args[j])
<1>1. args[i] \in Operands /\ args[j] \in Operands /\ i \in DOMAIN args /\ j \in DOMAIN args
  BY ElementOfSeq, LenProperties
<1>2. Told(args[i]) /\ Told(args[j])
  BY <1>1, OperandTold
<1> QED
  BY <1>1, <1>2 DEF Comparable, AllFixnums, Tells, Fixed

LEMMA ComparisonsRight ==
  ASSUME NEW o \in Comparisons, NEW args \in Seq(Operands), Comparable(args)
  PROVE  Opcode(o, args).value <=>
           \A i \in 1..(Len(args) - 1) : Ordered(o, Value(args[i]), Value(args[i + 1]))
<1>1. Opcode(o, args) = Bool(\A i \in 1..(Len(args) - 1) : Compare(o, args[i], args[i + 1]))
  BY DEF Opcode, OnIntegers, Binary, Comparisons
<1>2. Opcode(o, args).value = \A i \in 1..(Len(args) - 1) : Compare(o, args[i], args[i + 1])
  BY <1>1 DEF Bool
<1>3. ASSUME NEW i \in 1..(Len(args) - 1)
      PROVE  Compare(o, args[i], args[i + 1]) <=> Ordered(o, Value(args[i]), Value(args[i + 1]))
  <2>1. i \in 1..Len(args) /\ i + 1 \in 1..Len(args)
    BY LenProperties
  <2> QED
    BY <2>1, ComparableTells, CompareMeans
<1> QED
  BY <1>2, <1>3

----------------------------------------------------------------------------
(* gcd and lcm                                                             *)
Positive(n) == IF n = MinLong THEN MinLong ELSE Magnitude(n)

LEMMA AbsFacts ==
  ASSUME NEW a \in Fixs
  PROVE  abs(a) \in Fixs /\ abs(a).value = Positive(a.value)
<1> DEFINE n == a.value
<1>1. n \in Longs /\ n \in Int /\ Fixed(a, Zero) /\ Fixed(Zero, a) /\ Zero.value = 0
  BY FixsFacts, UnitFacts DEF Fixed
<1>2. num_ge(a, Zero) <=> ~(0 > n)
  BY <1>1 DEF num_ge, num_lt, num_gt
<1>3. num_sub(Zero, a) = Fix(0 - n) /\ 0 - n = -n /\ -n \in Int
  BY <1>1 DEF num_sub
<1>4. MaxLong \in Nat \ {0} /\ n >= -MaxLong - 1 /\ n <= MaxLong /\ MinLong < 0
  BY <1>1, WordFacts DEF Longs, MinLong
<1> HIDE DEF n
<1>5. CASE ~(0 > n)
  <2>1. abs(a) = a /\ Positive(n) = n
    BY <1>1, <1>2, <1>4, <1>5 DEF abs, Positive, Magnitude
  <2> QED
    BY <2>1 DEF n
<1>6. CASE 0 > n /\ n # MinLong
  <2>1. -n \in Longs /\ Positive(n) = -n
    BY <1>1, <1>4, <1>6 DEF Longs, MinLong, Positive, Magnitude
  <2>2. abs(a) = Fix(-n)
    BY <1>2, <1>3, <1>6 DEF abs
  <2> QED
    BY <1>3, <2>1, <2>2, FixFacts DEF n
<1>7. CASE 0 > n /\ n = MinLong
  <2>1. abs(a) = Fix(-n) /\ Positive(n) = MinLong
    BY <1>2, <1>3, <1>7 DEF abs, Positive
  <2>2. -n = MaxLong + 1 /\ -n \notin Longs
    BY <1>4, <1>7 DEF MinLong, Longs
  <2>3. (-n + MaxLong + 1) = 1 * (2 * MaxLong + 2) + 0 /\ 2 * MaxLong + 2 \in Nat \ {0}
    BY <1>4, <2>2
  <2>4. (1 * (2 * MaxLong + 2) + 0) % (2 * MaxLong + 2) = 0
    BY <2>3, ModUnique
  <2>5. Wrap(-n) = 0 - MaxLong - 1
    BY <2>2, <2>3, <2>4 DEF Wrap
  <2>6. Wrap(-n) = MinLong
    BY <1>4, <2>5 DEF MinLong
  <2> QED
    BY <1>3, <2>1, <2>6, FixFacts DEF n
<1> QED
  BY <1>5, <1>6, <1>7

LEMMA PositiveFacts ==
  ASSUME NEW n \in Longs
  PROVE  /\ n \in Int /\ Positive(n) \in Longs /\ Positive(n) \in Int
         /\ Positive(n) = n \/ Positive(n) = -n
         /\ Magnitude(Positive(n)) = Magnitude(n)
         /\ Positive(n) # -1 /\ (Positive(n) = 0 <=> n = 0)
         /\ Positive(n) >= 0 \/ Positive(n) = MinLong
<1>1. MaxLong \in Nat \ {0} /\ n \in Int /\ n >= -MaxLong - 1 /\ n <= MaxLong
  BY WordFacts DEF Longs
<1>2. CASE n = MinLong
  BY <1>1, <1>2, WordFacts DEF Positive, Magnitude, MinLong
<1>3. CASE n # MinLong
  BY <1>1, <1>3 DEF Positive, Magnitude, MinLong, Longs
<1> QED
  BY <1>2, <1>3

LEMMA DividesFacts ==
  ASSUME NEW h \in Int, NEW m \in Int, NEW n \in Int, NEW k \in Int
  PROVE  /\ Divides(h, 0)
         /\ Divides(h, n) <=> Divides(h, -n)
         /\ Divides(h, m) /\ Divides(h, n) => Divides(h, m * k + n) /\ Divides(h, m - n * k)
<1>1. 0 = h * 0
  OBVIOUS
<1>2. ASSUME NEW c \in Int, Divides(h, c) PROVE Divides(h, -c)
  <2>1. PICK q \in Int : c = h * q
    BY <1>2 DEF Divides
  <2>2. -c = h * (-q) /\ -q \in Int
    BY <2>1
  <2> QED
    BY <2>2 DEF Divides
<1>3. -n \in Int /\ -(-n) = n
  OBVIOUS
<1>4. ASSUME Divides(h, m), Divides(h, n) PROVE Divides(h, m * k + n) /\ Divides(h, m - n * k)
  <2>1. PICK p \in Int : m = h * p
    BY <1>4 DEF Divides
  <2>2. PICK q \in Int : n = h * q
    BY <1>4 DEF Divides
  <2>3. (h * p) * k + h * q = h * (p * k + q) /\ (h * p) - (h * q) * k = h * (p - q * k)
        /\ p * k + q \in Int /\ p - q * k \in Int
    OBVIOUS
  <2> QED
    BY <2>1, <2>2, <2>3 DEF Divides
<1>5. Divides(h, 0)
  BY <1>1 DEF Divides
<1>6. Divides(h, n) <=> Divides(h, -n)
  BY <1>2, <1>3
<1> QED
  BY <1>4, <1>5, <1>6

SameDivisors(a, b, c, d) ==
  \A h \in Nat \ {0} : Divides(h, a) /\ Divides(h, b) <=> Divides(h, c) /\ Divides(h, d)

LEMMA PositiveDivisors ==
  ASSUME NEW n \in Longs, NEW h \in Int
  PROVE  Divides(h, Positive(n)) <=> Divides(h, n)
BY PositiveFacts, DividesFacts

(* One turn of gcd                                                         *)
LEMMA RemainderTurn ==
  ASSUME NEW a \in Fixs, NEW b \in Fixs, b.value # 0
  PROVE  LET r == remainder(abs(a), abs(b))
         IN  /\ r \in Fixs /\ ~Stopped(r)
             /\ SameDivisors(abs(b).value, r.value, a.value, b.value)
<1> DEFINE m == Positive(a.value)
           n == Positive(b.value)
           r == remainder(abs(a), abs(b))
           s == CRem(m, n)
<1>1. a.value \in Longs /\ b.value \in Longs /\ abs(a) \in Fixs /\ abs(b) \in Fixs
      /\ abs(a).value = m /\ abs(b).value = n
  BY FixsFacts, AbsFacts
<1>2. m \in Longs /\ n \in Longs /\ n # 0 /\ n # -1 /\ m \in Int /\ n \in Int
  BY <1>1, PositiveFacts
<1>3. \A h \in Int : (Divides(h, m) <=> Divides(h, a.value)) /\ (Divides(h, n) <=> Divides(h, b.value))
  BY <1>1, PositiveDivisors
<1>4. Fixed(abs(a), abs(b)) /\ ivalue(abs(a)) = m /\ ivalue(abs(b)) = n
  BY <1>1, FixsFacts DEF Fixed, ivalue
<1> HIDE DEF m, n, s
<1>5. /\ s \in Longs /\ s \in Int /\ CQuo(m, n) \in Int /\ m - s = n * CQuo(m, n) /\ SameSign(s, m)
  BY <1>2, Remainders DEF s
<1>6. ~(s > 0 /\ m < 0) /\ ~(s < 0 /\ m > 0)
  BY <1>2, <1>5 DEF SameSign
<1>7. r = Fix(s)
  BY <1>2, <1>4, <1>6 DEF remainder, num_rem, Traps, InLong, s
<1>8. r \in Fixs /\ r.value = s /\ ~Stopped(r)
  BY <1>5, <1>7, FixFacts, FixsFacts
<1>9. ASSUME NEW h \in Nat \ {0}
      PROVE  Divides(h, n) /\ Divides(h, s) <=> Divides(h, a.value) /\ Divides(h, b.value)
  <2> DEFINE q == CQuo(m, n)
  <2>1. q \in Int /\ h \in Int /\ m = n * q + s /\ s = m - n * q
    <3>1. n * q \in Int
      BY <1>2, <1>5
    <3> QED
      BY <1>2, <1>5, <3>1
  <2> HIDE DEF q
  <2>2. Divides(h, n) /\ Divides(h, s) => Divides(h, m)
    <3>1. Divides(h, n) /\ Divides(h, s) => Divides(h, n * q + s)
      BY <1>2, <1>5, <2>1, DividesFacts
    <3> QED
      BY <2>1, <3>1
  <2>3. Divides(h, m) /\ Divides(h, n) => Divides(h, s)
    <3>1. Divides(h, m) /\ Divides(h, n) => Divides(h, m - n * q)
      BY ONLY <1>2, <2>1, DividesFacts
    <3> QED
      BY <2>1, <3>1
  <2> QED
    BY <1>3, <2>1, <2>2, <2>3
<1> QED
  BY <1>1, <1>8, <1>9 DEF SameDivisors, r

LEMMA DividesBound ==
  ASSUME NEW h \in Nat \ {0}, NEW n \in Int, n # 0, Divides(h, n)
  PROVE  h <= Magnitude(n)
<1>1. PICK q \in Int : n = h * q
  BY DEF Divides
<1>2. q # 0
  BY <1>1
<1>3. CASE q > 0
  <2>1. h * 1 <= h * q
    BY <1>3
  <2> QED
    BY <1>1, <2>1 DEF Magnitude
<1>4. CASE q < 0
  <2>1. h * 1 <= h * (-q) /\ h * (-q) = -(h * q)
    BY <1>4
  <2> QED
    BY <1>1, <2>1 DEF Magnitude
<1> QED
  BY <1>2, <1>3, <1>4

LEMMA MagnitudeDivides ==
  ASSUME NEW n \in Int, n # 0
  PROVE  Magnitude(n) \in Nat \ {0} /\ Divides(Magnitude(n), n)
<1>1. CASE n > 0
  <2>1. n = n * 1 /\ Magnitude(n) = n
    BY <1>1 DEF Magnitude
  <2> QED
    BY <1>1, <2>1 DEF Divides
<1>2. CASE n < 0
  <2>1. n = (-n) * (-1) /\ Magnitude(n) = -n
    BY <1>2 DEF Magnitude
  <2> QED
    BY <1>2, <2>1 DEF Divides
<1> QED
  BY <1>1, <1>2

(* What a long and zero have in common is what the long has: it is the     *)
(* greatest common divisor of two others that have that in common.         *)
LEMMA GreatestMeans ==
  ASSUME NEW a \in Longs, NEW b \in Longs, NEW c \in Longs, SameDivisors(c, 0, a, b)
  PROVE  Magnitude(c) = Greatest(a, b)
<1>1. a \in Int /\ b \in Int /\ c \in Int
  BY WordFacts
<1>2. \A h \in Nat \ {0} : Divides(h, c) <=> Divides(h, a) /\ Divides(h, b)
  <2>1. \A h \in Nat \ {0} : Divides(h, 0)
    BY DividesFacts
  <2> QED
    BY <2>1 DEF SameDivisors
<1>3. CASE a = 0 /\ b = 0
  <2> SUFFICES ASSUME c # 0 PROVE FALSE
    BY <1>1, <1>3 DEF Greatest, Magnitude
  <2> DEFINE h == Magnitude(c) + 1
  <2>1. h \in Nat \ {0} /\ ~(h <= Magnitude(c))
    BY <1>1 DEF Magnitude
  <2> HIDE DEF h
  <2>2. Divides(h, a) /\ Divides(h, b)
    BY <1>3, <2>1, DividesFacts
  <2>3. Divides(h, c)
    BY <1>2, <2>1, <2>2
  <2> QED
    BY <1>1, <2>1, <2>3, DividesBound
<1>4. CASE ~(a = 0 /\ b = 0)
  <2> DEFINE m == Magnitude(c)
             L == -MinLong
             Is(g) == /\ a % g = 0 /\ b % g = 0
                      /\ \A h \in (g + 1)..L : a % h # 0 \/ b % h # 0
  <2>1. c # 0
    <3> SUFFICES ASSUME c = 0 PROVE FALSE
      OBVIOUS
    <3>1. \A h \in Nat \ {0} : Divides(h, a) /\ Divides(h, b)
      BY <1>2, DividesFacts
    <3>2. ASSUME NEW n \in {a, b} PROVE n = 0
      <4> SUFFICES ASSUME n # 0 PROVE FALSE
        OBVIOUS
      <4> DEFINE h == Magnitude(n) + 1
      <4>1. n \in Int /\ h \in Nat \ {0} /\ ~(h <= Magnitude(n))
        BY <1>1 DEF Magnitude
      <4> HIDE DEF h
      <4>2. Divides(h, n)
        BY <3>1, <4>1
      <4> QED
        BY <4>1, <4>2, DividesBound
    <3> QED
      BY <1>4, <3>2
  <2>2. m \in Nat \ {0} /\ Divides(m, c) /\ m \in 1..L /\ L \in Nat
    <3>1. MaxLong \in Nat \ {0} /\ c >= -MaxLong - 1 /\ c <= MaxLong /\ L = MaxLong + 1
      BY WordFacts DEF Longs, MinLong
    <3> QED
      BY <1>1, <2>1, <3>1, MagnitudeDivides DEF Magnitude
  <2>3. \A h \in Nat \ {0} : a % h = 0 /\ b % h = 0 <=> Divides(h, c)
    BY <1>1, <1>2, DividesMeans
  <2>4. \A h \in Nat \ {0} : Divides(h, c) => h <= m
    BY <1>1, <2>1, DividesBound
  <2> HIDE DEF m, L
  <2>5. Is(m)
    <3>1. \A h \in (m + 1)..L : h \in Nat \ {0} /\ ~(h <= m)
      BY <2>2
    <3> QED
      BY <2>2, <2>3, <2>4, <3>1
  <2>6. ASSUME NEW g \in 1..L, Is(g) PROVE g = m
    <3>1. g \in Nat \ {0} /\ g <= m
      BY <2>2, <2>3, <2>4, <2>6
    <3>2. ~(g < m)
      <4> SUFFICES ASSUME g < m PROVE FALSE
        OBVIOUS
      <4>1. m \in (g + 1)..L
        BY <2>2, <3>1
      <4> QED
        BY <2>2, <2>3, <2>6, <4>1
    <3> QED
      BY <2>2, <3>1, <3>2
  <2>7. Greatest(a, b) = CHOOSE g \in 1..L : Is(g)
    BY <1>4 DEF Greatest, L
  <2> HIDE DEF Is
  <2> QED
    BY <2>2, <2>5, <2>6, <2>7 DEF m
<1> QED
  BY <1>3, <1>4

LEMMA MagnitudeTimes ==
  ASSUME NEW a \in Int, NEW b \in Int
  PROVE  a * b \in Int /\ Magnitude(a * b) = Magnitude(a) * Magnitude(b)
<1>1. a * b \in Int /\ (-a) * (-b) = a * b /\ (-a) * b = -(a * b) /\ a * (-b) = -(a * b)
  OBVIOUS
<1>2. CASE a >= 0 /\ b >= 0
  <2>1. ~(a * b < 0)
    BY <1>2
  <2> QED
    BY <1>1, <1>2, <2>1 DEF Magnitude
<1>3. CASE a < 0 /\ b < 0
  <2>1. ~(a * b < 0)
    BY <1>3
  <2> QED
    BY <1>1, <1>3, <2>1 DEF Magnitude
<1>4. CASE a < 0 /\ b >= 0
  <2>1. Magnitude(a) = -a /\ Magnitude(b) = b
    BY <1>4 DEF Magnitude
  <2>2. CASE b > 0
    <3>1. a * b < 0
      BY <1>4, <2>2
    <3> QED
      BY <1>1, <2>1, <3>1 DEF Magnitude
  <2>3. CASE b <= 0
    <3>1. b = 0 /\ a * 0 = 0 /\ (-a) * 0 = 0
      BY <1>4, <2>3
    <3> QED
      BY <2>1, <3>1 DEF Magnitude
  <2> QED
    BY <2>2, <2>3
<1>5. CASE a >= 0 /\ b < 0
  <2>1. Magnitude(a) = a /\ Magnitude(b) = -b
    BY <1>5 DEF Magnitude
  <2>2. CASE a > 0
    <3>1. a * b < 0
      BY <1>5, <2>2
    <3> QED
      BY <1>1, <2>1, <3>1 DEF Magnitude
  <2>3. CASE a <= 0
    <3>1. a = 0 /\ 0 * b = 0 /\ 0 * (-b) = 0
      BY <1>5, <2>3
    <3> QED
      BY <2>1, <3>1 DEF Magnitude
  <2> QED
    BY <2>2, <2>3
<1> QED
  BY <1>2, <1>3, <1>4, <1>5

LEMMA ExactQuotient ==
  ASSUME NEW m \in Int, NEW d \in Int \ {0}, Divides(Magnitude(d), m)
  PROVE  CQuo(m, d) \in Int /\ m = d * CQuo(m, d)
<1> DEFINE q == CQuo(m, d)
           r == CRem(m, d)
           h == Magnitude(d)
<1>1. q \in Int /\ r \in Int /\ m = d * q + r /\ Magnitude(r) < h /\ d * q \in Int
  <2>1. q \in Int /\ r \in Int /\ m = d * q + r /\ Magnitude(r) < h
    BY CQuoFacts
  <2> HIDE DEF q, r
  <2> QED
    BY <2>1
<1>2. h \in Nat \ {0} /\ Divides(h, d) /\ Divides(h, m)
  BY MagnitudeDivides
<1> HIDE DEF q, r, h
<1>3. Divides(h, m - d * q)
  <2>1. h \in Int /\ m \in Int /\ d \in Int
    BY <1>2
  <2> QED
    BY ONLY <1>1, <1>2, <2>1, DividesFacts
<1>4. m - d * q = r
  BY <1>1
<1>5. r = 0
  BY <1>1, <1>2, <1>3, <1>4, DividesBound DEF Magnitude
<1> QED
  BY <1>1, <1>5 DEF q

LEMMA LcmRight ==
  ASSUME NEW a \in Fixs, NEW b \in Fixs, a.value # 0, b.value # 0,
         NEW g \in Fixs, g.value # -1,
         Magnitude(g.value) = Greatest(a.value, b.value),
         g.value # 0, Divides(Magnitude(g.value), a.value)
  PROVE  LET r == abs(num_mul(num_intdiv(abs(a), g), abs(b)))
             l == Magnitude(a.value * b.value) \div Greatest(a.value, b.value)
         IN  r \in Fixs /\ (l \in Longs => r.value = l /\ l >= 0)
<1> DEFINE m == Positive(a.value)
           n == Positive(b.value)
           d == g.value
           q == CQuo(m, d)
           h == Greatest(a.value, b.value)
           l == Magnitude(a.value * b.value) \div h
<1>1. /\ abs(a) \in Fixs /\ abs(b) \in Fixs /\ abs(a).value = m /\ abs(b).value = n
      /\ a.value \in Longs /\ b.value \in Longs /\ d \in Longs /\ d \in Int
  BY AbsFacts, FixsFacts
<1>2. /\ m \in Longs /\ n \in Longs /\ m \in Int /\ n \in Int /\ a.value \in Int /\ b.value \in Int
      /\ Magnitude(m) = Magnitude(a.value) /\ Magnitude(n) = Magnitude(b.value)
      /\ Divides(Magnitude(d), m)
  <2>1. Magnitude(d) \in Int
    BY <1>1 DEF Magnitude
  <2> QED
    BY <1>1, <2>1, PositiveFacts, PositiveDivisors
<1>3. Fixed(abs(a), g) /\ ~Traps(m, d) /\ Magnitude(d) = h
  BY <1>1, FixsFacts DEF Fixed, Traps
<1>4. num_intdiv(abs(a), g) = Fix(q)
  BY <1>1, <1>3 DEF num_intdiv
<1> HIDE DEF m, n, h, d
<1>5. d \in Int \ {0} /\ d \in Longs \ {0}
  BY <1>1 DEF d
<1>6. q \in Int /\ m = d * q /\ q \in Longs
  BY <1>2, <1>3, <1>5, ExactQuotient, CQuoLong
<1> HIDE DEF q
<1> DEFINE p == q * n
<1>7. num_mul(Fix(q), abs(b)) = Fix(p)
  <2>1. Fix(q).value = q /\ Fixed(Fix(q), abs(b)) /\ abs(b).value = n
    BY <1>1, <1>6, FixFacts, FixsFacts DEF Fixed
  <2> HIDE DEF p
  <2> QED
    BY <2>1 DEF num_mul, p
<1>8. p \in Int
  BY <1>2, <1>6
<1>9. Magnitude(p) * h = Magnitude(a.value * b.value) /\ Magnitude(p) \in Nat /\ h \in Nat \ {0}
  <2>1. Magnitude(p) = Magnitude(q) * Magnitude(n)
    BY <1>2, <1>6, MagnitudeTimes
  <2>2. Magnitude(m) = Magnitude(d) * Magnitude(q)
    BY <1>5, <1>6, MagnitudeTimes
  <2>3. Magnitude(a.value * b.value) = Magnitude(m) * Magnitude(n)
    BY <1>2, MagnitudeTimes
  <2>4. Magnitude(q) \in Nat /\ Magnitude(n) \in Nat /\ h \in Nat \ {0} /\ Magnitude(p) \in Nat
    BY <1>2, <1>3, <1>5, <1>6, <1>8 DEF Magnitude
  <2> DEFINE r == Magnitude(q)
             s == Magnitude(n)
  <2>5. r \in Nat /\ s \in Nat
    BY <2>4
  <2> HIDE DEF r, s
  <2>6. (r * s) * h = (h * r) * s
    BY <2>4, <2>5
  <2> QED
    BY <1>3, <2>1, <2>2, <2>3, <2>4, <2>6 DEF r, s
<1>10. l = Magnitude(p)
  <2> DEFINE r == Magnitude(p)
  <2>1. r \in Nat /\ h \in Nat \ {0}
    BY <1>9
  <2> HIDE DEF r
  <2>2. (r * h) \div h = r
    BY <2>1
  <2> QED
    BY <1>9, <2>2 DEF r
<1> HIDE DEF l, p
<1>11. Fix(p) \in Fixs /\ abs(Fix(p)) \in Fixs /\ abs(Fix(p)).value = Positive(Fix(p).value)
  BY <1>8, FixFacts, AbsFacts
<1>12. ASSUME l \in Longs PROVE abs(Fix(p)).value = l /\ l >= 0
  <2>1. MaxLong \in Nat \ {0} /\ Magnitude(p) <= MaxLong /\ Magnitude(p) \in Nat
    BY <1>9, <1>10, <1>12, WordFacts DEF Longs
  <2>2. p \in Longs /\ p # MinLong
    BY <1>8, <2>1 DEF Longs, Magnitude, MinLong
  <2>3. Fix(p).value = p
    BY <1>8, <2>2, FixFacts
  <2> QED
    BY <1>9, <1>10, <1>11, <2>2, <2>3 DEF Positive
<1>13. abs(num_mul(num_intdiv(abs(a), g), abs(b))) = abs(Fix(p))
  BY <1>4, <1>7
<1> QED
  BY <1>11, <1>12, <1>13 DEF l, h

(* What DivisorsMeant says of one call with two arguments                  *)
DivisorsOf(o, args, y) ==
  LET a == args[1].value
      b == args[2].value
      g == Greatest(a, b)
      n == Magnitude(a * b)
  IN  /\ is_fixnum(y)
      /\ y.value >= 0 \/ y.value = MinLong \/ (o = "lcm" /\ n \div g \notin Longs)
      /\ o = "gcd" => Magnitude(y.value) = g
      /\ o = "lcm" /\ n = 0 => y.value = 0
      /\ o = "lcm" /\ n # 0 /\ n \div g \in Longs => y.value = n \div g

(* What the loop of gcd keeps: its two numbers have the divisors in common *)
(* that the arguments have, and lcm does not come here with a zero.        *)
GcdLoop(o, args, s) ==
  AllFixnums(args) =>
    /\ s \in Fixs \X Fixs
    /\ SameDivisors(s[1].value, s[2].value, args[1].value, args[2].value)
    /\ o = "lcm" => args[1].value # 0 /\ args[2].value # 0

GcdEnd(o, args, g) ==
  IF o = "gcd" THEN g ELSE abs(num_mul(num_intdiv(abs(args[1]), g), abs(args[2])))

LEMMA GcdRight ==
  ASSUME NEW o \in Divisors, NEW args \in Seq(Fixs), Len(args) = 2, AllFixnums(args),
         NEW s, GcdLoop(o, args, s), s[2].value = 0
  PROVE  DivisorsOf(o, args, GcdEnd(o, args, abs(s[1])))
<1> DEFINE a == args[1].value
           b == args[2].value
           c == Positive(s[1].value)
           g == abs(s[1])
<1>1. args[1] \in Fixs /\ args[2] \in Fixs
  BY IvaluesFacts
<1>2. /\ s[1] \in Fixs /\ s[2] \in Fixs
      /\ SameDivisors(s[1].value, 0, a, b)
      /\ o = "lcm" => a # 0 /\ b # 0
  BY DEF GcdLoop
<1>3. /\ a \in Longs /\ b \in Longs /\ a \in Int /\ b \in Int /\ s[1].value \in Longs
      /\ g \in Fixs /\ g.value = c /\ is_fixnum(g)
  BY <1>1, <1>2, FixsFacts, AbsFacts
<1>4. /\ c \in Longs /\ c \in Int /\ c # -1 /\ (c >= 0 \/ c = MinLong)
  BY <1>3, PositiveFacts
<1>5. SameDivisors(c, 0, a, b)
  BY <1>2, <1>3, PositiveDivisors DEF SameDivisors
<1> HIDE DEF c, g
<1>6. Magnitude(c) = Greatest(a, b)
  BY <1>3, <1>4, <1>5, GreatestMeans
<1>7. CASE o = "gcd"
  BY <1>3, <1>4, <1>6, <1>7 DEF DivisorsOf, GcdEnd, g
<1>8. CASE o = "lcm"
  <2>1. a # 0 /\ b # 0
    BY <1>2, <1>8
  <2>2. \A h \in Nat \ {0} : Divides(h, c) => Divides(h, a)
    <3>1. \A h \in Nat \ {0} : Divides(h, 0)
      BY DividesFacts
    <3> QED
      BY <1>5, <3>1 DEF SameDivisors
  <2>3. c # 0
    <3> SUFFICES ASSUME c = 0 PROVE FALSE
      OBVIOUS
    <3> DEFINE h == Magnitude(a) + 1
    <3>1. h \in Nat \ {0} /\ ~(h <= Magnitude(a))
      BY <1>3 DEF Magnitude
    <3> HIDE DEF h
    <3>2. Divides(h, a)
      BY <2>2, <3>1, DividesFacts
    <3> QED
      BY <1>3, <2>1, <3>1, <3>2, DividesBound
  <2>4. Divides(Magnitude(c), a)
    BY <1>4, <2>2, <2>3, MagnitudeDivides
  <2> DEFINE y == abs(num_mul(num_intdiv(abs(args[1]), g), abs(args[2])))
             l == Magnitude(a * b) \div Greatest(a, b)
  <2>5. y \in Fixs /\ (l \in Longs => y.value = l /\ l >= 0)
    BY <1>1, <1>3, <1>4, <1>6, <2>1, <2>3, <2>4, LcmRight
  <2>6. Magnitude(a * b) # 0
    <3>1. a * b \in Int /\ a * b # 0
      BY <1>3, <2>1
    <3> QED
      BY <3>1, MagnitudeDivides
  <2> HIDE DEF y
  <2>7. is_fixnum(y)
    BY <2>5, FixsFacts
  <2>8. GcdEnd(o, args, abs(s[1])) = y
    BY <1>8 DEF GcdEnd, y, g
  <2> QED
    BY <1>8, <2>5, <2>6, <2>7, <2>8 DEF DivisorsOf
<1> QED
  BY <1>7, <1>8 DEF Divisors

----------------------------------------------------------------------------
(* max and min                                                             *)
NoBetter(o, p, q) == IF o = "max" THEN p <= q ELSE p >= q

(* A number that doubles hold exactly                                      *)
Exact(n) == Told(n) /\ rvalue(n) = Value(n) /\ Nearest[<<Value(n), 1>>] = Value(n)

LEMMA InexactFacts ==
  ASSUME NEW n, Exact(n)
  PROVE  Exact(Inexact(n)) /\ Value(Inexact(n)) = Value(n)
<1> DEFINE k == Value(n)
<1>1. k \in Int /\ k # NaN /\ rvalue(n) = k /\ Nearest[<<k, 1>>] = k
  BY DEF Exact, Told
<1>2. NaN \in Nat \ {0}
  BY NumbersAssumption, PowerFacts DEF NaN
<1>3. ~Fixed(n, Real(0)) /\ rvalue(Real(0)) = 0
  BY DEF Fixed, Real, is_fixnum, rvalue
<1> HIDE DEF k
<1>4. k + 0 = k /\ NaN \notin {k, 0}
  BY <1>1, <1>2
<1>5. Inexact(n) = Real(k)
  BY <1>1, <1>3, <1>4 DEF Inexact, num_add, Rounded
<1>6. Value(Real(k)) = k /\ rvalue(Real(k)) = k /\ ~is_fixnum(Real(k))
  BY DEF Real, Value, rvalue, is_fixnum
<1> QED
  BY <1>1, <1>5, <1>6 DEF Exact, Told, k

(* The better of two longs, and of two numbers that doubles hold           *)
IsBetter(o, a, b, r) ==
  /\ Value(r) = Value(a) \/ Value(r) = Value(b)
  /\ NoBetter(o, Value(a), Value(r)) /\ NoBetter(o, Value(b), Value(r))

LEMMA BetterMeans ==
  ASSUME NEW o \in Extremes, NEW a, NEW b, Tells(a, b),
         NEW r, IF IF o = "max" THEN num_gt(a, b) ELSE num_lt(a, b)
                THEN Value(r) = Value(a) ELSE Value(r) = Value(b)
  PROVE  IsBetter(o, a, b, r)
<1>1. Tells(b, a) /\ Value(a) \in Int /\ Value(b) \in Int
  BY DEF Tells, Told, Fixed
<1>2. (num_gt(a, b) <=> Value(a) > Value(b)) /\ (num_lt(a, b) <=> Value(b) > Value(a))
  BY <1>1, GreaterMeans DEF num_lt
<1>3. CASE o = "max"
  <2>1. Value(r) = IF Value(a) > Value(b) THEN Value(a) ELSE Value(b)
    BY <1>2, <1>3
  <2> QED
    BY <1>1, <1>3, <2>1 DEF IsBetter, NoBetter
<1>4. CASE o # "max"
  <2>1. Value(r) = IF Value(b) > Value(a) THEN Value(a) ELSE Value(b)
    BY <1>2, <1>4
  <2> QED
    BY <1>1, <1>4, <2>1 DEF IsBetter, NoBetter
<1> QED
  BY <1>3, <1>4

LEMMA BetterLongs ==
  ASSUME NEW o \in Extremes, NEW a \in Fixs, NEW b \in Fixs
  PROVE  Better(o, a, b) \in Fixs /\ IsBetter(o, a, b, Better(o, a, b))
<1>1. Tells(a, b) /\ is_integer(a) /\ is_integer(b)
  BY FixTold, FixsFacts DEF Tells, Fixed, is_integer
<1>2. Better(o, a, b) = IF IF o = "max" THEN num_gt(a, b) ELSE num_lt(a, b) THEN a ELSE b
  BY <1>1 DEF Better
<1>3. IF IF o = "max" THEN num_gt(a, b) ELSE num_lt(a, b)
      THEN Value(Better(o, a, b)) = Value(a) ELSE Value(Better(o, a, b)) = Value(b)
  BY <1>2
<1> QED
  BY <1>1, <1>2, <1>3, BetterMeans

LEMMA BetterExact ==
  ASSUME NEW o \in Extremes, NEW a, NEW b, Exact(a), Exact(b)
  PROVE  Exact(Better(o, a, b)) /\ IsBetter(o, a, b, Better(o, a, b))
<1>1. Tells(a, b)
  BY DEF Exact, Tells
<1>2. /\ Exact(Inexact(a)) /\ Value(Inexact(a)) = Value(a)
      /\ Exact(Inexact(b)) /\ Value(Inexact(b)) = Value(b)
  BY InexactFacts
<1>3. IF IF o = "max" THEN num_gt(a, b) ELSE num_lt(a, b)
      THEN Better(o, a, b) \in {a, Inexact(a)} ELSE Better(o, a, b) \in {b, Inexact(b)}
  BY DEF Better
<1>4. IF IF o = "max" THEN num_gt(a, b) ELSE num_lt(a, b)
      THEN Value(Better(o, a, b)) = Value(a) ELSE Value(Better(o, a, b)) = Value(b)
  BY <1>2, <1>3
<1> QED
  BY <1>1, <1>2, <1>3, <1>4, BetterMeans

(* What the loop has found in the first j arguments                        *)
Kind(args, n) == IF AllFixnums(args) THEN n \in Fixs ELSE Exact(n)
Best(o, args, j, y) ==
  /\ \E i \in 1..j : Value(y) = Value(args[i])
  /\ \A i \in 1..j : NoBetter(o, Value(args[i]), Value(y))
  /\ Kind(args, y)

LEMMA ArgumentKind ==
  ASSUME NEW args \in Seq(Operands), Comparable(args), NEW i \in 1..Len(args)
  PROVE  Kind(args, args[i]) /\ Value(args[i]) \in Int
<1>1. args[i] \in Operands /\ i \in DOMAIN args
  BY ElementOfSeq, LenProperties
<1>2. Told(args[i]) /\ (~is_fixnum(args[i]) => Nearest[<<Value(args[i]), 1>>] = Value(args[i]))
  BY <1>1, OperandTold
<1>3. CASE AllFixnums(args)
  BY <1>1, <1>2, <1>3 DEF Kind, AllFixnums, Told
<1>4. CASE ~AllFixnums(args)
  <2>1. rvalue(args[i]) = Value(args[i])
    BY <1>1, <1>4 DEF Comparable
  <2>2. CASE is_fixnum(args[i])
    <3>1. args[i] \in Fixs /\ args[i].value \in Longs
      BY <1>2, <2>2, FixsFacts DEF Told
    <3>2. rvalue(args[i]) = Nearest[<<args[i].value * UnitsPerOne, 1>>]
          /\ Value(args[i]) = args[i].value * UnitsPerOne
      BY <2>2, <3>1 DEF rvalue, ToDouble, Value
    <3>3. Nearest[<<Value(args[i]), 1>>] = Value(args[i])
      BY ONLY <2>1, <3>2
    <3>4. Exact(args[i])
      BY <1>2, <2>1, <3>3 DEF Exact
    <3> QED
      BY <1>2, <1>4, <3>4 DEF Kind, Told
  <2>3. CASE ~is_fixnum(args[i])
    <3>1. Exact(args[i])
      BY <1>2, <2>1, <2>3 DEF Exact
    <3> QED
      BY <1>2, <1>4, <3>1 DEF Kind, Told
  <2> QED
    BY <2>2, <2>3
<1> QED
  BY <1>2, <1>3, <1>4 DEF Told

LEMMA BestTurn ==
  ASSUME NEW o \in Extremes, NEW args \in Seq(Operands), Comparable(args),
         NEW j \in 1..(Len(args) - 1), NEW y, Best(o, args, j, y)
  PROVE  Best(o, args, j + 1, Better(o, y, args[j + 1]))
<1> DEFINE b == args[j + 1]
           r == Better(o, y, b)
<1>1. Len(args) \in Nat /\ j \in Nat /\ j + 1 \in 1..Len(args)
  BY LenProperties
<1>2. Kind(args, b) /\ Value(b) \in Int /\ \A i \in 1..j : Value(args[i]) \in Int
  <2>1. \A i \in 1..j : i \in 1..Len(args)
    BY <1>1
  <2> QED
    BY <1>1, <2>1, ArgumentKind
<1>3. Kind(args, r) /\ IsBetter(o, y, b, r)
  BY <1>2, BetterLongs, BetterExact DEF Kind, Best
<1> HIDE DEF r
<1>4. PICK i \in 1..j : Value(y) = Value(args[i])
  BY DEF Best
<1>5. Value(y) \in Int /\ Value(r) \in Int
  BY <1>2, <1>3, <1>4 DEF IsBetter
<1>6. \E k \in 1..(j + 1) : Value(r) = Value(args[k])
  <2>1. i \in 1..(j + 1) /\ j + 1 \in 1..(j + 1)
    BY <1>1
  <2> QED
    BY <1>3, <1>4, <2>1 DEF IsBetter
<1>7. ASSUME NEW k \in 1..(j + 1) PROVE NoBetter(o, Value(args[k]), Value(r))
  <2>1. CASE k = j + 1
    BY <1>3, <2>1 DEF IsBetter
  <2>2. CASE k \in 1..j
    <3>1. NoBetter(o, Value(args[k]), Value(y)) /\ NoBetter(o, Value(y), Value(r))
      BY <1>3, <2>2 DEF Best, IsBetter
    <3> QED
      BY <1>2, <1>5, <2>2, <3>1 DEF NoBetter
  <2> QED
    BY <1>1, <2>1, <2>2
<1> QED
  BY <1>3, <1>6, <1>7 DEF Best, r


----------------------------------------------------------------------------
(* random-next                                                             *)

(* The modulus is the multiplier times Q, and R.                           *)
LEMMA Modulus ==
  /\ A \in Nat \ {0} /\ M \in Nat \ {0, 1} /\ MaxLong \in Nat /\ M <= MaxLong
  /\ Q \in Nat \ {0} /\ R \in Nat /\ R < Q
  /\ M = A * Q + R
<1>1. Q \in Nat /\ R \in Nat /\ M = A * Q + R
  BY RandomAssumption, DivMod DEF Q, R
<1> QED
  BY <1>1, RandomAssumption

(* For a seed s that is not negative, of which Q goes k times and leaves t:*)
(* both products are less than M and their difference is A * s but for k   *)
(* times M.                                                                *)
LEMMA Schrage ==
  ASSUME NEW s \in 0..(M - 1),
         NEW k, k = s \div Q,
         NEW t, t = s - k * Q
  PROVE  /\ k \in Nat /\ t \in Nat /\ k * Q \in 0..s
         /\ A * t \in 0..(M - 1) /\ k * R \in 0..(M - 1)
         /\ A * s = k * M + (A * t - k * R)
<1>1. /\ s \in Nat /\ k \in Nat /\ t \in Nat /\ t < Q
      /\ s = Q * k + t
  <2>1. /\ s \in Nat /\ k \in Nat /\ s % Q \in Nat /\ s % Q < Q
        /\ s = Q * k + (s % Q)
    BY DivMod, Modulus
  <2>2. Q * k = k * Q
    BY <2>1, Modulus
  <2> QED
    BY <2>1, <2>2, Modulus
<1>2. k * Q \in 0..s
  BY <1>1, Modulus
<1>3. A * t \in 0..(M - 1)
  <2>1. A * t \in Nat /\ A * t <= A * (Q - 1)
    BY <1>1, Modulus, TimesMonotone
  <2>2. A * (Q - 1) = A * Q - A
    BY Modulus
  <2> QED
    BY <2>1, <2>2, Modulus
<1>4. k * R \in 0..(M - 1)
  <2>1. k * R \in Nat /\ k * R <= k * Q
    BY <1>1, Modulus, TimesMonotone
  <2> QED
    BY <2>1, <1>1, <1>2, Modulus
<1>5. A * s = k * M + (A * t - k * R)
  <2>1. A \in Int /\ Q \in Int /\ R \in Int /\ k \in Int /\ t \in Int
    BY <1>1, Modulus
  <2>2. A * (Q * k + t) = k * (A * Q + R) + (A * t - k * R)
    BY ONLY <2>1
  <2> QED
    BY <2>2, <1>1, Modulus
<1> QED
  BY <1>1, <1>2, <1>3, <1>4, <1>5

LEMMA Scrambles ==
  ASSUME NEW s \in Seeds
  PROVE  Scrambled(s) = (A * s) % M /\ Scrambled(s) \in Seeds
<1> USE Modulus
<1> DEFINE k == quotient(s, Q)
           t == s - k * Q
           n == A * t - k * R
<1>1. /\ s \in Int /\ k \in Int /\ t \in Int
      /\ k * Q \in Seeds /\ t \in Seeds
      /\ A * t \in Seeds /\ k * R \in Seeds
      /\ n \in Seeds
      /\ A * s = k * M + n
  <2>1. CASE s >= 0
    <3>1. s \in 0..(M - 1) /\ k = s \div Q
      BY <2>1 DEF Seeds, quotient
    <3>2. /\ k \in Nat /\ t \in Nat /\ k * Q \in 0..s
          /\ A * t \in 0..(M - 1) /\ k * R \in 0..(M - 1)
          /\ A * s = k * M + (A * t - k * R)
      <4> HIDE DEF k
      <4> QED
        BY <3>1, Schrage
    <3> HIDE DEF k, t
    <3>3. /\ k * Q \in Seeds /\ t \in Seeds /\ A * t \in Seeds /\ k * R \in Seeds
      <4>1. t <= s /\ k * Q <= s
        BY <2>1, <3>1, <3>2 DEF t
      <4> QED
        BY <2>1, <3>1, <3>2, <4>1 DEF Seeds
    <3>4. A * t - k * R \in Seeds
      BY <3>2 DEF Seeds
    <3> QED
      BY <3>1, <3>2, <3>3, <3>4
  <2>2. CASE s < 0
    <3> DEFINE s1 == -s
               k1 == s1 \div Q
               t1 == s1 - k1 * Q
    <3>1. s1 \in 0..(M - 1) /\ k = -k1 /\ s \in Int
      BY <2>2 DEF Seeds, quotient
    <3>2. /\ k1 \in Nat /\ t1 \in Nat /\ k1 * Q \in 0..s1
          /\ A * t1 \in 0..(M - 1) /\ k1 * R \in 0..(M - 1)
          /\ A * s1 = k1 * M + (A * t1 - k1 * R)
      <4>1. k1 = s1 \div Q /\ t1 = s1 - k1 * Q
        OBVIOUS
      <4> HIDE DEF k, k1, s1, t1
      <4> QED
        BY ONLY <3>1, <4>1, Schrage
    <3>3. /\ k * Q = -(k1 * Q) /\ k * R = -(k1 * R) /\ k * M = -(k1 * M)
          /\ t = -t1 /\ A * t = -(A * t1) /\ A * s = -(A * s1)
      <4> HIDE DEF k, k1
      <4>1. k \in Int /\ k1 \in Int
        BY <3>1, <3>2
      <4>2. k * Q = -(k1 * Q) /\ k * R = -(k1 * R) /\ k * M = -(k1 * M)
        BY <4>1, <3>1
      <4>3. t = -t1
        BY <4>1, <4>2, <3>1
      <4> HIDE DEF t, t1
      <4>4. A * t = -(A * t1)
        BY <4>3, <3>2
      <4> QED
        BY <4>2, <4>3, <4>4, <3>1
    <3> HIDE DEF k, k1, t, t1, s1
    <3>4. /\ k \in Int /\ t \in Int /\ k1 * M \in Int
      BY <3>1, <3>2, <3>3
    <3> QED
      BY <2>2, <3>1, <3>2, <3>3, <3>4 DEF Seeds
  <2> QED
    BY <2>1, <2>2 DEF Seeds
<1> HIDE DEF k, t, n
<1>2. \A m \in Seeds : Wrap(m) = m
  BY DEF Wrap, Seeds, Longs
<1>3. Scrambled(s) = IF n < 0 THEN Wrap(n + M) ELSE n
  <2>1. Wrap(k * Q) = k * Q /\ Wrap(k * R) = k * R
    BY <1>1, <1>2
  <2>2. Wrap(s - Wrap(k * Q)) = t
    BY <1>1, <1>2, <2>1 DEF t
  <2>3. Wrap(A * t) = A * t
    BY <1>1, <1>2
  <2>4. Wrap(Wrap(A * t) - Wrap(k * R)) = n
    BY <1>1, <1>2, <2>1, <2>3 DEF n
  <2> QED
    BY <2>2, <2>4 DEF Scrambled, k
<1>4. CASE n >= 0
  <2>1. n \in Nat /\ n < M
    BY <1>1, <1>4 DEF Seeds
  <2>2. (k * M + n) % M = n
    BY <1>1, <2>1, ModUnique
  <2> QED
    BY <1>1, <1>3, <1>4, <2>1, <2>2
<1>5. CASE n < 0
  <2>1. n + M \in Nat /\ n + M < M /\ n + M \in Seeds
    BY <1>1, <1>5 DEF Seeds
  <2>2. ((k - 1) * M + (n + M)) % M = n + M
    <3>1. k - 1 \in Int
      BY <1>1
    <3> QED
      BY <2>1, <3>1, ModUnique
  <2>3. (k - 1) * M + (n + M) = k * M + n
    BY <1>1 DEF Seeds
  <2> QED
    BY <1>1, <1>2, <1>3, <1>5, <2>1, <2>2, <2>3
<1> QED
  BY <1>1, <1>4, <1>5 DEF Seeds

(* random-next computes A * seed modulo M without leaving the longs, for   *)
(* every multiplier and modulus with R < Q and every seed that a program   *)
(* may set between them.                                                   *)
THEOREM SeedsAreMeant == \A seed \in Seeds : SeedMeant(seed)
<1> TAKE seed \in Seeds
<1> QED
  BY Scrambles DEF SeedMeant

----------------------------------------------------------------------------
(* What a call returns                                                     *)
ExtremesOf(o, args, y) ==
  LET values == {Value(args[i]) : i \in DOMAIN args}
  IN  /\ Value(y) \in values
      /\ \A n \in values : IF o = "max" THEN n <= Value(y) ELSE n >= Value(y)

Right(o, args, y) ==
  /\ o \in Opcodes \ OnIntegers =>
       /\ SumsOf(o, args, y)
       /\ o \in Comparisons /\ Comparable(args) =>
            (y.value <=> \A i \in 1..(Len(args) - 1) : Ordered(o, Value(args[i]), Value(args[i + 1])))
  /\ o \in OnIntegers /\ AllFixnums(args) => DivisionOf(o, args, y)
  /\ o \in Divisors /\ Len(args) = 2 /\ AllFixnums(args) => DivisorsOf(o, args, y)
  /\ o \in Extremes /\ Comparable(args) => ExtremesOf(o, args, y)
  /\ o = "random-next" => y.value = (A * args[1].value) % M

LEMMA RightIsMeant ==
  ASSUME pc = "done" => Right(op, given, v)
  PROVE  CallsMeant
<1> SUFFICES ASSUME pc = "done" PROVE CallsMeant
  BY DEF CallsMeant, Returned, ArithmeticMeant, DivisionMeant, DivisorsMeant, ExtremesMeant, RandomMeant
<1>1. ArithmeticMeant
  BY DEF ArithmeticMeant, Returned, Right, SumsOf, Ordered
<1>2. DivisionMeant
  BY DEF DivisionMeant, Returned, Right, DivisionOf
<1>3. DivisorsMeant
  BY DEF DivisorsMeant, Returned, Right, DivisorsOf
<1>4. ExtremesMeant
  BY DEF ExtremesMeant, Returned, Right, ExtremesOf
<1>5. RandomMeant
  BY DEF RandomMeant, Returned, Right
<1> QED
  BY <1>1, <1>2, <1>3, <1>4, <1>5 DEF CallsMeant

LEMMA OpcodeRight ==
  ASSUME NEW o \in Opcodes, NEW args \in Seq(Operands), Len(args) \in Arity(o)
  PROVE  Right(o, args, Opcode(o, args))
<1>1. o \notin Divisors /\ o \notin Extremes /\ o # "random-next"
  BY DEF Opcodes, Folds, Binary, Comparisons, Divisors, Extremes
<1>2. CASE o \in OnIntegers
  BY <1>1, <1>2, DivisionRight DEF Right
<1>3. CASE o \in {"+", "-", "*", "/"}
  <2>1. o \notin OnIntegers /\ o \notin Comparisons
    BY <1>3 DEF OnIntegers, Binary, Comparisons
  <2> QED
    BY <1>1, <1>3, <2>1, SumsRight DEF Right
<1>4. CASE o \in Comparisons
  <2>1. o \notin OnIntegers
    BY <1>4 DEF OnIntegers, Binary, Comparisons
  <2>2. ~is_fixnum(Opcode(o, args))
    BY <1>4, <2>1 DEF Opcode, is_fixnum, Bool
  <2>3. SumsOf(o, args, Opcode(o, args))
    BY <2>2 DEF SumsOf
  <2> QED
    BY <1>1, <1>4, <2>1, <2>3, ComparisonsRight DEF Right
<1> QED
  BY <1>2, <1>3, <1>4 DEF Opcodes, Folds, OnIntegers

----------------------------------------------------------------------------
(* The inductive invariant: what the calls and their loops have so far.    *)
ExtremeLoop(o, args, s, y) ==
  \E j \in 1..Len(args) :
    /\ s \in Seq(Operands) /\ Len(s) = Len(args) - j
    /\ \A i \in 1..Len(s) : s[i] = args[j + i]
    /\ Comparable(args) => Best(o, args, j, y)

Typed == given \in Seq(Operands) /\ (pc = "loop" => op \in Extremes \cup Divisors)
ExtremesTurn == pc = "loop" /\ op \in Extremes => ExtremeLoop(op, given, x, v)
DivisorsTurn == pc = "loop" /\ op \in Divisors => Len(given) = 2 /\ GcdLoop(op, given, x)
ReturnsRight == pc = "done" => Right(op, given, v)
IInv == Typed /\ ExtremesTurn /\ DivisorsTurn /\ ReturnsRight

LEMMA ExtremeStarts ==
  ASSUME NEW o \in Extremes, NEW args \in Seq(Operands), Len(args) >= 1
  PROVE  ExtremeLoop(o, args, Tail(args), Head(args))
<1> DEFINE s == Tail(args)
           y == Head(args)
<1>1. Len(args) \in Nat /\ args # <<>> /\ 1 \in 1..Len(args) /\ 1 + 0 = 1
  BY LenProperties
<1>2. /\ s \in Seq(Operands) /\ Len(s) = Len(args) - 1 /\ y = args[1]
      /\ \A i \in 1..Len(s) : s[i] = args[i + 1]
  BY <1>1, HeadTailProperties
<1> HIDE DEF s, y
<1>3. \A i \in 1..Len(s) : s[i] = args[1 + i]
  BY <1>1, <1>2
<1>4. ASSUME Comparable(args) PROVE Best(o, args, 1, y)
  <2>1. Kind(args, y) /\ Value(y) \in Int
    BY <1>1, <1>2, <1>4, ArgumentKind
  <2> QED
    BY <1>2, <2>1 DEF Best, NoBetter
<1> QED
  BY <1>1, <1>2, <1>3, <1>4 DEF ExtremeLoop, s, y

LEMMA ExtremeGoesOn ==
  ASSUME NEW o \in Extremes, NEW args \in Seq(Operands),
         NEW s, NEW y, ExtremeLoop(o, args, s, y), s # <<>>
  PROVE  ExtremeLoop(o, args, Tail(s), Better(o, y, Head(s)))
<1>1. PICK j \in 1..Len(args) :
        /\ s \in Seq(Operands) /\ Len(s) = Len(args) - j
        /\ \A i \in 1..Len(s) : s[i] = args[j + i]
        /\ Comparable(args) => Best(o, args, j, y)
  BY DEF ExtremeLoop
<1> DEFINE t == Tail(s)
           b == Head(s)
<1>2. Len(args) \in Nat /\ Len(s) \in Nat \ {0} /\ 1 \in 1..Len(s)
  BY <1>1, LenProperties, EmptySeq
<1>3. /\ t \in Seq(Operands) /\ Len(t) = Len(s) - 1 /\ b = s[1]
      /\ \A i \in 1..Len(t) : t[i] = s[i + 1]
  BY <1>1, HeadTailProperties
<1> HIDE DEF t, b
<1>4. b = args[j + 1] /\ j \in 1..(Len(args) - 1) /\ j + 1 \in 1..Len(args)
      /\ Len(t) = Len(args) - (j + 1)
  BY <1>1, <1>2, <1>3
<1>5. ASSUME NEW i \in 1..Len(t) PROVE t[i] = args[(j + 1) + i]
  <2>1. i + 1 \in 1..Len(s) /\ j + (i + 1) = (j + 1) + i
    BY <1>1, <1>2, <1>3
  <2> QED
    BY <1>1, <1>3, <2>1
<1>6. Comparable(args) => Best(o, args, j + 1, Better(o, y, b))
  BY <1>1, <1>4, BestTurn
<1> QED
  BY <1>3, <1>4, <1>5, <1>6 DEF ExtremeLoop, t, b

LEMMA ExtremeEnds ==
  ASSUME NEW o \in Extremes, NEW args \in Seq(Operands),
         NEW y, ExtremeLoop(o, args, <<>>, y)
  PROVE  Right(o, args, y)
<1>1. o \notin Opcodes /\ o \notin OnIntegers /\ o \notin Divisors /\ o # "random-next"
  BY DEF Opcodes, OnIntegers, Folds, Binary, Comparisons, Divisors, Extremes
<1>2. Len(args) \in Nat /\ DOMAIN args = 1..Len(args) /\ Len(<<>>) = 0
  BY LenProperties
<1>3. PICK j \in 1..Len(args) : 0 = Len(args) - j /\ (Comparable(args) => Best(o, args, j, y))
  BY <1>2 DEF ExtremeLoop
<1>4. j = Len(args)
  <2> DEFINE n == Len(args)
  <2>1. n \in Nat /\ j \in 1..n /\ n - j <= 0
    BY <1>2, <1>3
  <2> HIDE DEF n
  <2>2. j = n
    BY <2>1
  <2> QED
    BY <2>2 DEF n
<1>5. ASSUME Comparable(args) PROVE ExtremesOf(o, args, y)
  <2>1. Best(o, args, Len(args), y)
    BY <1>3, <1>4, <1>5
  <2> QED
    BY <1>2, <2>1 DEF Best, NoBetter, ExtremesOf
<1> QED
  BY <1>1, <1>5 DEF Right

(* (gcd), (lcm) and the calls with one argument are not spoken of.         *)
LEMMA DivisorOnly ==
  ASSUME NEW o \in Divisors, NEW args, NEW y,
         Len(args) = 2 /\ AllFixnums(args) => DivisorsOf(o, args, y)
  PROVE  Right(o, args, y)
<1>1. o \notin Opcodes /\ o \notin OnIntegers /\ o \notin Extremes /\ o # "random-next"
  BY DEF Opcodes, OnIntegers, Folds, Binary, Comparisons, Divisors, Extremes
<1> QED
  BY <1>1 DEF Right

(* lcm of zero is zero.                                                    *)
LEMMA AbsZero ==
  ASSUME NEW a \in Fixs
  PROVE  num_eq(abs(a), Zero) <=> a.value = 0
<1>1. abs(a) \in Fixs /\ abs(a).value = Positive(a.value) /\ a.value \in Longs
  BY AbsFacts, FixsFacts
<1>2. Fixed(abs(a), Zero) /\ Zero.value = 0
  BY <1>1, FixsFacts, UnitFacts DEF Fixed
<1> QED
  BY <1>1, <1>2, PositiveFacts DEF num_eq

LEMMA LcmOfZero ==
  ASSUME NEW args \in Seq(Fixs), Len(args) = 2, NEW i \in 1..2, args[i].value = 0
  PROVE  DivisorsOf("lcm", args, Zero)
<1> DEFINE a == args[1].value
           b == args[2].value
<1>1. a \in Int /\ b \in Int /\ Zero.value = 0 /\ is_fixnum(Zero)
  <2>1. 1 \in 1..Len(args) /\ 2 \in 1..Len(args)
    OBVIOUS
  <2> QED
    BY <2>1, IvaluesFacts, FixsFacts, UnitFacts
<1>2. a * b = 0
  <2>1. a = 0 \/ b = 0
    OBVIOUS
  <2> HIDE DEF a, b
  <2> QED
    BY <1>1, <2>1
<1>3. Magnitude(a * b) = 0
  BY <1>2 DEF Magnitude
<1> QED
  BY <1>1, <1>3 DEF DivisorsOf

LEMMA DivisorStarts ==
  ASSUME NEW o \in Divisors, NEW args \in Seq(Operands), Len(args) = 2,
         o = "lcm" => \A i \in 1..2 : ~num_eq(abs(args[i]), Zero)
  PROVE  GcdLoop(o, args, IF o = "gcd" THEN args ELSE <<abs(args[1]), abs(args[2])>>)
<1> SUFFICES ASSUME AllFixnums(args)
             PROVE  GcdLoop(o, args, IF o = "gcd" THEN args ELSE <<abs(args[1]), abs(args[2])>>)
  BY DEF GcdLoop
<1>1. args \in Seq(Fixs) /\ args[1] \in Fixs /\ args[2] \in Fixs
  <2>1. 1 \in 1..Len(args) /\ 2 \in 1..Len(args)
    OBVIOUS
  <2> QED
    BY <2>1, AllFixs, IvaluesFacts
<1>2. CASE o = "gcd"
  <2>1. args \in Fixs \X Fixs
    BY <1>1, LenProperties
  <2>2. SameDivisors(args[1].value, args[2].value, args[1].value, args[2].value)
    BY DEF SameDivisors
  <2> QED
    BY <1>2, <2>1, <2>2 DEF GcdLoop
<1>3. CASE o = "lcm"
  <2> DEFINE s == <<abs(args[1]), abs(args[2])>>
  <2>1. /\ s \in Fixs \X Fixs
        /\ s[1].value = Positive(args[1].value) /\ s[2].value = Positive(args[2].value)
        /\ args[1].value \in Longs /\ args[2].value \in Longs
    BY <1>1, AbsFacts, FixsFacts
  <2>2. SameDivisors(s[1].value, s[2].value, args[1].value, args[2].value)
    BY <2>1, PositiveDivisors DEF SameDivisors
  <2>3. args[1].value # 0 /\ args[2].value # 0
    BY <1>1, <1>3, AbsZero
  <2> QED
    BY <1>3, <2>1, <2>2, <2>3 DEF GcdLoop
<1> QED
  BY <1>2, <1>3 DEF Divisors

LEMMA InitIInv == Init => IInv
BY EmptySeq DEF Init, IInv, Typed, ExtremesTurn, DivisorsTurn, ReturnsRight

(* What a returning step has to show                                       *)
LEMMA Returning ==
  ASSUME given' \in Seq(Operands), pc' = "done", Right(op', given', v')
  PROVE  IInv'
BY DEF IInv, Typed, ExtremesTurn, DivisorsTurn, ReturnsRight

LEMMA OperandStep ==
  ASSUME IInv, Operand
  PROVE  IInv'
<1>1. PICK n \in Numbers : given' = Append(given, n)
  BY DEF Operand
<1>2. n \in Operands
  BY <1>1, NumbersAssumption DEF Numbers, Operands, Fixs
<1>3. given' \in Seq(Operands)
  BY <1>1, <1>2, AppendProperties DEF IInv, Typed
<1>4. pc' = "call"
  BY DEF Operand
<1> QED
  BY <1>3, <1>4 DEF IInv, Typed, ExtremesTurn, DivisorsTurn, ReturnsRight

LEMMA CallOpcodeStep ==
  ASSUME IInv, CallOpcode
  PROVE  IInv'
<1>1. op' \in Opcodes /\ Len(given) \in Arity(op') /\ given' = given
      /\ pc' = "done" /\ v' = Opcode(op', given)
  BY DEF CallOpcode, Calls, Returns
<1>2. given \in Seq(Operands)
  BY DEF IInv, Typed
<1>3. Right(op', given', v')
  BY <1>1, <1>2, OpcodeRight
<1> QED
  BY <1>1, <1>2, <1>3, Returning

LEMMA CallExtremeStep ==
  ASSUME IInv, CallExtreme
  PROVE  IInv'
<1>1. op' \in Extremes /\ Len(given) \in Arity(op') /\ given' = given
      /\ pc' = "loop" /\ v' = Head(given) /\ x' = Tail(given)
  BY DEF CallExtreme, Calls
<1>2. given \in Seq(Operands) /\ Len(given) \in Nat
  BY LenProperties DEF IInv, Typed
<1>3. Len(given) >= 1
  BY <1>1, <1>2, ArityFacts DEF Extremes
<1>4. ExtremeLoop(op', given', x', v')
  BY <1>1, <1>2, <1>3, ExtremeStarts
<1>5. op' \notin Divisors
  BY <1>1 DEF Extremes, Divisors
<1> QED
  BY <1>1, <1>2, <1>4, <1>5 DEF IInv, Typed, ExtremesTurn, DivisorsTurn, ReturnsRight

LEMMA NextArgumentStep ==
  ASSUME IInv, NextArgument
  PROVE  IInv'
<1>1. pc = "loop" /\ op \in Extremes /\ op' = op /\ given' = given
  BY DEF NextArgument
<1>2. given \in Seq(Operands) /\ ExtremeLoop(op, given, x, v)
  BY <1>1 DEF IInv, Typed, ExtremesTurn
<1>3. CASE x = <<>>
  <2>1. pc' = "done" /\ v' = v
    BY <1>3 DEF NextArgument, Returns
  <2>2. Right(op, given, v)
    BY <1>1, <1>2, <1>3, ExtremeEnds
  <2> QED
    BY <1>1, <1>2, <2>1, <2>2, Returning
<1>4. CASE x # <<>>
  <2>1. pc' = "loop" /\ v' = Better(op, v, Head(x)) /\ x' = Tail(x)
    BY <1>1, <1>4 DEF NextArgument
  <2>2. ExtremeLoop(op', given', x', v')
    BY <1>1, <1>2, <1>4, <2>1, ExtremeGoesOn
  <2>3. op' \notin Divisors
    BY <1>1 DEF Extremes, Divisors
  <2> QED
    BY <1>1, <1>2, <2>1, <2>2, <2>3 DEF IInv, Typed, ExtremesTurn, DivisorsTurn, ReturnsRight
<1> QED
  BY <1>3, <1>4

LEMMA CallDivisorStep ==
  ASSUME IInv, CallDivisor
  PROVE  IInv'
<1>1. op' \in Divisors /\ Len(given) \in Arity(op') /\ given' = given
  BY DEF CallDivisor, Calls
<1>2. given \in Seq(Operands) /\ Len(given) \in Nat /\ Len(<<>>) = 0
  BY LenProperties DEF IInv, Typed
<1>3. Len(given) \in 0..2
  <2>1. op' \notin {"+", "*"} /\ op' \notin {"-", "/", "quotient"} \cup Extremes /\ op' \notin Binary
    BY <1>1 DEF Divisors, Extremes, Binary
  <2>2. Arity(op') = 0..2
    BY <1>1, <2>1 DEF Arity
  <2> QED
    BY <1>1, <2>2
<1>4. CASE Len(given) # 2
  <2>1. pc' = "done"
    <3>1. given = <<>> \/ Len(given) = 1
      BY <1>2, <1>3, <1>4, EmptySeq
    <3>2. CASE given = <<>>
      BY <1>2, <3>2 DEF CallDivisor, Returns
    <3>3. CASE Len(given) = 1
      BY <1>2, <3>3 DEF CallDivisor, Returns
    <3> QED
      BY <3>1, <3>2, <3>3
  <2>2. Right(op', given', v')
    BY <1>1, <1>4, DivisorOnly
  <2> QED
    BY <1>1, <1>2, <2>1, <2>2, Returning
<1>5. CASE Len(given) = 2
  <2> DEFINE zero == op' = "lcm" /\ \E i \in 1..2 : num_eq(abs(given[i]), Zero)
  <2>1. given # <<>> /\ Len(given) # 1
    BY <1>2, <1>5
  <2>2. IF zero THEN Returns(Zero)
        ELSE pc' = "loop" /\ x' = IF op' = "gcd" THEN given
                                  ELSE <<abs(given[1]), abs(given[2])>>
    BY <1>5, <2>1 DEF CallDivisor
  <2>3. CASE zero
    <3>1. pc' = "done" /\ v' = Zero
      BY <2>2, <2>3 DEF Returns
    <3>2. ASSUME AllFixnums(given) PROVE DivisorsOf(op', given, Zero)
      <4>1. given \in Seq(Fixs)
        BY <1>2, <3>2, AllFixs
      <4>2. PICK i \in 1..2 : num_eq(abs(given[i]), Zero)
        BY <2>3
      <4>3. given[i] \in Fixs
        BY <1>5, <4>1, IvaluesFacts
      <4>4. given[i].value = 0
        BY <4>2, <4>3, AbsZero
      <4> QED
        BY <1>5, <2>3, <4>1, <4>4, LcmOfZero
    <3>3. Right(op', given', v')
      BY <1>1, <3>1, <3>2, DivisorOnly
    <3> QED
      BY <1>1, <1>2, <3>1, <3>3, Returning
  <2>4. CASE ~zero
    <3>1. pc' = "loop" /\ x' = IF op' = "gcd" THEN given
                              ELSE <<abs(given[1]), abs(given[2])>>
      BY <2>2, <2>4
    <3>2. GcdLoop(op', given', x')
      BY <1>1, <1>2, <1>5, <2>4, <3>1, DivisorStarts
    <3>3. op' \notin Extremes
      BY <1>1 DEF Extremes, Divisors
    <3> QED
      BY <1>1, <1>2, <1>5, <3>1, <3>2, <3>3 DEF IInv, Typed, ExtremesTurn, DivisorsTurn, ReturnsRight
  <2> QED
    BY <2>3, <2>4
<1> QED
  BY <1>4, <1>5

(* gcd of fixnums reports no error; its last divisor ends it.              *)
LEMMA NextRemainderStep ==
  ASSUME IInv, NextRemainder
  PROVE  IInv'
<1> DEFINE aa == abs(x[1])
           bb == abs(x[2])
           next == GcdArguments(aa, bb)
           zero == num_eq(bb, Zero)
           inexact == ~is_integer(aa) \/ ~is_integer(bb)
           stopped == \E i \in 1..2 : Stopped(next[i])
<1>1. pc = "loop" /\ op \in Divisors /\ op' = op /\ given' = given
  BY DEF NextRemainder
<1>2. given \in Seq(Operands) /\ Len(given) = 2 /\ GcdLoop(op, given, x)
  BY <1>1 DEF IInv, Typed, DivisorsTurn
<1>3. IF zero THEN Returns(WithGcd(aa))
      ELSE IF inexact THEN Returns(Error)
      ELSE IF stopped THEN Returns(CHOOSE n \in {next[1], next[2]} : Stopped(n))
      ELSE x' = next /\ UNCHANGED <<pc, v>>
  BY DEF NextRemainder
<1> HIDE DEF aa, bb, next, zero, inexact, stopped
<1>4. op' \notin Extremes
  BY <1>1 DEF Extremes, Divisors
<1>5. CASE ~AllFixnums(given)
  <2>1. GcdLoop(op', given', x') /\ Right(op', given', v')
    BY <1>1, <1>5, DivisorOnly DEF GcdLoop
  <2>2. pc' = "done" \/ pc' = "loop"
    BY <1>1, <1>3 DEF Returns
  <2> QED
    BY <1>1, <1>2, <1>4, <2>1, <2>2 DEF IInv, Typed, ExtremesTurn, DivisorsTurn, ReturnsRight
<1>6. CASE AllFixnums(given)
  <2>1. given \in Seq(Fixs)
    BY <1>2, <1>6, AllFixs
  <2>2. /\ x \in Fixs \X Fixs /\ x[1] \in Fixs /\ x[2] \in Fixs
        /\ SameDivisors(x[1].value, x[2].value, given[1].value, given[2].value)
        /\ op = "lcm" => given[1].value # 0 /\ given[2].value # 0
    BY <1>2, <1>6 DEF GcdLoop
  <2>3. zero <=> x[2].value = 0
    BY <2>2, AbsZero DEF zero, bb
  <2>4. CASE zero
    <3>1. pc' = "done" /\ v' = WithGcd(aa)
      BY <1>3, <2>4 DEF Returns
    <3>2. WithGcd(aa) = GcdEnd(op, given, abs(x[1]))
      BY DEF WithGcd, GcdEnd, aa
    <3>3. DivisorsOf(op, given, v')
      BY <1>1, <1>2, <1>6, <2>1, <2>3, <2>4, <3>1, <3>2, GcdRight
    <3>4. Right(op', given', v')
      BY <1>1, <3>3, DivisorOnly
    <3> QED
      BY <1>1, <1>2, <3>1, <3>4, Returning
  <2>5. CASE ~zero
    <3>1. aa \in Fixs /\ bb \in Fixs /\ ~inexact
      BY <2>2, AbsFacts, FixsFacts DEF aa, bb, inexact, is_integer
    <3> DEFINE r == remainder(aa, bb)
    <3>2. r \in Fixs /\ ~Stopped(r) /\ SameDivisors(bb.value, r.value, x[1].value, x[2].value)
      BY <2>2, <2>3, <2>5, RemainderTurn DEF aa, bb
    <3>3. next = <<bb, r>> /\ next[1] = bb /\ next[2] = r
      BY DEF next, GcdArguments
    <3> HIDE DEF r
    <3>4. ~Stopped(bb)
      BY <3>1, FixsFacts DEF Stopped, is_fixnum
    <3>5. ~stopped
      <4> SUFFICES ASSUME NEW i \in 1..2 PROVE ~Stopped(next[i])
        BY DEF stopped
      <4>1. i = 1 \/ i = 2
        OBVIOUS
      <4> QED
        BY <3>2, <3>3, <3>4, <4>1
    <3>6. x' = next /\ pc' = "loop"
      BY <1>1, <1>3, <2>5, <3>1, <3>5
    <3>7. /\ x' \in Fixs \X Fixs
          /\ SameDivisors(x'[1].value, x'[2].value, given[1].value, given[2].value)
      BY <2>2, <3>1, <3>2, <3>3, <3>6 DEF SameDivisors
    <3>8. GcdLoop(op', given', x')
      BY <1>1, <2>2, <3>7 DEF GcdLoop
    <3> QED
      BY <1>1, <1>2, <1>4, <3>6, <3>8 DEF IInv, Typed, ExtremesTurn, DivisorsTurn, ReturnsRight
  <2> QED
    BY <2>4, <2>5
<1> QED
  BY <1>5, <1>6

LEMMA CallRandomStep ==
  ASSUME IInv, CallRandom
  PROVE  IInv'
<1>1. PICK seed \in Seeds :
        /\ op' = "random-next" /\ given' = <<Fix(seed)>>
        /\ pc' = "done" /\ v' = Fix(Scrambled(seed))
  BY DEF CallRandom, Returns
<1>2. \A s \in Seeds : s \in Int /\ s \in Longs
  BY RandomAssumption DEF Seeds, Longs
<1>3. Scrambled(seed) = (A * seed) % M /\ Scrambled(seed) \in Seeds
  BY Scrambles
<1>4. /\ Fix(seed) \in Fixs /\ Fix(seed).value = seed
      /\ v'.value = Scrambled(seed)
  BY <1>1, <1>2, <1>3, FixFacts
<1>5. given' \in Seq(Operands) /\ given'[1].value = seed
  BY <1>1, <1>4 DEF Operands
<1>6. /\ "random-next" \notin Opcodes /\ "random-next" \notin OnIntegers
      /\ "random-next" \notin Divisors /\ "random-next" \notin Extremes
  BY DEF Opcodes, OnIntegers, Folds, Binary, Comparisons, Divisors, Extremes
<1>7. v'.value = (A * given'[1].value) % M
  BY <1>3, <1>4, <1>5
<1>8. Right(op', given', v')
  BY <1>1, <1>6, <1>7 DEF Right
<1> QED
  BY <1>1, <1>5, <1>8, Returning

LEMMA ForgetStep ==
  ASSUME IInv, Forget
  PROVE  IInv'
<1>1. pc' = "call" /\ given' = <<>>
  BY DEF Forget
<1>2. given' \in Seq(Operands)
  BY <1>1, EmptySeq
<1> QED
  BY <1>1, <1>2 DEF IInv, Typed, ExtremesTurn, DivisorsTurn, ReturnsRight

LEMMA StepIInv == IInv /\ [Next]_vars => IInv'
<1> SUFFICES ASSUME IInv, [Next]_vars PROVE IInv'
  OBVIOUS
<1>1. CASE Operand
  BY <1>1, OperandStep
<1>2. CASE CallOpcode
  BY <1>2, CallOpcodeStep
<1>3. CASE CallExtreme
  BY <1>3, CallExtremeStep
<1>4. CASE CallDivisor
  BY <1>4, CallDivisorStep
<1>5. CASE CallRandom
  BY <1>5, CallRandomStep
<1>6. CASE NextArgument
  BY <1>6, NextArgumentStep
<1>7. CASE NextRemainder
  BY <1>7, NextRemainderStep
<1>8. CASE Forget
  BY <1>8, ForgetStep
<1>9. CASE UNCHANGED vars
  BY <1>9 DEF vars, IInv, Typed, ExtremesTurn, DivisorsTurn, ReturnsRight
<1> QED
  BY <1>1, <1>2, <1>3, <1>4, <1>5, <1>6, <1>7, <1>8, <1>9 DEF Next, Loop

(* Every call of the arithmetic of src/scheme.c and of max, min, gcd, lcm  *)
(* and random-next of src/init.scm that returns, returns the number it is  *)
(* called for, for longs and doubles of any width, any number of arguments *)
(* and any multiplier that Schrage's method allows: num_add ... num_mod,   *)
(* the folds of the opcodes, the comparisons, and the loops of init.scm    *)
(* that end.  The conditions are those of CallsMeant: the operands are     *)
(* longs (AllFixnums); for modulo the product that num_mod looks at is a   *)
(* long (ProductFits); comparisons, max and min may also have doubles      *)
(* among the operands if every long is a double too (Comparable).  The     *)
(* sign of a remainder is that of the first operand.                       *)
THEOREM CallsAreMeant == Spec => []CallsMeant
<1>1. IInv => CallsMeant
  BY RightIsMeant DEF IInv, ReturnsRight
<1> QED
  BY <1>1, InitIInv, StepIInv, PTL DEF Spec
=============================================================================
