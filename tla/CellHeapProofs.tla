--------------------------- MODULE CellHeapProofs ---------------------------
(***************************************************************************)
(* For any segments, wherever malloc places them, and any registers: the   *)
(* free list is exact, nothing that is held or can be reached is free, the *)
(* program is told that memory has run out only when it has, and the       *)
(* storage manager implements Memory.                                      *)
(***************************************************************************)
EXTENDS CellHeap, FiniteSetTheorems, SequenceTheorems, WellFoundedInduction, TLAPS

(* Sets of natural numbers have a least element, bounded ones a greatest.  *)
LEMMA HasLeast ==
  ASSUME NEW S \in SUBSET Nat, S # {}
  PROVE  \E m \in S : \A x \in S : m <= x
<1>1. PICK m \in S : \A y \in S : ~(<<y, m>> \in OpToRel(<, Nat))
  BY NatLessThanWellFounded, WFMin
<1>2. \A y \in S : ~(y < m)
  BY <1>1 DEF OpToRel
<1> QED BY <1>2

LEMMA HasGreatest ==
  ASSUME NEW n \in Nat, NEW S \in SUBSET (0..n), S # {}
  PROVE  \E m \in S : \A x \in S : x <= m
<1> DEFINE R == {k \in Nat : n - k \in S}
<1>1. R # {}
  <2>1. PICK x \in S : TRUE
    OBVIOUS
  <2>2. n - x \in R
    BY <2>1
  <2> QED BY <2>2
<1>2. PICK k \in R : \A j \in R : k <= j
  BY <1>1, HasLeast
<1>3. \A x \in S : n - x \in R
  OBVIOUS
<1> QED BY <1>2, <1>3

(* What holds of x and of the next number of each up to y holds up to y.   *)
LEMMA Upwards ==
  ASSUME NEW x \in Nat, NEW y \in Nat, NEW S,
         x \in S, \A c \in x..y : c \in S /\ c < y => c + 1 \in S
  PROVE  x..y \subseteq S
<1> DEFINE R == {c \in x..y : c \notin S}
<1> SUFFICES ASSUME R # {} PROVE FALSE
  OBVIOUS
<1>0. R \in SUBSET Nat /\ R # {}
  OBVIOUS
<1>1. PICK m \in R : \A c \in R : m <= c
  <2> HIDE DEF R
  <2> QED BY <1>0, HasLeast
<1>2. m - 1 \in x..y /\ m - 1 < y /\ (m - 1) + 1 = m
  BY <1>1
<1>3. m - 1 \in S
  BY <1>1, <1>2
<1> QED BY <1>1, <1>2, <1>3
-----------------------------------------------------------------------------
(* Lists in address order                                                  *)

Addresses == Nat \ {0}

LEMMA LeastOfIs ==
  ASSUME NEW S \in SUBSET Addresses
  PROVE  /\ S = {} => LeastOf(S) = NIL
         /\ S # {} => LeastOf(S) \in S /\ LeastOf(S) # NIL
         /\ \A x \in S : LeastOf(S) <= x
<1>1. ASSUME S # {} PROVE LeastOf(S) \in S /\ \A x \in S : LeastOf(S) <= x
  <2>1. \E m \in S : \A x \in S : m <= x
    BY <1>1, HasLeast DEF Addresses
  <2>2. Min(S) \in S /\ \A x \in S : Min(S) <= x
    BY <2>1 DEF Min
  <2> QED BY <1>1, <2>2 DEF LeastOf
<1> QED BY <1>1 DEF LeastOf, NIL, Addresses

LEMMA IsLeastOf ==
  ASSUME NEW S \in SUBSET Addresses, NEW m \in S, \A x \in S : m <= x
  PROVE  LeastOf(S) = m
<1>1. LeastOf(S) \in S /\ LeastOf(S) <= m /\ m <= LeastOf(S)
  BY LeastOfIs
<1>2. LeastOf(S) \in Nat /\ m \in Nat
  BY <1>1 DEF Addresses
<1> HIDE DEF LeastOf
<1> QED BY <1>1, <1>2

Above(S, c) == {d \in S : d > c}

LEMMA AboveIn ==
  ASSUME NEW S \in SUBSET Addresses
  PROVE  \A c : Above(S, c) \in SUBSET Addresses
BY DEF Above

(* The members of S are threaded through f in address order from h on.     *)
Threaded(S, f, h) ==
  /\ h = LeastOf(S)
  /\ \A c \in S : f[c] = LeastOf(Above(S, c))

(* The first member is taken. *)
LEMMA TakeFirst ==
  ASSUME NEW S \in SUBSET Addresses, NEW f, NEW g, NEW h,
         Threaded(S, f, h), h # NIL, \A c \in S \ {h} : g[c] = f[c]
  PROVE  h \in S /\ Threaded(S \ {h}, g, f[h])
<1>1. h \in S /\ \A x \in S : h <= x
  BY LeastOfIs DEF Threaded
<1>2. Above(S, h) = S \ {h}
  BY <1>1 DEF Above, Addresses
<1>3. \A c \in S \ {h} : Above(S, c) = Above(S \ {h}, c)
  BY <1>1 DEF Above, Addresses
<1> QED BY <1>1, <1>2, <1>3 DEF Threaded

(* Cells that follow one another are all members. *)
LEMMA RunInList ==
  ASSUME NEW S \in SUBSET Addresses, NEW f, NEW h, Threaded(S, f, h),
         NEW x \in S, NEW y \in Nat, x <= y, \A c \in x..(y - 1) : f[c] = c + 1
  PROVE  x..y \subseteq S
<1>1. ASSUME NEW c \in x..y, c \in S, c < y PROVE c + 1 \in S
  <2>1. LeastOf(Above(S, c)) = c + 1
    BY <1>1 DEF Threaded, Addresses
  <2>2. Above(S, c) \in SUBSET Addresses
    BY DEF Above
  <2>3. Above(S, c) # {}
    BY <1>1, <2>1, <2>2, LeastOfIs DEF NIL, Addresses
  <2> QED BY <2>1, <2>2, <2>3, LeastOfIs DEF Above
<1> QED BY <1>1, Upwards DEF Addresses

(* A run x..y is cut out, p being NIL or the member before it. *)
LEMMA CutRun ==
  ASSUME NEW S \in SUBSET Addresses, NEW f, NEW g, NEW h, NEW p \in S \cup {NIL},
         Threaded(S, f, h),
         NEW x \in S, x = IF p = NIL THEN h ELSE f[p],
         NEW y \in Nat, x <= y, x..y \subseteq S,
         \A c \in S \ (x..y) : c # p => g[c] = f[c],
         p \in S => g[p] = f[y],
         NEW k, k = IF p = NIL THEN f[y] ELSE h
  PROVE  Threaded(S \ (x..y), g, k)
<1> DEFINE T == S \ (x..y)
<1>0. \A c \in S : Above(S, c) \in SUBSET Addresses /\ Above(T, c) \in SUBSET Addresses
  BY DEF Above
<1>1. y \in S /\ Above(S, y) = Above(T, y) /\ f[y] = LeastOf(Above(T, y))
  <2>1. y \in S
    OBVIOUS
  <2>2. Above(S, y) = Above(T, y)
    BY DEF Above, Addresses
  <2> QED BY <2>1, <2>2 DEF Threaded
<1>2. CASE p = NIL
  <2>1. \A c \in S : x <= c
    BY <1>2, LeastOfIs DEF Threaded
  <2>2. T = Above(T, y)
    <3>1. \A c \in T : c > y
      BY <2>1 DEF Addresses
    <3> QED BY <3>1 DEF Above
  <2>3. \A c \in T : Above(T, c) = Above(S, c)
    BY <2>1 DEF Above, Addresses
  <2>4. \A c \in T : c # p
    BY <1>2 DEF Addresses, NIL
  <2> QED BY <1>1, <1>2, <2>2, <2>3, <2>4 DEF Threaded
<1>3. CASE p # NIL
  <2>1. p \in S /\ x = LeastOf(Above(S, p))
    BY <1>3 DEF Threaded
  <2>2. p < x /\ \A c \in S : c > p => x <= c
    BY <2>1, <1>0, LeastOfIs DEF Above, Addresses, NIL
  <2>3. Above(T, p) = Above(T, y)
    <3>1. \A c \in T : c > p <=> c > y
      BY <2>2, <2>1 DEF Addresses
    <3> QED BY <3>1 DEF Above
  <2>4. p \in T
    BY <2>1, <2>2 DEF Addresses
  <2>5. ASSUME NEW c \in T, c # p PROVE LeastOf(Above(S, c)) = LeastOf(Above(T, c))
    <3>1. CASE c > p
      <4>1. Above(S, c) = Above(T, c)
        BY <2>2, <3>1 DEF Above, Addresses
      <4> QED BY <4>1
    <3>2. CASE ~(c > p)
      <4> DEFINE m == LeastOf(Above(S, c))
      <4>1. p \in Above(S, c)
        BY <2>1, <2>5, <3>2 DEF Above, Addresses
      <4>2. m \in Above(S, c) /\ m <= p /\ \A d \in Above(S, c) : m <= d
        BY <4>1, <1>0, LeastOfIs
      <4>3. m \in Above(T, c)
        BY <4>2, <2>2, <2>1 DEF Above, Addresses
      <4> HIDE DEF m
      <4>4. \A d \in Above(T, c) : m <= d
        BY <4>2 DEF Above
      <4> QED BY <4>3, <4>4, <1>0, IsLeastOf DEF m
    <3> QED BY <3>1, <3>2
  <2>6. h = LeastOf(T)
    <3>1. h \in S /\ \A c \in S : h <= c
      BY LeastOfIs DEF Threaded
    <3>2. h \in T
      BY <3>1, <2>1, <2>2 DEF Addresses
    <3> QED BY <3>1, <3>2, IsLeastOf
  <2>7. \A c \in T : g[c] = LeastOf(Above(T, c))
    <3>1. g[p] = LeastOf(Above(T, p))
      BY <1>1, <2>3, <2>4
    <3> QED BY <3>1, <2>5 DEF Threaded
  <2> QED BY <1>3, <2>6, <2>7 DEF Threaded
<1> QED BY <1>2, <1>3

(* The cells b..e are put in front. *)
LEMMA JoinFront ==
  ASSUME NEW S \in SUBSET Addresses, NEW f, NEW g, NEW h, Threaded(S, f, h),
         NEW b \in Addresses, NEW e \in Nat, b <= e, h = NIL \/ e < h,
         \A c \in b..e : g[c] = IF c = e THEN h ELSE c + 1,
         \A c \in S \ (b..e) : g[c] = f[c]
  PROVE  Threaded(S \cup (b..e), g, b)
<1> DEFINE T == S \cup (b..e)
<1>1. \A c \in S : e < c
  <2>1. \A c \in S : h <= c /\ h # NIL /\ h \in S
    BY LeastOfIs DEF Threaded
  <2>2. \A c \in S : c \in Nat /\ (h \in S => h \in Nat)
    BY DEF Addresses
  <2> QED BY <2>1, <2>2
<1>2. T \in SUBSET Addresses /\ \A c : Above(T, c) \in SUBSET Addresses
  <2>1. T \in SUBSET Addresses
    BY DEF Addresses
  <2> QED BY <2>1, AboveIn
<1>3. b = LeastOf(T)
  BY <1>1, <1>2, IsLeastOf DEF Addresses
<1>4. \A c \in S : Above(T, c) = Above(S, c)
  BY <1>1 DEF Above, Addresses
<1>5. Above(T, e) = S
  <2>1. \A c \in T : c > e <=> c \in S
    BY <1>1 DEF Addresses
  <2> QED BY <2>1 DEF Above
<1>6. ASSUME NEW c \in b..e, c # e PROVE LeastOf(Above(T, c)) = c + 1
  <2>1. c + 1 \in Above(T, c) /\ \A d \in Above(T, c) : c + 1 <= d
    BY <1>6, <1>1 DEF Above, Addresses
  <2> QED BY <1>2, <2>1, IsLeastOf
<1>7. \A c \in S : c \notin b..e
  BY <1>1 DEF Addresses
<1> HIDE DEF T
<1>8. \A c \in S : g[c] = LeastOf(Above(T, c))
  BY <1>4, <1>7 DEF Threaded
<1>9. \A c \in b..e : g[c] = LeastOf(Above(T, c))
  BY <1>5, <1>6 DEF Threaded
<1> QED BY <1>3, <1>8, <1>9 DEF T, Threaded

(* The cells b..e are linked in behind p, the last member below them. *)
LEMMA JoinBehind ==
  ASSUME NEW S \in SUBSET Addresses, NEW f, NEW g, NEW h, Threaded(S, f, h),
         NEW b \in Addresses, NEW e \in Nat, b <= e, (b..e) \cap S = {},
         NEW p \in S, p < b, f[p] = NIL \/ b <= f[p],
         \A c \in b..e : g[c] = IF c = e THEN f[p] ELSE c + 1,
         g[p] = b, \A c \in S \ {p} : g[c] = f[c]
  PROVE  Threaded(S \cup (b..e), g, h)
<1> DEFINE T == S \cup (b..e)
<1>1. T \in SUBSET Addresses /\ (\A c : Above(T, c) \in SUBSET Addresses)
      /\ (\A c : Above(S, c) \in SUBSET Addresses)
  <2>1. T \in SUBSET Addresses
    BY DEF Addresses
  <2> QED BY <2>1, AboveIn
<1>2. \A c \in S : c > p => c > e
  <2>1. f[p] = LeastOf(Above(S, p))
    BY DEF Threaded
  <2>2. \A c \in S : c > p => b <= c
    <3> SUFFICES ASSUME NEW c \in S, c > p PROVE b <= c
      OBVIOUS
    <3>1. c \in Above(S, p)
      BY DEF Above
    <3>2. f[p] # NIL /\ f[p] <= c /\ f[p] \in S
      BY <2>1, <3>1, <1>1, LeastOfIs DEF Above
    <3>3. c \in Nat /\ f[p] \in Nat /\ b \in Nat /\ b <= f[p]
      BY <3>2 DEF Addresses
    <3> QED BY <3>2, <3>3
  <2>3. ASSUME NEW c \in S, c > p PROVE c > e
    <3>1. b <= c /\ c \notin b..e /\ c \in Nat
      BY <2>2, <2>3 DEF Addresses
    <3> QED BY <3>1 DEF Addresses
  <2> QED BY <2>3
<1>3. h = LeastOf(T)
  <2>1. h \in S /\ \A c \in S : h <= c
    BY LeastOfIs DEF Threaded
  <2>2. \A c \in T : h <= c
    BY <2>1 DEF Addresses
  <2> QED BY <1>1, <2>1, <2>2, IsLeastOf
<1>4. Above(T, e) = Above(S, p)
  <2>1. \A c \in T : c > e <=> c \in S /\ c > p
    BY <1>2 DEF Addresses
  <2> QED BY <2>1 DEF Above
<1>5. ASSUME NEW c \in b..e, c # e PROVE LeastOf(Above(T, c)) = c + 1
  <2>1. c + 1 \in Above(T, c)
    BY <1>5 DEF Above, Addresses
  <2>2. \A d \in Above(T, c) : c + 1 <= d
    BY <1>5 DEF Above, Addresses
  <2> QED BY <1>1, <2>1, <2>2, IsLeastOf
<1>6. LeastOf(Above(T, p)) = b
  <2>1. b \in Above(T, p)
    BY DEF Above, Addresses
  <2>2. \A d \in Above(T, p) : b <= d
    BY <1>2 DEF Above, Addresses
  <2> QED BY <1>1, <2>1, <2>2, IsLeastOf
<1>7. ASSUME NEW c \in S, c # p PROVE LeastOf(Above(T, c)) = LeastOf(Above(S, c))
  <2>1. CASE c > p
    <3>1. Above(T, c) = Above(S, c)
      BY <1>2, <2>1 DEF Above, Addresses
    <3> QED BY <3>1
  <2>2. CASE ~(c > p)
    <3> DEFINE m == LeastOf(Above(S, c))
    <3>1. p \in Above(S, c)
      BY <1>7, <2>2 DEF Above, Addresses
    <3>2. m \in Above(S, c) /\ m <= p /\ \A d \in Above(S, c) : m <= d
      BY <3>1, <1>1, LeastOfIs
    <3> HIDE DEF m
    <3>3. m \in Above(T, c)
      BY <3>2 DEF Above
    <3>4. \A d \in Above(T, c) : m <= d
      BY <3>2 DEF Above, Addresses
    <3> QED BY <3>3, <3>4, <1>1, IsLeastOf DEF m
  <2> QED BY <2>1, <2>2
<1> HIDE DEF T
<1>8. \A c \in S : g[c] = LeastOf(Above(T, c))
  BY <1>6, <1>7 DEF Threaded
<1>9. f[p] = LeastOf(Above(S, p))
  BY DEF Threaded
<1>10. \A c \in b..e : g[c] = LeastOf(Above(T, c))
  BY <1>4, <1>5, <1>9
<1> QED BY <1>3, <1>8, <1>10 DEF T, Threaded
-----------------------------------------------------------------------------
(* The inductive invariant                                                 *)

Segments == {cell_seg[k] : k \in 1..Len(cell_seg)}
Used == Allocated \ Free

(* What pointers lead to: never to the cells inside a vector.              *)
Objects == {c \in Cells : kind[c] \in {"pair", "vector"}}
Values == Objects \cup {NIL, Sink}
Holds(c) == kind[c] \in {"pair", "elem"}

Calls == [a : Int, b : Int, x : Int, n : Nat,
          back : {"run", "cell", "holder", "find", "reserve"},
          tries : 0..2, pp : Int, seg : Int]

Types ==
  /\ cell_seg \in Seq(Bases)
  /\ kind \in [Cells -> {"free", "pair", "vector", "elem"}]
  /\ car \in [Cells -> Int] /\ cdr \in [Cells -> Int] /\ len \in [Cells -> Nat]
  /\ no_memory \in BOOLEAN
  /\ pc \in {"run", "cell", "holder", "find", "reserve",
             "collect", "mark", "grow", "link"}
  /\ call \in Calls

Layout ==
  /\ \A i, j \in 1..Len(cell_seg) : i < j => cell_seg[i] < cell_seg[j]
  /\ \A c \in Cells \ Allocated : kind[c] = "free"

Pointers ==
  /\ reg \in [Regs -> Values]
  /\ locals \subseteq Values
  /\ {sink_car, call.a, call.b, call.x} \subseteq Values
  /\ \A c \in Cells : Holds(c) => {car[c], cdr[c]} \subseteq Values

Vectors ==
  \A v \in Cells : kind[v] = "vector" =>
    /\ \E b \in Segments : Elems(v) \cup {v} \subseteq Block(b)
    /\ \A e \in Elems(v) : kind[e] = "elem"
    /\ \A w \in Cells : kind[w] = "vector" /\ w # v => Elems(v) \cap Elems(w) = {}

List ==
  /\ Threaded(Listed, cdr, free_cell)
  /\ fcells = Cardinality(Free)

Linking ==
  pc = "link" =>
    /\ call.seg \in Segments /\ Block(call.seg) \subseteq Free
    /\ \A c \in Block(call.seg) \ {Last(call.seg)} : cdr[c] = c + 1
    /\ call.pp \in Listed /\ call.pp < call.seg

(* What the variables of the allocator hold where.                         *)
Control ==
  /\ pc = "run" \/ (pc \in {"collect", "mark"} /\ call.back = "run") => call = Idle
  /\ pc \in {"grow", "link"} => call.back # "run"
  /\ call.x \in {NIL, call.a}
  /\ pc = "find" => call.pp \in Free \cup {NIL}
  /\ pc \notin {"find", "link"} => call.pp = NIL
  /\ no_memory => pc \in {"run", "cell", "holder", "find"}
  /\ pc \in {"collect", "mark"} /\ call.back \in {"find", "reserve"} => call.tries = 1

(* The holders H of recent allocations: nothing but the sink and holders   *)
(* lead to them, and along them everything is found that an opcode has.    *)
ChainOf(H) ==
  /\ \A h \in H : kind[h] = "pair" /\ cdr[h] \in H \cup {NIL} /\ car[h] \notin H
  /\ sink_car \in H \cup {NIL}
  /\ \A c \in Cells \ H : Holds(c) => {car[c], cdr[c]} \cap H = {}
  /\ \A r \in Regs : reg[r] \notin H
  /\ locals \cap H = {} /\ {call.a, call.b, call.x} \cap H = {}
  /\ \A S \in SUBSET Cells :
       Ptr({sink_car}) \subseteq S /\ (\A h \in H \cap S : Ptr({car[h], cdr[h]}) \subseteq S)
         => Ptr(locals) \subseteq S

Chain == ~no_memory => \E H \in SUBSET Objects : ChainOf(H)

Marking == pc = "mark" => Roots \subseteq marked /\ marked \subseteq Used

(* No run of free cells that is long enough starts at p or below.          *)
NoRunUpTo(p) == \A c \in Free : c <= p => ~(c .. (c + Needed - 1) \subseteq Free)
NoRunAtAll == \A c \in Free : ~(c .. (c + Needed - 1) \subseteq Free)

Search ==
  /\ pc = "find" /\ call.pp # NIL => NoRunUpTo(call.pp)
  /\ pc = "grow" /\ call.back = "find" => NoRunAtAll
  /\ (pc = "find" /\ call.tries = 2) => \E b \in Segments : Block(b) \subseteq Free
  /\ pc = "grow" /\ call.back = "reserve" => fcells < call.n
  /\ (pc = "reserve" /\ call.tries = 2) \/ pc = "link" => fcells >= SegSize

IInv == /\ Types /\ Layout /\ Pointers /\ Vectors /\ List
        /\ Linking /\ Control /\ Chain /\ Marking /\ Search
-----------------------------------------------------------------------------
(* Segments                                                                *)

LEMMA Blocks ==
  ASSUME NEW b \in Bases
  PROVE  /\ b \in Addresses /\ Last(b) \in Addresses /\ b <= Last(b)
         /\ Block(b) = b..Last(b) /\ Block(b) \subseteq Addresses
         /\ b \in Block(b) /\ Last(b) \in Block(b) /\ Last(b) + 1 = b + SegSize
BY LayoutAssumption DEF Block, Last, Addresses

LEMMA CellsAre == Cells \subseteq Addresses /\ NIL \notin Cells /\ Sink \notin Cells
BY Blocks DEF Cells, Addresses, NIL, Sink

LEMMA BlocksApart ==
  ASSUME NEW b \in Bases, NEW d \in Bases, NEW c \in Block(b), c \in Block(d) \/ c + 1 \in Block(d)
  PROVE  b = d
<1>1. b \in Nat /\ d \in Nat /\ SegSize \in Nat /\ c \in b..(b + SegSize - 1)
  BY LayoutAssumption DEF Block
<1>2. c \in d..(d + SegSize - 1) \/ c + 1 \in d..(d + SegSize - 1)
  BY DEF Block
<1>3. (b < d => b + SegSize < d) /\ (d < b => d + SegSize < b)
  BY LayoutAssumption
<1> QED BY <1>1, <1>2, <1>3

LEMMA OneBlock ==
  ASSUME NEW b \in Bases, NEW x \in Block(b), NEW y \in Nat, x..y \subseteq Cells
  PROVE  x..y \subseteq Block(b)
<1>1. x \in Nat
  BY Blocks DEF Addresses
<1>2. ASSUME NEW c \in x..y, c \in Block(b), c < y PROVE c + 1 \in Block(b)
  <2>1. c + 1 \in x..y
    BY <1>1, <1>2
  <2>2. PICK d \in Bases : c + 1 \in Block(d)
    BY <2>1 DEF Cells
  <2> QED BY <1>2, <2>2, BlocksApart
<1> QED BY <1>1, <1>2, Upwards

LEMMA InSegments ==
  ASSUME Types
  PROVE  /\ Segments \subseteq Bases
         /\ Allocated = UNION {Block(b) : b \in Segments}
         /\ Allocated \subseteq Cells
<1>1. \A k \in 1..Len(cell_seg) : cell_seg[k] \in Bases
  BY DEF Types
<1> QED BY <1>1 DEF Segments, Allocated, Cells

LEMMA AllocatedFinite == Types => IsFiniteSet(Allocated)
<1> SUFFICES ASSUME Types PROVE IsFiniteSet(Allocated)
  OBVIOUS
<1> DEFINE I == 1..Len(cell_seg)
           F == {Block(cell_seg[i]) : i \in I}
           f == [i \in I |-> Block(cell_seg[i])]
<1>1. Len(cell_seg) \in Nat /\ \A i \in I : cell_seg[i] \in Bases
  BY DEF Types
<1>2. IsFiniteSet(I)
  BY <1>1, FS_Interval
<1>3. f \in Surjection(I, F)
  BY DEF Surjection
<1>4. IsFiniteSet(F)
  BY <1>2, <1>3, FS_Surjection
<1>5. \A T \in F : IsFiniteSet(T)
  <2>1. ASSUME NEW i \in I PROVE IsFiniteSet(Block(cell_seg[i]))
    <3>1. cell_seg[i] \in Int /\ cell_seg[i] + SegSize - 1 \in Int
      <4>1. cell_seg[i] \in Nat \ {0} /\ SegSize \in Nat
        BY <1>1, LayoutAssumption
      <4> QED BY <4>1
    <3> QED BY <3>1, FS_Interval DEF Block
  <2> QED BY <2>1
<1>6. Allocated = UNION F
  BY DEF Allocated
<1> QED BY <1>4, <1>5, <1>6, FS_UNION

(* The kinds of cells.                                                     *)
LEMMA Kinds ==
  ASSUME Types, Layout
  PROVE  /\ Used = {c \in Cells : kind[c] # "free"}
         /\ Free \subseteq Allocated /\ Used \subseteq Allocated
         /\ Free \subseteq Cells /\ Free \cap Used = {}
         /\ Objects \subseteq Used /\ Objects \subseteq Cells
         /\ \A c \in Cells : kind[c] = "elem" => c \in Used
BY InSegments DEF Types, Layout, Used, Free, Objects

LEMMA ListedIn ==
  ASSUME Types
  PROVE  Listed \subseteq Free /\ Listed \in SUBSET Addresses /\ Free \in SUBSET Addresses
<1>1. Free \subseteq Cells
  BY InSegments DEF Free
<1> QED BY <1>1, CellsAre DEF Listed

(* What an opcode can lay its hands on are objects.                        *)
LEMMA Reach ==
  ASSUME IInv
  PROVE  /\ InReach \subseteq Values
         /\ \A H \in SUBSET Objects : ChainOf(H) => InReach \cap H = {}
<1>1. InHand \subseteq Values \ {NIL}
  BY DEF IInv, Pointers, InHand
<1>2. ASSUME NEW c \in InHand PROVE Fields(c) \subseteq Values
  <2>1. CASE c = Sink
    BY <2>1 DEF Fields
  <2>2. CASE c \in Objects
    <3>1. c \in Cells /\ kind[c] \in {"pair", "vector"} /\ c # Sink
      BY <2>2, CellsAre DEF Objects
    <3>2. CASE kind[c] = "vector"
      <4>1. \A e \in Elems(c) : e \in Cells /\ kind[e] = "elem"
        BY <3>1, <3>2, InSegments DEF IInv, Vectors, Cells
      <4>2. \A e \in Elems(c) : car[e] \in Values /\ cdr[e] \in Values
        BY <4>1 DEF IInv, Pointers, Holds
      <4> QED BY <3>1, <3>2, <4>2 DEF Fields
    <3>3. CASE kind[c] = "pair"
      BY <3>1, <3>3 DEF Fields, IInv, Pointers, Holds
    <3> QED BY <3>1, <3>2, <3>3
  <2> QED BY <1>1, <2>1, <2>2 DEF Values
<1>3. InReach \subseteq Values
  BY <1>1, <1>2 DEF InReach, Values
<1>4. ASSUME NEW H \in SUBSET Objects, ChainOf(H) PROVE InReach \cap H = {}
  <2>1. InHand \cap H = {} /\ NIL \notin H
    BY <1>4, CellsAre DEF ChainOf, InHand, Objects
  <2>2. ASSUME NEW c \in InHand PROVE Fields(c) \cap H = {}
    <3>1. CASE c = Sink
      BY <3>1 DEF Fields
    <3>2. CASE c \in Objects
      <4>1. c \in Cells /\ kind[c] \in {"pair", "vector"} /\ c # Sink /\ c \notin H
        BY <2>1, <3>2, CellsAre DEF Objects
      <4>2. CASE kind[c] = "vector"
        <5>1. \A e \in Elems(c) : e \in Cells /\ kind[e] = "elem"
          BY <4>1, <4>2, InSegments DEF IInv, Vectors, Cells
        <5>2. \A e \in Elems(c) : car[e] \notin H /\ cdr[e] \notin H
          BY <5>1, <1>4 DEF ChainOf, Holds
        <5> QED BY <4>1, <4>2, <5>2 DEF Fields
      <4>3. CASE kind[c] = "pair"
        BY <4>1, <4>3, <1>4 DEF Fields, ChainOf, Holds
      <4> QED BY <4>1, <4>2, <4>3
    <3> QED BY <1>1, <3>1, <3>2 DEF Values
  <2> QED BY <2>1, <2>2 DEF InReach
<1> QED BY <1>3, <1>4
-----------------------------------------------------------------------------
(* Steps that leave the cells and the lists alone                          *)

LEMMA SameHeap ==
  ASSUME UNCHANGED <<cell_seg, kind, car, cdr, len>>
  PROVE  /\ Segments' = Segments /\ Allocated' = Allocated
         /\ Free' = Free /\ Used' = Used /\ Objects' = Objects /\ Values' = Values
         /\ Layout => Layout'
         /\ Vectors => Vectors'
<1>1. /\ Segments' = Segments /\ Allocated' = Allocated /\ Free' = Free
      /\ Objects' = Objects /\ \A v : Elems(v)' = Elems(v)
  BY DEF Segments, Allocated, Free, Objects, Elems
<1>2. Vectors => Vectors'
  BY <1>1 DEF Vectors
<1> QED BY <1>1, <1>2 DEF Used, Values, Layout

(* The holders and what they hold for stay.                                *)
LEMMA ChainStays ==
  ASSUME NEW H, ChainOf(H), UNCHANGED <<kind, car, cdr, sink_car, locals>>,
         \A r \in Regs : reg'[r] \notin H,
         {call'.a, call'.b, call'.x} \cap H = {}
  PROVE  ChainOf(H)'
BY DEF ChainOf, Ptr, Holds

LEMMA QuietStep ==
  ASSUME IInv, UNCHANGED <<lists, cells>>, pc # "link", pc' # "link",
         Types', Control', Marking', Search',
         reg' \in [Regs -> InReach],
         {call'.a, call'.b, call'.x} \subseteq InReach \cup {call.a, call.b, call.x},
         sink_car' \in {sink_car, Sink}, locals' \subseteq locals \cup {Sink, call.x},
         ~no_memory' => ~no_memory /\ UNCHANGED <<sink_car, locals>>
  PROVE  IInv'
<1>1. UNCHANGED <<cell_seg, kind, car, cdr, len>> /\ UNCHANGED <<free_cell, fcells>>
  BY DEF lists, cells
<1>2. /\ Free' = Free /\ Objects' = Objects /\ Values' = Values
      /\ Layout' /\ Vectors'
  BY <1>1, SameHeap DEF IInv
<1>3. List' /\ Linking'
  <2>1. Listed' = Listed
    BY <1>2 DEF Listed
  <2> QED BY <1>1, <1>2, <2>1 DEF IInv, List, Linking, Threaded
<1>4. Pointers'
  <2>1. InReach \subseteq Values /\ Sink \in Values
    BY Reach DEF Values
  <2>2. {sink_car', call'.a, call'.b, call'.x} \subseteq Values /\ locals' \subseteq Values
    BY <2>1 DEF IInv, Pointers
  <2>3. reg' \in [Regs -> Values]
    BY <2>1
  <2>4. \A c \in Cells : Holds(c)' => {car'[c], cdr'[c]} \subseteq Values
    BY <1>1 DEF IInv, Pointers, Holds
  <2> QED BY <1>2, <2>2, <2>3, <2>4 DEF Pointers
<1>5. Chain'
  <2> SUFFICES ASSUME ~no_memory' PROVE \E H \in SUBSET Objects' : ChainOf(H)'
    BY DEF Chain
  <2>1. PICK H \in SUBSET Objects : ChainOf(H)
    BY DEF IInv, Chain
  <2>2. InReach \cap H = {} /\ {call.a, call.b, call.x} \cap H = {}
    BY <2>1, Reach DEF ChainOf
  <2>3. ChainOf(H)'
    BY <1>1, <2>1, <2>2, ChainStays
  <2> QED BY <1>2, <2>3
<1> QED BY <1>2, <1>3, <1>4, <1>5 DEF IInv

(* The registers and NIL are in reach.                                     *)
LEMMA RegsInReach ==
  ASSUME IInv
  PROVE  reg \in [Regs -> InReach] /\ NIL \in InReach
BY DEF IInv, Pointers, InReach, InHand

LEMMA NatFacts == SegSize \in Nat /\ NIL \in Int /\ Sink \in Int /\ Cells \subseteq Int
BY LayoutAssumption, CellsAre DEF NIL, Sink, Addresses

LEMMA InReachInt == IInv => InReach \subseteq Int
BY Reach, NatFacts DEF Values, Objects

LEMMA IdleIs ==
  /\ Idle \in Calls
  /\ Idle.a = NIL /\ Idle.b = NIL /\ Idle.x = NIL /\ Idle.pp = NIL /\ Idle.tries = 0
BY NatFacts DEF Idle, Calls

LEMMA ConsKeeps == ASSUME IInv, NEW a, NEW b, Cons(a, b) PROVE IInv'
<1>1. a \in Int /\ b \in Int
  BY InReachInt DEF Cons
<1>2. UNCHANGED <<cell_seg, kind, car, cdr, len>>
  BY DEF Cons, cells, lists
<1>3. call' = [Idle EXCEPT !.a = a, !.b = b] /\ pc' = "cell" /\ pc = "run"
  BY DEF Cons
<1>4. /\ call'.a = a /\ call'.b = b /\ call'.x = NIL /\ call'.pp = NIL
      /\ call' \in Calls
  BY <1>1, <1>3, IdleIs DEF Calls
<1>5. Types'
  BY <1>2, <1>3, <1>4 DEF Cons, IInv, Types
<1>6. Control' /\ Marking' /\ Search'
  BY <1>3, <1>4 DEF Cons, IInv, Control, Marking, Search
<1> QED BY <1>3, <1>4, <1>5, <1>6, QuietStep, RegsInReach DEF Cons

LEMMA HoldArgsKeeps == ASSUME IInv, NEW r \in Regs, HoldArgs(r) PROVE IInv'
<1>1. reg[r] \in InReach /\ reg[r] \in Int
  BY RegsInReach, InReachInt
<1>2. UNCHANGED <<cell_seg, kind, car, cdr, len>>
  BY DEF HoldArgs, cells, lists
<1>3. call' = [Idle EXCEPT !.x = reg[r], !.a = reg[r]] /\ pc' = "holder" /\ pc = "run"
  BY DEF HoldArgs
<1>4. /\ call'.a = reg[r] /\ call'.b = NIL /\ call'.x = reg[r] /\ call'.pp = NIL
      /\ call' \in Calls
  BY <1>1, <1>3, IdleIs DEF Calls
<1>5. Types'
  BY <1>2, <1>3, <1>4 DEF HoldArgs, IInv, Types
<1>6. Control' /\ Marking' /\ Search'
  BY <1>3, <1>4 DEF HoldArgs, IInv, Control, Marking, Search
<1> QED BY <1>1, <1>3, <1>4, <1>5, <1>6, QuietStep, RegsInReach DEF HoldArgs

LEMMA MkVectorKeeps == ASSUME IInv, NEW n \in VecLens, MkVector(n) PROVE IInv'
<1>1. n \in Nat
  BY LayoutAssumption
<1>2. UNCHANGED <<cell_seg, kind, car, cdr, len>>
  BY DEF MkVector, cells, lists
<1>3. call' = [Idle EXCEPT !.n = n] /\ pc' = "find" /\ pc = "run"
  BY DEF MkVector
<1>4. /\ call'.a = NIL /\ call'.b = NIL /\ call'.x = NIL /\ call'.pp = NIL
      /\ call'.tries = 0 /\ call' \in Calls
  BY <1>1, <1>3, IdleIs DEF Calls
<1>5. Types'
  BY <1>2, <1>3, <1>4 DEF MkVector, IInv, Types
<1>6. Control' /\ Marking' /\ Search'
  BY <1>3, <1>4 DEF MkVector, IInv, Control, Marking, Search
<1> QED BY <1>3, <1>4, <1>5, <1>6, QuietStep, RegsInReach DEF MkVector

LEMMA ReserveCellsKeeps ==
  ASSUME IInv, NEW n \in Reserves, ReserveCells(n) PROVE IInv'
<1>1. n \in Nat
  BY LayoutAssumption
<1>2. UNCHANGED <<cell_seg, kind, car, cdr, len>>
  BY DEF ReserveCells, cells, lists
<1>3. call' = [Idle EXCEPT !.n = n] /\ pc' = "reserve" /\ pc = "run"
  BY DEF ReserveCells
<1>4. /\ call'.a = NIL /\ call'.b = NIL /\ call'.x = NIL /\ call'.pp = NIL
      /\ call'.tries = 0 /\ call' \in Calls
  BY <1>1, <1>3, IdleIs DEF Calls
<1>5. Types'
  BY <1>2, <1>3, <1>4 DEF ReserveCells, IInv, Types
<1>6. Control' /\ Marking' /\ Search'
  BY <1>3, <1>4 DEF ReserveCells, IInv, Control, Marking, Search
<1> QED BY <1>3, <1>4, <1>5, <1>6, QuietStep, RegsInReach DEF ReserveCells

(* Steps that end the call.                                                *)
LEMMA CallEnds ==
  ASSUME IInv, UNCHANGED <<lists, cells, reg>>, pc # "link",
         pc' = "run", call' = Idle, no_memory' \in BOOLEAN,
         sink_car' \in {sink_car, Sink}, locals' \subseteq locals \cup {Sink, call.x},
         ~no_memory' => ~no_memory /\ UNCHANGED <<sink_car, locals>>
  PROVE  IInv'
<1>1. Types'
  BY IdleIs DEF IInv, Types, lists, cells
<1>2. Control' /\ Marking' /\ Search'
  BY IdleIs DEF Control, Marking, Search
<1> QED BY <1>1, <1>2, QuietStep, RegsInReach, IdleIs

LEMMA TakeSinkKeeps == ASSUME IInv, TakeSink PROVE IInv'
BY CallEnds DEF TakeSink

LEMMA NoVectorKeeps == ASSUME IInv, NoVector PROVE IInv'
BY CallEnds DEF NoVector

(* Steps of the allocator that only go to another place. *)
LEMMA GoesOn ==
  ASSUME IInv, UNCHANGED <<lists, cells, sink_car, no_memory, reg, locals>>,
         pc # "link", pc' # "link",
         call' \in Calls, UNCHANGED <<call.a, call.b, call.x>>,
         pc' \in {"run", "cell", "holder", "find", "reserve", "collect", "mark", "grow"},
         Control', Marking', Search'
  PROVE  IInv'
<1>1. Types'
  BY DEF IInv, Types, lists, cells
<1>2. {call'.a, call'.b, call'.x} \subseteq {call.a, call.b, call.x}
  OBVIOUS
<1> QED BY <1>1, <1>2, QuietStep, RegsInReach

LEMMA FreeThreaded ==
  ASSUME IInv, pc # "link"
  PROVE  Threaded(Free, cdr, free_cell) /\ Free \in SUBSET Addresses
BY ListedIn DEF IInv, List, Listed

LEMMA NumCellsIs == ASSUME NEW n \in Nat PROVE NumCells(n) \in Nat
BY DEF NumCells

LEMMA NeededIs == Types => Needed \in Nat /\ Needed >= 1
<1> SUFFICES ASSUME Types PROVE Needed \in Nat /\ Needed >= 1
  OBVIOUS
<1>1. call.n \in Nat
  BY DEF Types, Calls
<1>2. NumCells(call.n) \in Nat
  BY <1>1, NumCellsIs
<1> QED BY <1>2 DEF Needed

(* find_consecutive_cells looks next at the first free cell above pp. *)
LEMMA NextRun ==
  ASSUME IInv, pc = "find"
  PROVE  /\ At(call.pp) = LeastOf(Above(Free, call.pp))
         /\ Above(Free, call.pp) \in SUBSET Addresses
         /\ At(call.pp) # NIL => At(call.pp) \in Free /\ At(call.pp) > call.pp
         /\ \A c \in Free : c <= call.pp \/ (At(call.pp) # NIL /\ At(call.pp) <= c)
<1>1. Threaded(Free, cdr, free_cell) /\ Free \in SUBSET Addresses
  BY FreeThreaded
<1>2. call.pp \in Free \cup {NIL} /\ call.pp \in Nat
  <2>1. call.pp \in Free \cup {NIL}
    BY DEF IInv, Control
  <2>2. Free \subseteq Nat /\ NIL \in Nat
    BY <1>1 DEF Addresses, NIL
  <2> QED BY <2>1, <2>2
<1>3. At(call.pp) = LeastOf(Above(Free, call.pp))
  <2>1. CASE call.pp = NIL
    <3>1. Above(Free, call.pp) = Free
      <4>1. \A d \in Free : d > call.pp
        BY <1>1, <2>1 DEF Addresses, NIL
      <4> QED BY <4>1 DEF Above
    <3> QED BY <1>1, <2>1, <3>1 DEF At, Threaded
  <2>2. CASE call.pp # NIL
    BY <1>1, <1>2, <2>2 DEF At, Threaded
  <2> QED BY <2>1, <2>2
<1>4. Above(Free, call.pp) \in SUBSET Addresses
  BY <1>1, AboveIn
<1>5. \A c \in Free : c > call.pp => At(call.pp) <= c /\ At(call.pp) \in Above(Free, call.pp)
  BY <1>3, <1>4, LeastOfIs DEF Above
<1>6. At(call.pp) # NIL => At(call.pp) \in Above(Free, call.pp)
  BY <1>3, <1>4, LeastOfIs
<1>7. \A c \in Free : c \in Nat
  BY <1>1 DEF Addresses
<1>8. \A c \in Above(Free, call.pp) : c \in Free /\ c > call.pp /\ c # NIL
  BY <1>1 DEF Above, Addresses, NIL
<1> QED BY <1>2, <1>3, <1>4, <1>5, <1>6, <1>7, <1>8

LEMMA SkipRunKeeps == ASSUME IInv, SkipRun PROVE IInv'
<1> DEFINE x == At(call.pp)
<1>0. Needed \in Nat /\ Needed >= 1 /\ call \in Calls /\ call.pp \in Int
  BY NeededIs DEF IInv, Types, Calls
<1>1. /\ pc = "find" /\ pc' = "find" /\ x # NIL /\ x \in Free /\ x > call.pp
      /\ Free \in SUBSET Addresses /\ Threaded(Free, cdr, free_cell)
      /\ \A c \in Free : c <= call.pp \/ x <= c
  BY NextRun, FreeThreaded DEF SkipRun
<1>2. PICK q \in x .. (x + Needed - 2) :
        /\ count_consecutive_cells(x, q - x + 1) /\ cdr[q] # q + 1
        /\ call' = [call EXCEPT !.pp = q]
  BY DEF SkipRun
<1>3. x \in Nat /\ q \in Nat /\ x <= q
  BY <1>0, <1>1, <1>2 DEF Addresses
<1>4. \A c \in x..(q - 1) : cdr[c] = c + 1
  <2>1. x + (q - x + 1) - 2 = q - 1
    BY <1>3
  <2> QED BY <1>2, <2>1 DEF count_consecutive_cells
<1>5. x..q \subseteq Free
  BY <1>1, <1>3, <1>4, RunInList
<1>6. /\ call' \in Calls /\ call'.pp = q /\ call'.n = call.n /\ call'.tries = call.tries
      /\ call'.a = call.a /\ call'.b = call.b /\ call'.x = call.x /\ call'.back = call.back
  BY <1>0, <1>2, <1>3 DEF Calls
<1>7. q \in Free /\ Free' = Free /\ Needed' = Needed
  BY <1>3, <1>5, <1>6, SameHeap DEF SkipRun, lists, cells, Needed
<1>8. Control'
  BY <1>1, <1>6, <1>7 DEF SkipRun, IInv, Control
<1>9. ~(q + 1 \in Free)
  <2> SUFFICES ASSUME q + 1 \in Free PROVE FALSE
    OBVIOUS
  <2>1. q + 1 \in Above(Free, q) /\ \A d \in Above(Free, q) : q + 1 <= d
    BY <1>1, <1>3 DEF Above, Addresses
  <2>2. LeastOf(Above(Free, q)) = q + 1
    BY <1>1, <2>1, AboveIn, IsLeastOf
  <2> QED BY <1>1, <1>2, <1>7, <2>2 DEF Threaded
<1>10. NoRunUpTo(q)
  <2> SUFFICES ASSUME NEW c \in Free, c <= q, c .. (c + Needed - 1) \subseteq Free
               PROVE  FALSE
    BY DEF NoRunUpTo
  <2>1. c \in Nat /\ (call.pp # NIL => NoRunUpTo(call.pp)) /\ call.pp \in Free \cup {NIL}
    BY <1>1 DEF Addresses, IInv, Search, Control
  <2>2. CASE c <= call.pp
    <3>1. call.pp # NIL
      BY <1>1, <2>2 DEF Addresses, NIL
    <3> QED BY <2>1, <2>2, <3>1 DEF NoRunUpTo
  <2>3. CASE x <= c
    <3>1. q + 1 \in c .. (c + Needed - 1)
      BY <1>0, <1>2, <1>3, <2>1, <2>3
    <3> QED BY <3>1, <1>9
  <2> QED BY <1>1, <2>2, <2>3
<1>11. Search'
  <2>1. NoRunUpTo(q)'
    BY <1>7, <1>10 DEF NoRunUpTo
  <2>2. (\E b \in Segments : Block(b) \subseteq Free)' <=> (\E b \in Segments : Block(b) \subseteq Free)
    BY <1>7, SameHeap DEF SkipRun, lists, cells
  <2>3. call.tries = 2 => \E b \in Segments : Block(b) \subseteq Free
    BY <1>1 DEF IInv, Search
  <2> QED BY <1>1, <1>6, <2>1, <2>2, <2>3 DEF Search
<1>12. Marking'
  BY <1>1 DEF Marking
<1> QED BY <1>1, <1>6, <1>8, <1>11, <1>12, GoesOn DEF SkipRun

LEMMA NoRunKeeps == ASSUME IInv, NoRun PROVE IInv'
<1>0. call \in Calls /\ call.pp \in Int /\ call.pp \in Free \cup {NIL}
  BY DEF NoRun, IInv, Types, Calls, Control
<1>1. /\ pc = "find" /\ ~no_memory /\ At(call.pp) = NIL
      /\ \A c \in Free : c <= call.pp
  BY NextRun DEF NoRun
<1>2. CASE pc' = "run"
  BY <1>1, <1>2, CallEnds DEF NoRun
<1>3. CASE pc' # "run"
  <2>1. /\ pc' \in {"collect", "grow"} /\ call'.back = "find" /\ call' \in Calls
        /\ call'.a = call.a /\ call'.b = call.b /\ call'.x = call.x /\ call'.n = call.n
        /\ call'.pp = NIL /\ (pc' = "collect" => call'.tries = 1)
        /\ UNCHANGED <<lists, cells, sink_car, no_memory, reg, locals>>
    <3>1. \/ pc' = "collect" /\ call' = [call EXCEPT !.tries = 1, !.back = "find", !.pp = NIL]
          \/ pc' = "grow" /\ call' = [call EXCEPT !.tries = 2, !.back = "find", !.pp = NIL]
      BY <1>3 DEF NoRun
    <3>2. UNCHANGED <<lists, cells, sink_car, no_memory, reg, locals>>
      BY <1>3 DEF NoRun
    <3>3. /\ pc' \in {"collect", "grow"} /\ call'.back = "find"
          /\ call'.a = call.a /\ call'.b = call.b /\ call'.x = call.x /\ call'.n = call.n
          /\ call'.pp = NIL /\ (pc' = "collect" => call'.tries = 1)
      BY <1>0, <3>1 DEF Calls
    <3>4. \A t \in 0..2 : [call EXCEPT !.tries = t, !.back = "find", !.pp = NIL] \in Calls
      BY <1>0, NatFacts DEF Calls
    <3>5. call' \in Calls
      BY <3>1, <3>4
    <3> QED BY <3>2, <3>3, <3>5
  <2>2. Free' = Free /\ Needed' = Needed
    BY <2>1, SameHeap DEF lists, cells, Needed
  <2>3. Control' /\ Marking'
    BY <1>1, <2>1 DEF IInv, Control, Marking
  <2>4. NoRunAtAll
    <3> SUFFICES ASSUME NEW c \in Free PROVE ~(c .. (c + Needed - 1) \subseteq Free)
      BY DEF NoRunAtAll
    <3>1. call.pp # NIL
      BY <1>1, FreeThreaded DEF Addresses, NIL
    <3> QED BY <1>1, <3>1 DEF IInv, Search, NoRunUpTo
  <2>5. Search'
    BY <2>1, <2>2, <2>4 DEF Search, NoRunAtAll
  <2> QED BY <1>1, <2>1, <2>3, <2>5, GoesOn
<1> QED BY <1>2, <1>3

LEMMA ReserveKeeps == ASSUME IInv, Reserve PROVE IInv'
<1>0. /\ call \in Calls /\ ~no_memory /\ no_memory \in BOOLEAN
      /\ pc = "reserve" /\ call.pp = NIL
  BY DEF Reserve, IInv, Types, Control
<1>1. CASE pc' = "run"
  <2>1. no_memory' \in BOOLEAN /\ call' = Idle
    BY <1>0, <1>1 DEF Reserve
  <2> QED BY <1>0, <1>1, <2>1, CallEnds DEF Reserve
<1>2. CASE pc' # "run"
  <2>1. /\ pc' \in {"collect", "grow"} /\ call'.back = "reserve" /\ call' \in Calls
        /\ call'.a = call.a /\ call'.b = call.b /\ call'.x = call.x /\ call'.n = call.n
        /\ call'.pp = NIL /\ (pc' = "collect" => call'.tries = 1)
        /\ fcells < call.n
        /\ UNCHANGED <<lists, cells, sink_car, no_memory, reg, locals>>
    <3>1. \/ pc' = "collect" /\ call' = [call EXCEPT !.tries = 1, !.back = "reserve"]
          \/ pc' = "grow" /\ call' = [call EXCEPT !.tries = 2, !.back = "reserve"]
      BY <1>2 DEF Reserve
    <3>2. /\ fcells < call.n
          /\ UNCHANGED <<lists, cells, sink_car, no_memory, reg, locals>>
      BY <1>2 DEF Reserve
    <3>3. /\ pc' \in {"collect", "grow"} /\ call'.back = "reserve"
          /\ call'.a = call.a /\ call'.b = call.b /\ call'.x = call.x /\ call'.n = call.n
          /\ call'.pp = NIL /\ (pc' = "collect" => call'.tries = 1)
      BY <1>0, <3>1 DEF Calls
    <3>4. \A t \in 0..2 : [call EXCEPT !.tries = t, !.back = "reserve"] \in Calls
      BY <1>0 DEF Calls
    <3>5. call' \in Calls
      BY <3>1, <3>4
    <3> QED BY <3>2, <3>3, <3>5
  <2>2. Control' /\ Marking' /\ Search'
    BY <1>0, <2>1 DEF IInv, Control, Marking, Search, lists
  <2> QED BY <1>0, <2>1, <2>2, GoesOn
<1> QED BY <1>1, <1>2

LEMMA NeedGcKeeps == ASSUME IInv, NeedGc PROVE IInv'
<1>1. /\ call' \in Calls /\ call'.a = call.a /\ call'.b = call.b /\ call'.x = call.x
      /\ call'.pp = NIL /\ call'.back = pc /\ pc \in {"cell", "holder"}
      /\ pc' = "collect" /\ ~no_memory'
  BY DEF NeedGc, IInv, Types, Calls, Control
<1>2. Control' /\ Marking' /\ Search'
  BY <1>1 DEF NeedGc, IInv, Control, Marking, Search
<1> QED BY <1>1, <1>2, GoesOn DEF NeedGc

LEMMA GcPrimitiveKeeps == ASSUME IInv, GcPrimitive PROVE IInv'
<1>1. call' = Idle /\ call' \in Calls /\ Idle.back = "run"
  BY DEF GcPrimitive, IInv, Types, Control, Idle
<1>2. Control' /\ Marking' /\ Search'
  BY <1>1, IdleIs DEF GcPrimitive, IInv, Control, Marking, Search
<1> QED BY <1>1, <1>2, GoesOn DEF GcPrimitive

(* What is in use leads to what is in use. *)
LEMMA PointsUsed ==
  ASSUME IInv
  PROVE  /\ \A c \in Used : Points(c) \subseteq Used
         /\ \A S : S \subseteq Values => Ptr(S) \subseteq Used
<1>1. \A S : S \subseteq Values => Ptr(S) \subseteq Used
  BY Kinds DEF IInv, Ptr, Values
<1>2. ASSUME NEW c \in Used PROVE Points(c) \subseteq Used
  <2>1. c \in Cells /\ kind[c] \in {"pair", "vector", "elem"}
    BY Kinds DEF IInv, Types
  <2>2. CASE kind[c] = "vector"
    <3>1. \A e \in Elems(c) : e \in Cells /\ kind[e] = "elem"
      BY <2>1, <2>2, InSegments DEF IInv, Vectors, Cells
    <3>2. Elems(c) \subseteq Used
      BY <3>1, Kinds DEF IInv
    <3>3. Points(c) = Elems(c)
      BY <2>2 DEF Points
    <3> QED BY <3>2, <3>3
  <2>3. CASE kind[c] # "vector"
    <3>1. {car[c], cdr[c]} \subseteq Values
      BY <2>1, <2>3 DEF IInv, Pointers, Holds
    <3>2. Points(c) = Ptr({car[c], cdr[c]})
      BY <2>1, <2>3 DEF Points
    <3> QED BY <1>1, <3>1, <3>2
  <2> QED BY <2>2, <2>3
<1> QED BY <1>1, <1>2

LEMMA RootsUsed == IInv => Roots \subseteq Used
<1> SUFFICES ASSUME IInv PROVE Roots \subseteq Used
  OBVIOUS
<1>1. {reg[r] : r \in Regs} \cup {sink_car, call.a, call.b} \subseteq Values
  BY DEF IInv, Pointers
<1> QED BY <1>1, PointsUsed DEF Roots

LEMMA RootsStay ==
  ASSUME UNCHANGED <<reg, sink_car, call>> PROVE Roots' = Roots
BY DEF Roots, Ptr

LEMMA StartMarkingKeeps == ASSUME IInv, StartMarking PROVE IInv'
<1>1. call \in Calls /\ call' = call
  BY DEF StartMarking, IInv, Types
<1>2. Used' = Used /\ Roots' = Roots
  BY SameHeap, RootsStay DEF StartMarking, lists, cells
<1>3. Marking'
  BY <1>2, RootsUsed DEF StartMarking, Marking
<1>4. Control' /\ Search'
  BY <1>1 DEF StartMarking, IInv, Control, Search
<1> QED BY <1>1, <1>3, <1>4, GoesOn DEF StartMarking

LEMMA MarkKeeps == ASSUME IInv, Mark PROVE IInv'
<1>1. call \in Calls /\ call' = call /\ pc = "mark" /\ pc' = pc
  BY DEF Mark, IInv, Types
<1>2. Used' = Used /\ Roots' = Roots
  BY SameHeap, RootsStay DEF Mark, lists, cells
<1>3. Marking'
  BY <1>1, <1>2, PointsUsed DEF Mark, Marking, IInv
<1>4. Control' /\ Search'
  BY <1>1 DEF Mark, IInv, Control, Search
<1> QED BY <1>1, <1>3, <1>4, GoesOn DEF Mark

LEMMA NoSegmentKeeps == ASSUME IInv, NoSegment PROVE IInv'
<1>1. /\ pc = "grow" /\ ~no_memory /\ call \in Calls /\ call.pp = NIL
  BY DEF NoSegment, IInv, Types, Control
<1>2. CASE call.back \in {"find", "reserve"}
  BY <1>1, <1>2, CallEnds DEF NoSegment
<1>3. CASE call.back \in {"cell", "holder"}
  <2>1. /\ pc' = call.back /\ call' = call /\ no_memory' \in BOOLEAN
        /\ UNCHANGED <<lists, cells, sink_car, reg, locals>>
    BY <1>3 DEF NoSegment
  <2>2. Types'
    BY <1>3, <2>1 DEF IInv, Types, lists, cells
  <2>3. Control' /\ Marking' /\ Search'
    BY <1>1, <1>3, <2>1 DEF IInv, Control, Marking, Search
  <2> QED BY <1>1, <1>3, <2>1, <2>2, <2>3, QuietStep, RegsInReach
<1> QED BY <1>2, <1>3 DEF NoSegment

LEMMA AssignKeeps == ASSUME IInv, NEW r \in Regs, NEW v, Assign(r, v) PROVE IInv'
<1>1. pc = "run" /\ pc' = pc /\ call' = call /\ v \in InReach
  BY DEF Assign
<1>2. reg' \in [Regs -> InReach]
  BY <1>1, RegsInReach DEF Assign
<1>3. Types'
  BY DEF Assign, IInv, Types, lists, cells
<1>4. Control' /\ Marking' /\ Search'
  BY <1>1 DEF Assign, IInv, Control, Marking, Search
<1> QED BY <1>1, <1>2, <1>3, <1>4, QuietStep DEF Assign

(* The recent allocations are let go of: there are no holders any more. *)
LEMMA FreelyGcKeeps == ASSUME IInv, ok_to_freely_gc PROVE IInv'
<1>1. /\ pc = "run" /\ pc' = pc /\ call' = call /\ ~no_memory /\ sink_car' = NIL /\ locals' = {}
      /\ UNCHANGED <<cell_seg, free_cell, fcells, kind, car, cdr, len, no_memory, reg>>
  BY DEF ok_to_freely_gc, lists, cells
<1>2. /\ Free' = Free /\ Objects' = Objects /\ Values' = Values
      /\ Layout' /\ Vectors'
  BY <1>1, SameHeap DEF IInv
<1>3. Listed' = Listed
  BY <1>1, <1>2 DEF Listed
<1>4. Types' /\ List' /\ Linking' /\ Control' /\ Marking' /\ Search'
  BY <1>1, <1>2, <1>3 DEF IInv, Types, List, Threaded, Linking, Control, Marking, Search
<1>5. Pointers'
  BY <1>1, <1>2 DEF IInv, Pointers, Holds, Values
<1>6. ChainOf({})'
  BY <1>1 DEF ChainOf, Ptr
<1> QED BY <1>2, <1>4, <1>5, <1>6 DEF IInv, Chain

LEMMA WalkOnKeeps == ASSUME IInv, WalkOn PROVE IInv'
<1>1. /\ pc = "link" /\ pc' = pc /\ call' = [call EXCEPT !.pp = cdr[call.pp]]
      /\ UNCHANGED <<cell_seg, free_cell, fcells, kind, car, cdr, len, sink_car,
                     no_memory, reg, locals>>
      /\ BelowSegment /\ call \in Calls
  BY DEF WalkOn, lists, cells, IInv, Types
<1>2. /\ Free' = Free /\ Objects' = Objects /\ Values' = Values /\ Segments' = Segments
      /\ Layout' /\ Vectors'
  BY <1>1, SameHeap DEF IInv
<1>3. call.pp \in Listed /\ Threaded(Listed, cdr, free_cell) /\ Listed \in SUBSET Addresses
  BY <1>1, ListedIn DEF IInv, Linking, List
<1>4. cdr[call.pp] \in Listed /\ cdr[call.pp] < call.seg /\ cdr[call.pp] \in Int
  <2>1. cdr[call.pp] = LeastOf(Above(Listed, call.pp)) /\ cdr[call.pp] # NIL
    BY <1>1, <1>3 DEF Threaded, BelowSegment
  <2>2. Above(Listed, call.pp) \in SUBSET Addresses
    BY <1>3, AboveIn
  <2>3. cdr[call.pp] \in Above(Listed, call.pp)
    BY <2>1, <2>2, LeastOfIs
  <2>4. cdr[call.pp] \in Listed /\ cdr[call.pp] \in Int
    <3>1. cdr[call.pp] \in Listed
      BY <2>3 DEF Above
    <3>2. \A c \in Listed : c \in Nat
      BY <1>3 DEF Addresses
    <3>3. cdr[call.pp] \in Nat
      BY <3>1, <3>2
    <3> QED BY <3>1, <3>3
  <2>5. call.seg \in Int
    BY <1>1 DEF Calls
  <2> QED BY <1>1, <2>4, <2>5 DEF BelowSegment
<1>5. /\ call' \in Calls /\ call'.pp = cdr[call.pp] /\ call'.seg = call.seg /\ call'.n = call.n
      /\ call'.a = call.a /\ call'.b = call.b /\ call'.x = call.x
      /\ call'.back = call.back /\ call'.tries = call.tries
  BY <1>1, <1>4 DEF Calls
<1>6. Listed' = Listed
  BY <1>1, <1>2, <1>5 DEF Listed
<1>7. Types' /\ Control' /\ Marking' /\ Search'
  BY <1>1, <1>5 DEF IInv, Types, Control, Marking, Search
<1>8. List'
  BY <1>1, <1>2, <1>6 DEF IInv, List, Threaded
<1>9. Linking'
  BY <1>1, <1>2, <1>4, <1>5, <1>6 DEF IInv, Linking
<1>10. Pointers'
  BY <1>1, <1>2, <1>5 DEF IInv, Pointers, Holds
<1>11. Chain'
  <2>1. ASSUME NEW H, ChainOf(H) PROVE ChainOf(H)'
    BY <1>1, <1>5, <2>1 DEF ChainOf, Ptr, Holds
  <2> QED BY <1>1, <1>2, <2>1 DEF IInv, Chain
<1> QED BY <1>2, <1>7, <1>8, <1>9, <1>10, <1>11 DEF IInv
-----------------------------------------------------------------------------
(* Stores                                                                  *)

(* What an opcode has is stored in cells T that hold pointers and are no   *)
(* holders of recent allocations.                                          *)
LEMMA StoreStep ==
  ASSUME IInv, pc = "run", NEW T \in SUBSET Cells,
         UNCHANGED <<lists, kind, len, sink_car, no_memory, reg, locals, pc, call>>,
         car' \in [Cells -> Int], cdr' \in [Cells -> Int],
         \A c \in T : Holds(c),
         \A c \in Cells \ T : car'[c] = car[c] /\ cdr'[c] = cdr[c],
         \A c \in T : car'[c] \in InReach \cup {car[c]} /\ cdr'[c] \in InReach \cup {cdr[c]},
         \A H \in SUBSET Objects : ChainOf(H) => T \cap H = {}
  PROVE  IInv'
<1>1. UNCHANGED <<cell_seg, free_cell, fcells>>
  BY DEF lists
<1>2. /\ Free' = Free /\ Objects' = Objects /\ Values' = Values /\ Allocated' = Allocated
      /\ Segments' = Segments /\ \A v : Elems(v)' = Elems(v)
  BY <1>1 DEF Free, Allocated, Objects, Values, Segments, Elems
<1>3. Types' /\ Layout' /\ Vectors' /\ Linking' /\ Control' /\ Marking' /\ Search'
  BY <1>1, <1>2 DEF IInv, Types, Layout, Vectors, Linking, Control, Marking, Search
<1>4. List'
  <2>1. Listed' = Listed
    BY <1>2 DEF Listed
  <2>2. \A c \in Listed : cdr'[c] = cdr[c]
    BY ListedIn, InSegments DEF IInv, Holds, Free
  <2> QED BY <1>1, <1>2, <2>1, <2>2 DEF IInv, List, Threaded
<1>5. Pointers'
  <2>1. \A c \in Cells : Holds(c)' => {car'[c], cdr'[c]} \subseteq Values
    BY Reach DEF IInv, Pointers, Holds
  <2> QED BY <1>2, <2>1 DEF IInv, Pointers
<1>6. Chain'
  <2>1. ASSUME NEW H \in SUBSET Objects, ChainOf(H) PROVE ChainOf(H)'
    <3>1. InReach \cap H = {} /\ T \cap H = {} /\ H \subseteq Cells
      BY <2>1, Reach DEF Objects
    <3>2. \A h \in H : car'[h] = car[h] /\ cdr'[h] = cdr[h]
      BY <3>1
    <3>3. \A c \in Cells \ H : Holds(c)' => {car'[c], cdr'[c]} \cap H = {}
      BY <2>1, <3>1 DEF ChainOf, Holds
    <3>4. \A h \in H : kind'[h] = "pair" /\ cdr'[h] \in H \cup {NIL} /\ car'[h] \notin H
      BY <2>1, <3>2 DEF ChainOf
    <3>5. \A S \in SUBSET Cells :
            Ptr({sink_car}) \subseteq S /\ (\A h \in H \cap S : Ptr({car'[h], cdr'[h]}) \subseteq S)
              => Ptr(locals) \subseteq S
      <4>1. \A S : (\A h \in H \cap S : Ptr({car'[h], cdr'[h]}) \subseteq S)
                   => (\A h \in H \cap S : Ptr({car[h], cdr[h]}) \subseteq S)
        BY <3>2
      <4> QED BY <2>1, <4>1 DEF ChainOf
    <3> QED BY <2>1, <3>3, <3>4, <3>5 DEF ChainOf, Ptr
  <2> QED BY <1>2, <2>1 DEF IInv, Chain
<1> QED BY <1>3, <1>4, <1>5, <1>6 DEF IInv

LEMMA SetFieldKeeps ==
  ASSUME IInv, NEW f, NEW c, NEW v, SetField(f, c, v) PROVE IInv'
<1>1. /\ c \in InReach /\ c # NIL /\ c # Sink /\ kind[c] = "pair" /\ v \in InReach /\ pc = "run"
  BY DEF SetField, Writable
<1>2. c \in Cells /\ Holds(c) /\ v \in Int /\ \A H \in SUBSET Objects : ChainOf(H) => {c} \cap H = {}
  BY <1>1, Reach, InReachInt DEF Values, Objects, Holds
<1>3. car \in [Cells -> Int] /\ cdr \in [Cells -> Int]
  BY DEF IInv, Types
<1>4. /\ car' \in [Cells -> Int] /\ cdr' \in [Cells -> Int]
      /\ \A d \in Cells \ {c} : car'[d] = car[d] /\ cdr'[d] = cdr[d]
      /\ car'[c] \in InReach \cup {car[c]} /\ cdr'[c] \in InReach \cup {cdr[c]}
  BY <1>1, <1>2, <1>3 DEF SetField
<1>5. UNCHANGED <<lists, kind, len, sink_car, no_memory, reg, locals, pc, call>>
  BY DEF SetField
<1>6. {c} \in SUBSET Cells /\ \A d \in {c} : Holds(d)
  BY <1>2
<1>7. \A d \in {c} : car'[d] \in InReach \cup {car[d]} /\ cdr'[d] \in InReach \cup {cdr[d]}
  BY <1>4
<1> QED BY <1>1, <1>2, <1>4, <1>5, <1>6, <1>7, StoreStep

(* The cells inside a vector in reach. *)
LEMMA ElemsHold ==
  ASSUME IInv, NEW v, Writable(v, "vector")
  PROVE  /\ v \in Cells /\ kind[v] = "vector" /\ Elems(v) \subseteq Cells
         /\ \A e \in Elems(v) : kind[e] = "elem" /\ Holds(e)
         /\ \A H \in SUBSET Objects : Elems(v) \cap H = {}
<1>1. v \in Cells /\ kind[v] = "vector"
  BY Reach DEF Writable, Values, Objects
<1>2. \A e \in Elems(v) : e \in Cells /\ kind[e] = "elem"
  BY <1>1, InSegments DEF IInv, Vectors, Cells
<1> QED BY <1>1, <1>2 DEF Objects, Holds

LEMMA ElemCellIs ==
  ASSUME IInv, NEW v \in Cells, NEW i \in Nat, i < len[v]
  PROVE  ElemCell(v, i) \in Elems(v)
<1>1. len[v] \in Nat /\ v \in Nat
  BY CellsAre DEF IInv, Types, Addresses
<1>2. 1 + (i \div 2) \in 1 .. ((len[v] \div 2) + (len[v] % 2))
  BY <1>1
<1>3. ElemCell(v, i) = v + (1 + (i \div 2))
  BY <1>1 DEF ElemCell
<1> QED BY <1>2, <1>3 DEF Elems, NumCells

LEMMA SetElemKeeps ==
  ASSUME IInv, NEW v, NEW i \in Nat, NEW a, set_vector_elem(v, i, a) PROVE IInv'
<1> DEFINE e == ElemCell(v, i)
<1>1. /\ pc = "run" /\ a \in InReach /\ a \in Int /\ v \in Cells /\ e \in Elems(v)
      /\ e \in Cells /\ Holds(e) /\ \A H \in SUBSET Objects : {e} \cap H = {}
  BY ElemsHold, ElemCellIs, InReachInt DEF set_vector_elem, Writable
<1>2. car \in [Cells -> Int] /\ cdr \in [Cells -> Int]
  BY DEF IInv, Types
<1>3. \/ car' = [car EXCEPT ![e] = a] /\ cdr' = cdr
      \/ cdr' = [cdr EXCEPT ![e] = a] /\ car' = car
  BY DEF set_vector_elem
<1> HIDE DEF e
<1>4. /\ car' \in [Cells -> Int] /\ cdr' \in [Cells -> Int]
      /\ \A d \in Cells \ {e} : car'[d] = car[d] /\ cdr'[d] = cdr[d]
      /\ car'[e] \in InReach \cup {car[e]} /\ cdr'[e] \in InReach \cup {cdr[e]}
  BY <1>1, <1>2, <1>3
<1>5. UNCHANGED <<lists, kind, len, sink_car, no_memory, reg, locals, pc, call>>
  BY DEF set_vector_elem
<1>6. {e} \in SUBSET Cells /\ \A d \in {e} : Holds(d)
  BY <1>1
<1>7. \A d \in {e} : car'[d] \in InReach \cup {car[d]} /\ cdr'[d] \in InReach \cup {cdr[d]}
  BY <1>4
<1> QED BY <1>1, <1>4, <1>5, <1>6, <1>7, StoreStep

LEMMA FillKeeps == ASSUME IInv, NEW v, NEW a, fill_vector(v, a) PROVE IInv'
<1>1. /\ pc = "run" /\ a \in InReach /\ a \in Int
      /\ Elems(v) \subseteq Cells /\ \A e \in Elems(v) : Holds(e)
      /\ \A H \in SUBSET Objects : Elems(v) \cap H = {}
  BY ElemsHold, InReachInt DEF fill_vector, Writable
<1>2. car \in [Cells -> Int] /\ cdr \in [Cells -> Int]
  BY DEF IInv, Types
<1>3. /\ car' \in [Cells -> Int] /\ cdr' \in [Cells -> Int]
      /\ \A d \in Cells \ Elems(v) : car'[d] = car[d] /\ cdr'[d] = cdr[d]
      /\ \A e \in Elems(v) : car'[e] = a /\ cdr'[e] = a
  BY <1>1, <1>2 DEF fill_vector
<1> QED BY <1>1, <1>3, StoreStep DEF fill_vector

-----------------------------------------------------------------------------
(* Single cells                                                            *)

LEMMA ValuesAreInt == IInv => Values \subseteq Int
BY NatFacts DEF Values, Objects

(* The first free cell becomes a pair of a and b. *)
LEMMA NewPair ==
  ASSUME IInv, pc # "link", pc' # "link", PopFree, NEW a \in Values, NEW b \in Values,
         kind' = [kind EXCEPT ![free_cell] = "pair"],
         car' = [car EXCEPT ![free_cell] = a],
         cdr' = [cdr EXCEPT ![free_cell] = b],
         UNCHANGED <<cell_seg, len>>
  PROVE  /\ free_cell \in Free /\ free_cell \in Cells /\ free_cell \notin Values
         /\ free_cell \in Int /\ free_cell # NIL
         /\ Objects' = Objects \cup {free_cell} /\ Values' = Values \cup {free_cell}
         /\ Layout' /\ Vectors' /\ List' /\ Linking'
         /\ kind' \in [Cells -> {"free", "pair", "vector", "elem"}]
         /\ car' \in [Cells -> Int] /\ cdr' \in [Cells -> Int]
         /\ \A c \in Cells : Holds(c)' => {car'[c], cdr'[c]} \subseteq Values'
<1>1. /\ Threaded(Free, cdr, free_cell) /\ Free \in SUBSET Addresses
      /\ free_cell # NIL /\ free_cell' = cdr[free_cell] /\ fcells' = fcells - 1
  BY FreeThreaded DEF PopFree
<1>2. /\ free_cell \in Free /\ Threaded(Free \ {free_cell}, cdr', free_cell')
  <2>1. \A c \in Free \ {free_cell} : cdr'[c] = cdr[c]
    BY Kinds DEF IInv, Types
  <2> QED BY <1>1, <2>1, TakeFirst
<1>3. /\ free_cell \in Cells /\ free_cell \in Allocated /\ kind[free_cell] = "free"
      /\ free_cell \notin Objects
  BY <1>2, Kinds DEF IInv, Free, Objects
<1>4. Types /\ a \in Int /\ b \in Int /\ free_cell \in Int
  BY <1>3, ValuesAreInt, NatFacts DEF IInv
<1>5. /\ Allocated' = Allocated /\ Segments' = Segments /\ \A v : Elems(v)' = Elems(v)
  BY DEF Allocated, Segments, Elems
<1>6. Free' = Free \ {free_cell} /\ Objects' = Objects \cup {free_cell}
  <2>1. \A c \in Cells : kind'[c] = IF c = free_cell THEN "pair" ELSE kind[c]
    BY <1>4 DEF Types
  <2> QED BY <1>3, <1>4, <1>5, <2>1, InSegments DEF Free, Objects
<1>7. free_cell \notin Values /\ Values' = Values \cup {free_cell}
  BY <1>3, <1>6, CellsAre DEF Values
<1>8. List'
  <2>1. IsFiniteSet(Free)
    BY <1>4, Kinds, AllocatedFinite, FS_Subset DEF IInv
  <2>2. Cardinality(Free') = Cardinality(Free) - 1
    BY <1>2, <1>6, <2>1, FS_RemoveElement
  <2> QED BY <1>1, <1>2, <1>6, <2>2 DEF IInv, List, Listed
<1>9. Layout'
  BY <1>3, <1>4, <1>5 DEF IInv, Layout, Types
<1>10. Vectors'
  <2>1. \A v \in Cells : kind'[v] = "vector" <=> kind[v] = "vector"
    BY <1>3, <1>4 DEF Types
  <2>2. \A e \in Cells : kind[e] = "elem" => kind'[e] = "elem"
    BY <1>3, <1>4 DEF Types
  <2>3. \A v \in Cells : kind[v] = "vector" => Elems(v) \subseteq Cells
    BY <1>4, InSegments DEF IInv, Vectors, Cells
  <2> QED BY <1>5, <2>1, <2>2, <2>3 DEF IInv, Vectors
<1>11. \A c \in Cells : Holds(c)' => {car'[c], cdr'[c]} \subseteq Values'
  <2>1. ASSUME NEW c \in Cells, c # free_cell, Holds(c)'
        PROVE {car'[c], cdr'[c]} \subseteq Values
    BY <1>4, <2>1 DEF IInv, Pointers, Holds, Types
  <2>2. car'[free_cell] = a /\ cdr'[free_cell] = b
    BY <1>3, <1>4 DEF Types
  <2> QED BY <1>7, <2>1, <2>2
<1>12. /\ kind' \in [Cells -> {"free", "pair", "vector", "elem"}]
       /\ car' \in [Cells -> Int] /\ cdr' \in [Cells -> Int]
  BY <1>4 DEF Types
<1> QED BY <1>1, <1>2, <1>3, <1>4, <1>6, <1>7, <1>8, <1>9, <1>10, <1>11, <1>12 DEF Linking

LEMMA TakeCellKeeps == ASSUME IInv, TakeCell PROVE IInv'
<1> SUFFICES ASSUME NEW f, f = free_cell PROVE IInv'
  OBVIOUS
<1>1. /\ pc = "cell" /\ pc' = "holder" /\ PopFree
      /\ kind' = [kind EXCEPT ![f] = "pair"] /\ car' = [car EXCEPT ![f] = call.a]
      /\ cdr' = [cdr EXCEPT ![f] = call.b]
      /\ call' = [Idle EXCEPT !.x = f, !.a = f]
      /\ UNCHANGED <<cell_seg, len, sink_car, no_memory, reg, locals>>
  BY DEF TakeCell
<1>2. call.a \in Values /\ call.b \in Values
  BY DEF IInv, Pointers
<1>3. /\ f \in Free /\ f \in Cells /\ f \notin Values /\ f \in Int /\ f # NIL
      /\ Objects' = Objects \cup {f} /\ Values' = Values \cup {f}
      /\ Layout' /\ Vectors' /\ List' /\ Linking'
      /\ kind' \in [Cells -> {"free", "pair", "vector", "elem"}]
      /\ car' \in [Cells -> Int] /\ cdr' \in [Cells -> Int]
      /\ \A c \in Cells : Holds(c)' => {car'[c], cdr'[c]} \subseteq Values'
  BY <1>1, <1>2, NewPair
<1>4. /\ call' \in Calls /\ call'.a = f /\ call'.b = NIL /\ call'.x = f /\ call'.pp = NIL
  BY <1>1, <1>3, IdleIs DEF Calls
<1>5. Types'
  BY <1>1, <1>3, <1>4 DEF IInv, Types
<1>6. Pointers'
  <2>1. {sink_car', call'.a, call'.b, call'.x} \subseteq Values'
    BY <1>1, <1>3, <1>4 DEF IInv, Pointers, Values
  <2> QED BY <1>1, <1>3, <2>1 DEF IInv, Pointers
<1>7. Control' /\ Marking' /\ Search'
  BY <1>1, <1>4 DEF IInv, Control, Marking, Search
<1>8. Chain'
  <2>1. ASSUME NEW H \in SUBSET Objects, ChainOf(H) PROVE ChainOf(H)'
    <3>1. f \notin H /\ NIL \notin H /\ H \subseteq Cells
      BY <1>3, CellsAre DEF Objects, Values
    <3>2. \A c \in Cells : c # f => kind'[c] = kind[c] /\ car'[c] = car[c] /\ cdr'[c] = cdr[c]
      BY <1>1 DEF IInv, Types
    <3>3. car'[f] = call.a /\ cdr'[f] = call.b
      BY <1>1, <1>3 DEF IInv, Types
    <3>4. \A h \in H : kind'[h] = "pair" /\ cdr'[h] \in H \cup {NIL} /\ car'[h] \notin H
      BY <2>1, <3>1, <3>2 DEF ChainOf
    <3>5. \A c \in Cells \ H : Holds(c)' => {car'[c], cdr'[c]} \cap H = {}
      BY <2>1, <3>2, <3>3 DEF ChainOf, Holds
    <3>6. \A S \in SUBSET Cells :
            Ptr({sink_car}) \subseteq S /\ (\A h \in H \cap S : Ptr({car'[h], cdr'[h]}) \subseteq S)
              => Ptr(locals) \subseteq S
      <4>1. \A S : (\A h \in H \cap S : Ptr({car'[h], cdr'[h]}) \subseteq S)
                   => (\A h \in H \cap S : Ptr({car[h], cdr[h]}) \subseteq S)
        BY <3>1, <3>2
      <4> QED BY <2>1, <4>1 DEF ChainOf
    <3>7. {call'.a, call'.b, call'.x} \cap H = {}
      BY <1>4, <3>1
    <3> QED BY <1>1, <2>1, <3>4, <3>5, <3>6, <3>7 DEF ChainOf, Ptr
  <2> QED BY <1>1, <1>3, <2>1 DEF IInv, Chain
<1> QED BY <1>3, <1>5, <1>6, <1>7, <1>8 DEF IInv

(* The new holder leads the chain and holds what was just allocated. *)
LEMMA HoldRecentKeeps == ASSUME IInv, HoldRecent PROVE IInv'
<1> SUFFICES ASSUME NEW f, f = free_cell PROVE IInv'
  OBVIOUS
<1>1. /\ pc = "holder" /\ pc' = "run" /\ PopFree
      /\ kind' = [kind EXCEPT ![f] = "pair"] /\ car' = [car EXCEPT ![f] = call.x]
      /\ cdr' = [cdr EXCEPT ![f] = sink_car] /\ sink_car' = f
      /\ locals' = locals \cup ({call.x} \ {NIL}) /\ call' = Idle
      /\ UNCHANGED <<cell_seg, len, no_memory, reg>>
  BY DEF HoldRecent
<1>2. call.x \in Values /\ sink_car \in Values
  BY DEF IInv, Pointers
<1>3. /\ f \in Free /\ f \in Cells /\ f \notin Values /\ f \in Int /\ f # NIL
      /\ Objects' = Objects \cup {f} /\ Values' = Values \cup {f}
      /\ Layout' /\ Vectors' /\ List' /\ Linking'
      /\ kind' \in [Cells -> {"free", "pair", "vector", "elem"}]
      /\ car' \in [Cells -> Int] /\ cdr' \in [Cells -> Int]
      /\ \A c \in Cells : Holds(c)' => {car'[c], cdr'[c]} \subseteq Values'
  BY <1>1, <1>2, NewPair
<1>5. Types'
  BY <1>1, <1>3, IdleIs DEF IInv, Types
<1>6. Pointers'
  <2>1. {sink_car', call'.a, call'.b, call'.x} \subseteq Values' /\ locals' \subseteq Values'
    BY <1>1, <1>2, <1>3, IdleIs DEF IInv, Pointers, Values
  <2> QED BY <1>1, <1>3, <2>1 DEF IInv, Pointers
<1>7. Control' /\ Marking' /\ Search'
  BY <1>1, IdleIs DEF IInv, Control, Marking, Search
<1>8. Chain'
  <2>1. ASSUME NEW H \in SUBSET Objects, ChainOf(H) PROVE ChainOf(H \cup {f})'
    <3> DEFINE G == H \cup {f}
    <3>1. f \notin H /\ NIL \notin H /\ H \subseteq Cells /\ NIL \notin G
      BY <1>3, CellsAre DEF Objects, Values
    <3>2. \A c \in Cells : c # f => kind'[c] = kind[c] /\ car'[c] = car[c] /\ cdr'[c] = cdr[c]
      BY <1>1 DEF IInv, Types
    <3>3. kind'[f] = "pair" /\ car'[f] = call.x /\ cdr'[f] = sink_car
      BY <1>1, <1>3 DEF IInv, Types
    <3>4. \A h \in G : kind'[h] = "pair" /\ cdr'[h] \in G \cup {NIL} /\ car'[h] \notin G
      <4>1. ASSUME NEW h \in H
            PROVE kind'[h] = "pair" /\ cdr'[h] \in G \cup {NIL} /\ car'[h] \notin G
        <5>1. h \in Cells /\ h # f /\ car[h] \in Values
          BY <2>1, <3>1 DEF ChainOf, IInv, Pointers, Holds
        <5> QED BY <1>3, <2>1, <3>2, <5>1 DEF ChainOf
      <4>2. sink_car \in G \cup {NIL} /\ call.x \notin G
        BY <1>2, <1>3, <2>1 DEF ChainOf
      <4> QED BY <3>3, <4>1, <4>2
    <3>5. \A c \in Cells \ G : Holds(c)' => {car'[c], cdr'[c]} \cap G = {}
      <4>1. ASSUME NEW c \in Cells \ G, Holds(c)' PROVE {car'[c], cdr'[c]} \cap G = {}
        <5>1. Holds(c) /\ c \in Cells \ H /\ {car'[c], cdr'[c]} = {car[c], cdr[c]}
          BY <3>2, <4>1 DEF Holds
        <5>2. {car[c], cdr[c]} \subseteq Values
          BY <5>1 DEF IInv, Pointers
        <5> QED BY <1>3, <2>1, <5>1, <5>2 DEF ChainOf
      <4> QED BY <4>1
    <3>6. ASSUME NEW S \in SUBSET Cells, Ptr({f}) \subseteq S,
                 \A h \in G \cap S : Ptr({car'[h], cdr'[h]}) \subseteq S
          PROVE  Ptr(locals') \subseteq S
      <4>1. f \in S
        BY <1>3, <3>6, CellsAre DEF Ptr
      <4>2. Ptr({call.x, sink_car}) \subseteq S
        BY <3>3, <3>6, <4>1
      <4>3. \A h \in H \cap S : Ptr({car[h], cdr[h]}) \subseteq S
        BY <3>1, <3>2, <3>6
      <4>4. Ptr({sink_car}) \subseteq S
        BY <4>2 DEF Ptr
      <4>5. Ptr(locals) \subseteq S
        BY <2>1, <4>3, <4>4 DEF ChainOf
      <4> QED BY <1>1, <4>2, <4>5 DEF Ptr
    <3>7. /\ \A r \in Regs : reg'[r] \notin G
          /\ locals' \cap G = {} /\ {call'.a, call'.b, call'.x} \cap G = {}
      <4>1. \A r \in Regs : reg[r] \in Values /\ reg[r] \notin H
        BY <2>1 DEF IInv, Pointers, ChainOf
      <4>2. locals \subseteq Values /\ locals \cap H = {} /\ call.x \notin H
        BY <2>1 DEF IInv, Pointers, ChainOf
      <4> QED BY <1>1, <1>2, <1>3, <3>1, <4>1, <4>2, IdleIs
    <3> HIDE DEF G
    <3>8. sink_car' \in G \cup {NIL}
      BY <1>1 DEF G
    <3>9. \A S \in SUBSET Cells :
            Ptr({sink_car'}) \subseteq S
              /\ (\A h \in G \cap S : Ptr({car'[h], cdr'[h]}) \subseteq S)
              => Ptr(locals') \subseteq S
      BY <1>1, <3>6
    <3>10. ChainOf(G)'
      BY <3>4, <3>5, <3>7, <3>8, <3>9 DEF ChainOf, Ptr
    <3> QED BY <3>10 DEF G
  <2>2. SUFFICES ASSUME ~no_memory' PROVE \E G \in SUBSET Objects' : ChainOf(G)'
    BY DEF Chain
  <2>3. PICK H \in SUBSET Objects : ChainOf(H)
    BY <1>1, <2>2 DEF IInv, Chain
  <2>4. H \cup {f} \in SUBSET Objects'
    BY <1>3
  <2> QED BY <2>1, <2>3, <2>4
<1> QED BY <1>3, <1>5, <1>6, <1>7, <1>8 DEF IInv

-----------------------------------------------------------------------------
(* Runs of cells                                                           *)

(* The cells that find_consecutive_cells cuts out of the list. *)
LEMMA RunIsFree ==
  ASSUME IInv, TakeRun, NEW x, NEW y, x = At(call.pp), y = x + Needed - 1
  PROVE  /\ x \in Nat /\ y \in Nat /\ x <= y /\ x \in Free /\ x..y \subseteq Free
         /\ x..y \subseteq Cells /\ x..y \subseteq Allocated
         /\ \E b \in Segments : x..y \subseteq Block(b)
<1>0. Needed \in Nat /\ Needed >= 1
  BY NeededIs DEF IInv
<1>1. /\ pc = "find" /\ x # NIL /\ x \in Free /\ count_consecutive_cells(x, Needed)
      /\ Threaded(Free, cdr, free_cell) /\ Free \in SUBSET Addresses
  BY NextRun, FreeThreaded DEF TakeRun
<1>2. x \in Nat /\ y \in Nat /\ x <= y /\ y - 1 = x + Needed - 2
  BY <1>0, <1>1 DEF Addresses
<1>3. \A c \in x..(y - 1) : cdr[c] = c + 1
  BY <1>1, <1>2 DEF count_consecutive_cells
<1>4. x..y \subseteq Free
  BY <1>1, <1>2, <1>3, RunInList
<1>5. x..y \subseteq Cells /\ x..y \subseteq Allocated
  BY <1>4, Kinds DEF IInv
<1>6. PICK b \in Segments : x \in Block(b)
  BY <1>1, <1>2, <1>5, InSegments DEF IInv
<1>7. x..y \subseteq Block(b)
  BY <1>2, <1>5, <1>6, OneBlock, InSegments DEF IInv
<1> QED BY <1>1, <1>2, <1>4, <1>5, <1>7

LEMMA TakeRunKeeps == ASSUME IInv, TakeRun PROVE IInv'
<1> SUFFICES ASSUME NEW x, x = At(call.pp), NEW y, y = x + Needed - 1,
                    NEW p, p = call.pp
             PROVE  IInv'
  OBVIOUS
<1>0. Needed \in Nat /\ Needed >= 1 /\ Needed = NumCells(call.n) + 1 /\ call.n \in Nat
  BY NeededIs DEF IInv, Types, Calls, Needed
<1>1. /\ x \in Nat /\ y \in Nat /\ x <= y /\ x \in Free /\ x..y \subseteq Free
      /\ x..y \subseteq Cells /\ x..y \subseteq Allocated
      /\ \E b \in Segments : x..y \subseteq Block(b)
  BY RunIsFree
<1>2. /\ pc = "find" /\ pc' = "holder" /\ ~no_memory
      /\ free_cell' = (IF p = NIL THEN cdr[y] ELSE free_cell)
      /\ cdr' = [c \in Cells |-> CASE c \in x..y         -> NIL
                                   [] p # NIL /\ c = p   -> cdr[y]
                                   [] OTHER              -> cdr[c]]
      /\ fcells' = fcells - Needed
      /\ kind' = [c \in Cells |-> CASE c = x              -> "vector"
                                    [] c \in (x + 1)..y   -> "elem"
                                    [] OTHER              -> kind[c]]
      /\ car' = [c \in Cells |-> IF c \in x..y THEN NIL ELSE car[c]]
      /\ len' = [len EXCEPT ![x] = call.n]
      /\ call' = [Idle EXCEPT !.x = x, !.a = x]
      /\ UNCHANGED <<cell_seg, sink_car, no_memory, reg, locals>>
  BY DEF TakeRun, Unlink
<1>3. Threaded(Free, cdr, free_cell) /\ Free \in SUBSET Addresses
  BY <1>2, FreeThreaded
<1>4. p \in Free \cup {NIL} /\ x = IF p = NIL THEN free_cell ELSE cdr[p]
  BY <1>2 DEF IInv, Control, At
<1>5. Types
  BY DEF IInv
<1>6. y - x + 1 = Needed /\ x # NIL /\ x \in x..y /\ y \in x..y /\ (x + 1)..y \subseteq x..y
  BY <1>0, <1>1, <1>3 DEF Addresses, NIL
<1>7. Allocated' = Allocated /\ Segments' = Segments
  BY <1>2 DEF Allocated, Segments
<1>p. \A c \in x..y : c # p
  <2>1. p \in Nat
    <3>1. Free \subseteq Nat /\ NIL \in Nat
      BY <1>3 DEF Addresses, NIL
    <3> QED BY <1>4, <3>1
  <2>2. p < x
    BY <1>2, <1>6, <2>1, NextRun
  <2> QED BY <1>1, <2>1, <2>2
<1>8. /\ \A c \in Cells \ (x..y) : kind'[c] = kind[c] /\ car'[c] = car[c]
      /\ \A c \in Cells \ (x..y) : c # p => cdr'[c] = cdr[c]
      /\ \A c \in x..y : kind'[c] = (IF c = x THEN "vector" ELSE "elem")
                         /\ car'[c] = NIL /\ cdr'[c] = NIL
  <2>1. \A c \in x..y : c = x \/ c \in (x + 1)..y
    BY <1>1
  <2>2. \A c \in Cells \ (x..y) : c # x /\ c \notin (x + 1)..y
    BY <1>6
  <2>3. \A c \in Cells \ (x..y) : kind'[c] = kind[c] /\ car'[c] = car[c]
    BY <1>2, <2>2
  <2>4. \A c \in Cells \ (x..y) : c # p => cdr'[c] = cdr[c]
    BY <1>2
  <2>5. \A c \in x..y : car'[c] = NIL /\ cdr'[c] = NIL
    <3>1. \A c \in x..y : c \in Cells
      BY <1>1
    <3>2. \A c \in x..y : car'[c] = NIL
      BY <1>2, <3>1
    <3>3. \A c \in x..y : cdr'[c] = NIL
      BY <1>2, <1>p, <3>1
    <3> QED BY <3>2, <3>3
  <2>6. \A c \in x..y : kind'[c] = IF c = x THEN "vector" ELSE "elem"
    BY <1>1, <1>2, <2>1
  <2> QED BY <2>3, <2>4, <2>5, <2>6
<1>9. Free' = Free \ (x..y) /\ Objects' = Objects \cup {x} /\ Values' = Values \cup {x}
  <2>1. Free' = Free \ (x..y)
    BY ZenonT(60), <1>1, <1>5, <1>7, <1>8, InSegments DEF Free
  <2>2. ASSUME NEW c \in Cells PROVE c \in Objects' <=> c \in Objects \/ c = x
    BY <1>1, <1>8 DEF Objects, Free
  <2>3. Objects' = Objects \cup {x}
    BY <1>1, <1>6, <2>2 DEF Objects
  <2> QED BY <2>1, <2>3 DEF Values
<1>10. x \notin Values /\ x \in Cells /\ kind[x] = "free"
  BY <1>1, <1>6, CellsAre DEF Values, Objects, Free
<1>11. Threaded(Free \ (x..y), cdr', free_cell')
  <2>1. \A c \in Free : c # NIL /\ c \in Cells
    BY <1>3, Kinds DEF Addresses, NIL, IInv
  <2>2. \A c \in Free \ (x..y) : c # p => cdr'[c] = cdr[c]
    BY <1>8, <2>1
  <2>3. p \in Free => cdr'[p] = cdr[y]
    <3>1. p \notin x..y
      BY <1>p
    <3> QED BY <1>2, <2>1, <3>1
  <2>4. y \in Nat /\ x <= y /\ x..y \subseteq Free /\ p \in Free \cup {NIL} /\ x \in Free
    BY <1>1, <1>4
  <2>5. free_cell' = (IF p = NIL THEN cdr[y] ELSE free_cell)
    BY <1>2
  <2>6. Free \in SUBSET Addresses /\ Threaded(Free, cdr, free_cell)
    BY <1>3
  <2>7. x = IF p = NIL THEN free_cell ELSE cdr[p]
    BY <1>4
  <2>8. Free \in SUBSET Addresses /\ p \in Free \cup {NIL} /\ x \in Free /\ y \in Nat
    BY <2>4, <2>6
  <2>9. x <= y /\ x..y \subseteq Free
    BY <2>4
  <2> DEFINE S == Free
             f == cdr
             g == cdr'
             h == free_cell
             k == free_cell'
  <2>10. /\ S \in SUBSET Addresses /\ p \in S \cup {NIL} /\ Threaded(S, f, h)
         /\ x \in S /\ x = IF p = NIL THEN h ELSE f[p]
         /\ y \in Nat /\ x <= y /\ x..y \subseteq S
         /\ \A c \in S \ (x..y) : c # p => g[c] = f[c]
         /\ p \in S => g[p] = f[y]
         /\ k = IF p = NIL THEN f[y] ELSE h
    BY <2>2, <2>3, <2>5, <2>6, <2>7, <2>8, <2>9
  <2> HIDE DEF S, f, g, h, k
  <2>11. Threaded(S \ (x..y), g, k)
    BY ONLY <2>10, CutRun, ZenonT(60)
  <2> QED BY <2>11 DEF S, g, k
<1>12. List'
  <2>1. IsFiniteSet(Free)
    BY <1>5, Kinds, AllocatedFinite, FS_Subset DEF IInv
  <2>2. Cardinality(x..y) = Needed
    BY <1>1, <1>6, FS_Interval
  <2>3. Free \cap (x..y) = x..y
    BY <1>1
  <2>4. Cardinality(Free \ (x..y)) = Cardinality(Free) - Needed
    <3>1. Cardinality(Free \ (x..y)) = Cardinality(Free) - Cardinality(Free \cap (x..y))
      BY <2>1, FS_Difference
    <3> QED BY <2>2, <2>3, <3>1
  <2> QED BY <1>2, <1>9, <1>11, <2>4 DEF IInv, List, Listed
<1>13. Types'
  <2>1. cdr' \in [Cells -> Int] /\ car' \in [Cells -> Int]
    BY <1>1, <1>2, <1>5, <1>6, NatFacts DEF Types
  <2>2. kind' \in [Cells -> {"free", "pair", "vector", "elem"}]
    BY <1>2, <1>5 DEF Types
  <2>3. call' \in Calls
    <3>1. x \in Int
      BY <1>1
    <3> QED BY <1>2, <3>1, IdleIs DEF Calls
  <2> QED BY <1>0, <1>2, <1>5, <2>1, <2>2, <2>3 DEF Types
<1>14. call'.a = x /\ call'.b = NIL /\ call'.x = x /\ call'.pp = NIL
  BY <1>2, IdleIs DEF Calls
<1>15. Layout'
  BY <1>1, <1>2, <1>7, <1>8 DEF IInv, Layout
<1>16. Vectors'
  <2>1. Elems(x)' = (x + 1)..y
    <3>1. len'[x] = call.n
      BY <1>2, <1>5, <1>10 DEF Types
    <3>2. NumCells(call.n) = y - x /\ NumCells(call.n) \in Nat
      <4>1. NumCells(call.n) \in Nat
        BY <1>0, NumCellsIs
      <4> QED BY <1>0, <1>1, <1>6, <4>1
    <3>3. {x + j : j \in 1..(y - x)} = (x + 1)..y
      <4>1. \A c \in (x + 1)..y : c - x \in 1..(y - x) /\ c = x + (c - x)
        BY <1>1
      <4>2. \A j \in 1..(y - x) : x + j \in (x + 1)..y
        BY <1>1
      <4> QED BY <4>1, <4>2
    <3>4. Elems(x)' = {x + j : j \in 1..NumCells(call.n)}
      BY <3>1 DEF Elems
    <3> QED BY <3>2, <3>3, <3>4
  <2>2. ASSUME NEW v \in Cells, v # x PROVE Elems(v)' = Elems(v)
    BY <1>2, <1>5, <2>2 DEF Elems, Types
  <2>3. ASSUME NEW v \in Cells, v # x, kind'[v] = "vector"
        PROVE kind[v] = "vector" /\ v \notin x..y
    BY <1>8, <2>3
  <2>4. ASSUME NEW v \in Cells, kind[v] = "vector"
        PROVE /\ \A e \in Elems(v) : e \in Cells /\ kind[e] = "elem" /\ e \notin x..y
              /\ Elems(v) \cap (x..y) = {}
    <3>1. \A e \in Elems(v) : e \in Cells /\ kind[e] = "elem"
      BY <1>5, <2>4, InSegments DEF IInv, Vectors, Cells
    <3> QED BY <1>1, <3>1 DEF Free
  <2>5. ASSUME NEW v \in Cells, kind'[v] = "vector"
        PROVE /\ \E b \in Segments' : Elems(v)' \cup {v} \subseteq Block(b)
              /\ \A e \in Elems(v)' : kind'[e] = "elem"
              /\ \A w \in Cells : kind'[w] = "vector" /\ w # v
                                    => Elems(v)' \cap Elems(w)' = {}
    <3>1. CASE v = x
      <4>1. Elems(v)' = (x + 1)..y /\ Elems(v)' \subseteq x..y /\ v \in x..y
        <5>1. Elems(v)' = (x + 1)..y
          BY <2>1, <3>1
        <5> QED BY <1>6, <3>1, <5>1
      <4>2. \A e \in Elems(v)' : kind'[e] = "elem"
        <5>1. \A e \in (x + 1)..y : e \in x..y /\ e # x
          BY <1>1
        <5> QED BY <1>8, <4>1, <5>1
      <4>3. \A w \in Cells : kind'[w] = "vector" /\ w # v => Elems(v)' \cap Elems(w)' = {}
        BY <2>2, <2>3, <2>4, <3>1, <4>1
      <4> QED BY <1>1, <1>7, <4>1, <4>2, <4>3
    <3>2. CASE v # x
      <4>1. kind[v] = "vector" /\ Elems(v)' = Elems(v)
        BY <2>2, <2>3, <2>5, <3>2
      <4>2. \E b \in Segments : Elems(v) \cup {v} \subseteq Block(b)
        BY <4>1 DEF IInv, Vectors
      <4>3. \A e \in Elems(v)' : kind'[e] = "elem"
        BY <1>8, <2>4, <4>1
      <4>4. ASSUME NEW w \in Cells, kind'[w] = "vector", w # v
            PROVE Elems(v)' \cap Elems(w)' = {}
        <5>1. CASE w = x
          <6>1. Elems(w)' \subseteq x..y
            BY <1>6, <2>1, <5>1
          <6> QED BY <2>4, <4>1, <6>1
        <5>2. CASE w # x
          BY <2>2, <2>3, <4>1, <4>4, <5>2 DEF IInv, Vectors
        <5> QED BY <5>1, <5>2
      <4> QED BY <1>7, <4>1, <4>2, <4>3, <4>4
    <3> QED BY <3>1, <3>2
  <2> QED BY <2>5 DEF Vectors
<1>17. ASSUME NEW c \in Cells, Holds(c)'
       PROVE \/ car'[c] = NIL /\ cdr'[c] = NIL
             \/ Holds(c) /\ car'[c] = car[c] /\ cdr'[c] = cdr[c]
  <2>1. CASE c \in x..y
    BY <1>8, <2>1
  <2>2. CASE c \notin x..y
    <3>1. kind'[c] = kind[c] /\ Holds(c)
      BY <1>8, <1>17, <2>2 DEF Holds
    <3>2. c # p
      <4>1. p = NIL \/ kind[p] = "free"
        BY <1>4 DEF Free
      <4>2. c # NIL
        BY CellsAre
      <4> QED BY <3>1, <4>1, <4>2 DEF Holds
    <3> QED BY <1>8, <2>2, <3>1, <3>2
  <2> QED BY <2>1, <2>2
<1>18. Pointers'
  <2>1. \A c \in Cells : Holds(c)' => {car'[c], cdr'[c]} \subseteq Values'
    BY <1>9, <1>17 DEF IInv, Pointers, Values
  <2>2. {sink_car', call'.a, call'.b, call'.x} \subseteq Values'
    BY <1>2, <1>9, <1>14 DEF IInv, Pointers, Values
  <2> QED BY <1>2, <1>9, <2>1, <2>2 DEF IInv, Pointers
<1>19. Chain'
  <2>1. ASSUME NEW H \in SUBSET Objects, ChainOf(H) PROVE ChainOf(H)'
    <3>1. x \notin H /\ NIL \notin H /\ H \subseteq Cells
      BY <1>10, CellsAre DEF Objects, Values
    <3>2. \A h \in H : kind'[h] = kind[h] /\ car'[h] = car[h] /\ cdr'[h] = cdr[h]
      <4>1. \A h \in H : h \in Cells /\ kind[h] # "free"
        BY DEF Objects
      <4>2. p = NIL \/ kind[p] = "free"
        BY <1>4 DEF Free
      <4>3. \A h \in H : h \notin x..y /\ h # p
        BY <1>1, <3>1, <4>1, <4>2 DEF Free
      <4> QED BY <1>8, <4>1, <4>3
    <3>3. \A c \in Cells \ H : Holds(c)' => {car'[c], cdr'[c]} \cap H = {}
      BY <1>17, <2>1, <3>1 DEF ChainOf
    <3>4. \A h \in H : kind'[h] = "pair" /\ cdr'[h] \in H \cup {NIL} /\ car'[h] \notin H
      BY <2>1, <3>2 DEF ChainOf
    <3>5. \A S \in SUBSET Cells :
            Ptr({sink_car}) \subseteq S /\ (\A h \in H \cap S : Ptr({car'[h], cdr'[h]}) \subseteq S)
              => Ptr(locals) \subseteq S
      <4>1. \A S : (\A h \in H \cap S : Ptr({car'[h], cdr'[h]}) \subseteq S)
                   => (\A h \in H \cap S : Ptr({car[h], cdr[h]}) \subseteq S)
        BY <3>2
      <4> QED BY <2>1, <4>1 DEF ChainOf
    <3>6. {call'.a, call'.b, call'.x} \cap H = {}
      BY <1>14, <3>1
    <3> QED BY <1>2, <2>1, <3>3, <3>4, <3>5, <3>6 DEF ChainOf, Ptr
  <2> QED BY <1>2, <1>9, <2>1 DEF IInv, Chain
<1>20. Control' /\ Marking' /\ Search' /\ Linking'
  BY <1>2, <1>14 DEF IInv, Control, Marking, Search, Linking
<1> QED BY <1>12, <1>13, <1>15, <1>16, <1>18, <1>19, <1>20 DEF IInv

-----------------------------------------------------------------------------
(* The sweep                                                               *)

(* The blocks of cell_seg lie in the order of the array.                   *)
LEMMA BlockOrder ==
  ASSUME Types, Layout, NEW i \in 1..Len(cell_seg), NEW j \in 1..Len(cell_seg), i < j,
         NEW c \in Block(cell_seg[i]), NEW d \in Block(cell_seg[j])
  PROVE  c < d
<1>1. cell_seg[i] \in Bases /\ cell_seg[j] \in Bases /\ cell_seg[i] < cell_seg[j]
  BY DEF Types, Layout
<1>2. /\ cell_seg[i] \in Nat /\ cell_seg[j] \in Nat /\ SegSize \in Nat
      /\ cell_seg[i] + SegSize < cell_seg[j]
  BY <1>1, LayoutAssumption
<1>3. c \in cell_seg[i] .. (cell_seg[i] + SegSize - 1)
  BY DEF Block
<1>4. d \in cell_seg[j] .. (cell_seg[j] + SegSize - 1)
  BY DEF Block
<1> QED BY <1>2, <1>3, <1>4

(* The members of F in segment j or later. *)
From(j, F) == {d \in F : \E k \in j..Len(cell_seg) : d \in Block(cell_seg[k])}

LEMMA FirstFromIs ==
  ASSUME Types, Layout, NEW F \in SUBSET Allocated, NEW j \in Nat \ {0}
  PROVE  FirstFrom(j, F) = LeastOf(From(j, F))
<1> DEFINE js == {k \in j..Len(cell_seg) : Block(cell_seg[k]) \cap F # {}}
<1>0. Len(cell_seg) \in Nat /\ j..Len(cell_seg) \subseteq 1..Len(cell_seg)
  BY DEF Types
<1>1. CASE js = {}
  <2>1. From(j, F) = {}
    BY <1>1 DEF From
  <2> QED BY <1>1, <2>1 DEF FirstFrom, LeastOf
<1>2. CASE js # {}
  <2>1. js \in SUBSET Nat
    BY <1>0
  <2>2. Min(js) \in js /\ \A k \in js : Min(js) <= k
    <3> HIDE DEF js
    <3>1. \E m \in js : \A k \in js : m <= k
      BY <1>2, <2>1, HasLeast
    <3> QED BY <3>1 DEF Min
  <2>3. PICK m \in js : m = Min(js) /\ \A k \in js : m <= k
    BY <2>2
  <2> DEFINE B == Block(cell_seg[m]) \cap F
  <2>4. FirstFrom(j, F) = LeastOf(B)
    BY <1>2, <2>3 DEF FirstFrom, LeastOf
  <2>5. F \in SUBSET Addresses
    BY InSegments, CellsAre
  <2>6. B \in SUBSET Addresses /\ From(j, F) \in SUBSET Addresses
    BY <2>5 DEF From
  <2>7. LeastOf(B) \in B /\ \A d \in B : LeastOf(B) <= d
    BY <2>3, <2>6, LeastOfIs
  <2>8. LeastOf(B) \in From(j, F)
    BY <2>3, <2>7 DEF From
  <2>9. ASSUME NEW d \in From(j, F) PROVE LeastOf(B) <= d
    <3>1. PICK k \in j..Len(cell_seg) : d \in Block(cell_seg[k])
      BY DEF From
    <3>2. d \in F /\ k \in js /\ m <= k /\ m \in j..Len(cell_seg)
      BY <2>3, <3>1 DEF From
    <3>3. CASE m = k
      <4>1. d \in B
        BY <3>1, <3>2, <3>3
      <4> QED BY <2>7, <4>1
    <3>4. CASE m < k
      <4>1. LeastOf(B) < d
        <5>1. LeastOf(B) \in Block(cell_seg[m])
          BY <2>7
        <5>2. m \in 1..Len(cell_seg) /\ k \in 1..Len(cell_seg)
          BY <1>0, <3>1, <3>2
        <5> QED BY <3>1, <3>4, <5>1, <5>2, BlockOrder
      <4>2. LeastOf(B) \in Nat /\ d \in Nat
        BY <2>6, <2>7 DEF Addresses
      <4> QED BY <4>1, <4>2
    <3>5. m \in Nat /\ k \in Nat
      BY <2>1, <3>2
    <3> QED BY <3>2, <3>3, <3>4, <3>5
  <2> HIDE DEF B
  <2> QED BY <2>4, <2>6, <2>8, <2>9, IsLeastOf
<1> QED BY <1>1, <1>2

(* The sweep threads the list in address order. *)
LEMMA SweepOrder ==
  ASSUME Types, Layout, NEW F \in SUBSET Allocated
  PROVE  /\ FirstFrom(1, F) = LeastOf(F)
         /\ \A c \in F : NextInSweep(c, F) = LeastOf(Above(F, c))
<1>0. F \in SUBSET Addresses
  BY InSegments, CellsAre
<1>1. \A d \in F : \E k \in 1..Len(cell_seg) : d \in Block(cell_seg[k])
  BY DEF Allocated
<1>2. FirstFrom(1, F) = LeastOf(F)
  <2>1. From(1, F) = F
    BY <1>1 DEF From
  <2> QED BY <2>1, FirstFromIs
<1>3. ASSUME NEW c \in F PROVE NextInSweep(c, F) = LeastOf(Above(F, c))
  <2> DEFINE k == CHOOSE k \in 1..Len(cell_seg) : c \in Block(cell_seg[k])
             above == {d \in Block(cell_seg[k]) \cap F : d > c}
  <2>1. k \in 1..Len(cell_seg) /\ c \in Block(cell_seg[k])
    BY <1>1
  <2>2. NextInSweep(c, F) = IF above # {} THEN Min(above) ELSE FirstFrom(k + 1, F)
    BY DEF NextInSweep
  <2>3. Len(cell_seg) \in Nat
    BY DEF Types
  <2> HIDE DEF k
  <2>4. \A d \in F : d > c =>
          d \in above \/ \E i \in (k + 1)..Len(cell_seg) : d \in Block(cell_seg[i])
    <3> SUFFICES ASSUME NEW d \in F, d > c, NEW i \in 1..Len(cell_seg),
                        d \in Block(cell_seg[i])
                 PROVE  d \in above \/ i \in (k + 1)..Len(cell_seg)
      BY <1>1
    <3>1. CASE i = k
      BY <3>1
    <3>2. CASE i < k
      <4>1. d < c
        BY <2>1, <3>2, BlockOrder
      <4> QED BY <1>0, <4>1 DEF Addresses
    <3>3. CASE i > k
      BY <2>1, <2>3, <3>3
    <3> QED BY <2>1, <2>3, <3>1, <3>2, <3>3
  <2>5. \A d \in From(k + 1, F) : d > c /\ d \in F
    <3> SUFFICES ASSUME NEW d \in F, NEW i \in (k + 1)..Len(cell_seg), d \in Block(cell_seg[i])
                 PROVE  d > c
      BY DEF From
    <3>1. i \in 1..Len(cell_seg) /\ k < i
      BY <2>1, <2>3
    <3>2. c < d
      BY <2>1, <3>1, BlockOrder
    <3> QED BY <1>0, <3>2 DEF Addresses
  <2>6. Above(F, c) \in SUBSET Addresses
    BY <1>0, AboveIn
  <2>7. CASE above # {}
    <3>1. above \in SUBSET Addresses
      BY <1>0
    <3>2. LeastOf(above) = Min(above) /\ LeastOf(above) \in above
          /\ \A d \in above : LeastOf(above) <= d
      BY <2>7, <3>1, LeastOfIs DEF LeastOf
    <3>3. LeastOf(above) \in Above(F, c)
      BY <3>2 DEF Above
    <3>4. ASSUME NEW d \in Above(F, c) PROVE LeastOf(above) <= d
      <4>1. d \in F /\ d > c
        BY DEF Above
      <4>2. CASE d \in above
        BY <3>2, <4>2
      <4>3. CASE \E i \in (k + 1)..Len(cell_seg) : d \in Block(cell_seg[i])
        <5>1. PICK i \in (k + 1)..Len(cell_seg) : d \in Block(cell_seg[i])
          BY <4>3
        <5>2. i \in 1..Len(cell_seg) /\ k < i /\ LeastOf(above) \in Block(cell_seg[k])
          BY <2>1, <2>3, <3>2
        <5>3. LeastOf(above) < d
          BY <2>1, <5>1, <5>2, BlockOrder
        <5>4. LeastOf(above) \in Nat /\ d \in Nat
          BY <2>6, <3>3 DEF Addresses
        <5> QED BY <5>3, <5>4
      <4> QED BY <2>4, <4>1, <4>2, <4>3
    <3> HIDE DEF above
    <3>5. LeastOf(Above(F, c)) = LeastOf(above)
      BY <2>6, <3>3, <3>4, IsLeastOf
    <3> QED BY <2>2, <2>7, <3>2, <3>5
  <2>8. CASE above = {}
    <3>1. From(k + 1, F) = Above(F, c)
      <4>1. \A d \in F : d > c => d \in From(k + 1, F)
        BY <2>4, <2>8 DEF From
      <4> QED BY <2>5, <4>1 DEF Above, From
    <3>2. k + 1 \in Nat \ {0}
      BY <2>1
    <3> QED BY <2>2, <2>8, <3>1, <3>2, FirstFromIs
  <2> QED BY <2>7, <2>8
<1> QED BY <1>2, <1>3

(* Marking has found all that the program or the allocator has in hand.    *)
LEMMA AllMarked ==
  ASSUME IInv, pc = "mark", \A c \in marked : Points(c) \subseteq marked
  PROVE  /\ marked \subseteq Used /\ ~no_memory
         /\ \A r \in Regs : Ptr({reg[r]}) \subseteq marked
         /\ Ptr(locals) \subseteq marked
         /\ Ptr({sink_car, call.a, call.b, call.x}) \subseteq marked
         /\ \A H \in SUBSET Objects : \A S : ChainOf(H) /\ Ptr({sink_car}) \subseteq S
              /\ (\A h \in H \cap marked \cap S : Ptr({car[h], cdr[h]}) \subseteq S)
              => Ptr(locals) \subseteq S \cap marked
<1>1. Roots \subseteq marked /\ marked \subseteq Used /\ ~no_memory /\ call.x \in {NIL, call.a}
  BY DEF IInv, Marking, Control
<1>2. /\ \A r \in Regs : Ptr({reg[r]}) \subseteq marked
      /\ Ptr({sink_car, call.a, call.b, call.x}) \subseteq marked
  BY <1>1 DEF Roots, Ptr
<1>3. marked \subseteq Cells
  BY <1>1, Kinds DEF IInv
<1>4. ASSUME NEW H \in SUBSET Objects, NEW S, ChainOf(H), Ptr({sink_car}) \subseteq S,
             \A h \in H \cap marked \cap S : Ptr({car[h], cdr[h]}) \subseteq S
      PROVE  Ptr(locals) \subseteq S \cap marked
  <2> DEFINE T == S \cap marked
  <2>1. T \in SUBSET Cells
    BY <1>3
  <2>2. Ptr({sink_car}) \subseteq T
    BY <1>2, <1>4 DEF Ptr
  <2>3. ASSUME NEW h \in H \cap T PROVE Ptr({car[h], cdr[h]}) \subseteq T
    <3>1. kind[h] = "pair"
      BY <1>4 DEF ChainOf
    <3>2. Points(h) = Ptr({car[h], cdr[h]})
      BY <3>1 DEF Points
    <3> QED BY <1>4, <3>2
  <2> HIDE DEF T
  <2>4. Ptr(locals) \subseteq T
    BY <1>4, <2>1, <2>2, <2>3 DEF ChainOf
  <2> QED BY <2>4 DEF T
<1>5. Ptr(locals) \subseteq marked
  <2>1. PICK H \in SUBSET Objects : ChainOf(H)
    BY <1>1 DEF IInv, Chain
  <2>2. \A h \in H \cap marked : Ptr({car[h], cdr[h]}) \subseteq marked
    <3>1. \A h \in H : kind[h] = "pair"
      BY <2>1 DEF ChainOf
    <3> QED BY <3>1 DEF Points
  <2>3. Ptr({sink_car}) \subseteq marked
    BY <1>2 DEF Ptr
  <2> QED BY <1>4, <2>1, <2>2, <2>3
<1> QED BY <1>1, <1>2, <1>4, <1>5

LEMMA SweepKeeps == ASSUME IInv, Sweep PROVE IInv'
<1> SUFFICES ASSUME NEW F, F = Allocated \ marked PROVE IInv'
  OBVIOUS
<1>0. Types /\ Layout /\ call \in Calls
  BY DEF IInv, Types
<1>1. /\ pc = "mark" /\ \A c \in marked : Points(c) \subseteq marked
      /\ free_cell' = FirstFrom(1, F)
      /\ cdr' = [c \in Cells |-> IF c \in F THEN NextInSweep(c, F) ELSE cdr[c]]
      /\ car' = [c \in Cells |-> IF c \in F THEN NIL ELSE car[c]]
      /\ len' = [c \in Cells |-> IF c \in F THEN 0 ELSE len[c]]
      /\ kind' = [c \in Cells |-> IF c \in F THEN "free" ELSE kind[c]]
      /\ fcells' = Cardinality(F)
      /\ marked' = {}
      /\ UNCHANGED <<cell_seg, sink_car, no_memory, reg, locals, call>>
  BY DEF Sweep
<1>2. /\ marked \subseteq Used /\ ~no_memory
      /\ \A r \in Regs : Ptr({reg[r]}) \subseteq marked
      /\ Ptr(locals) \subseteq marked
      /\ Ptr({sink_car, call.a, call.b, call.x}) \subseteq marked
  BY <1>1, AllMarked
<1>3. /\ pc' \in {"run", "cell", "holder", "find", "reserve", "grow"}
      /\ pc' = "grow" => call.back \in {"cell", "holder"}
      /\ pc' # "grow" => pc' = call.back
  BY <1>0 DEF Sweep, Calls
<1>4. F \in SUBSET Allocated /\ F \subseteq Cells /\ F \cap marked = {} /\ F \in SUBSET Addresses
  BY <1>0, InSegments, CellsAre
<1>5. Allocated' = Allocated /\ Segments' = Segments
  BY <1>1 DEF Allocated, Segments
<1>6. /\ \A c \in Cells \ F : kind'[c] = kind[c] /\ car'[c] = car[c] /\ cdr'[c] = cdr[c]
                              /\ len'[c] = len[c]
      /\ \A c \in F : kind'[c] = "free"
  BY <1>1, <1>4
<1>7. /\ marked \subseteq Cells \ F /\ \A c \in Cells : c \notin F => c \in marked \/ kind[c] = "free"
      /\ \A c \in marked : kind[c] # "free"
  BY <1>0, <1>2, <1>4, Kinds DEF Used, Layout
<1>8. Free' = F
  <2>1. \A c \in Allocated : kind'[c] = "free" <=> c \in F
    BY <1>0, <1>6, <1>7, InSegments
  <2> QED BY <1>4, <1>5, <2>1 DEF Free
<1>9. Objects' = Objects \cap marked /\ Values' = Objects' \cup {NIL, Sink}
  <2>1. \A c \in Cells : kind'[c] \in {"pair", "vector"}
                           <=> kind[c] \in {"pair", "vector"} /\ c \in marked
    BY <1>6, <1>7
  <2>2. Objects' = Objects \cap marked
    BY <2>1 DEF Objects
  <2>3. Values' = Objects' \cup {NIL, Sink}
    BY DEF Values
  <2> QED BY <2>2, <2>3
<1>10. ASSUME NEW c \in Values, Ptr({c}) \subseteq marked PROVE c \in Values'
  BY <1>9, <1>10 DEF Values, Ptr
<1>11. ASSUME NEW c \in Cells, Holds(c)'
       PROVE  /\ c \in marked /\ Holds(c) /\ car'[c] = car[c] /\ cdr'[c] = cdr[c]
              /\ Ptr({car[c], cdr[c]}) \subseteq marked
  <2>1. c \in marked /\ kind'[c] = kind[c] /\ car'[c] = car[c] /\ cdr'[c] = cdr[c]
    BY <1>6, <1>7, <1>11 DEF Holds
  <2>2. Holds(c)
    BY <1>11, <2>1 DEF Holds
  <2>3. Points(c) = Ptr({car[c], cdr[c]})
    BY <2>2 DEF Points, Holds
  <2> QED BY <1>1, <2>1, <2>2, <2>3
<1>12. /\ FirstFrom(1, F) = LeastOf(F)
       /\ \A c \in F : NextInSweep(c, F) = LeastOf(Above(F, c))
  BY <1>0, <1>4, SweepOrder
<1>13. List'
  <2>1. Listed' = F
    BY <1>3, <1>8 DEF Listed
  <2>2. \A c \in F : cdr'[c] = LeastOf(Above(F, c))
    BY <1>1, <1>4, <1>12
  <2> QED BY <1>1, <1>8, <1>12, <2>1, <2>2 DEF List, Threaded
<1>14. Types'
  <2>1. \A c \in F : NextInSweep(c, F) \in Int
    <3> SUFFICES ASSUME NEW c \in F PROVE LeastOf(Above(F, c)) \in Int
      BY <1>12
    <3>1. Above(F, c) \in SUBSET Addresses
      BY <1>4, AboveIn
    <3>2. LeastOf(Above(F, c)) \in Above(F, c) \/ LeastOf(Above(F, c)) = NIL
      BY <3>1, LeastOfIs
    <3> QED BY <3>1, <3>2, NatFacts DEF Addresses
  <2>2. cdr' \in [Cells -> Int] /\ car' \in [Cells -> Int]
    BY <1>0, <1>1, <2>1, NatFacts DEF Types
  <2>3. len' \in [Cells -> Nat] /\ kind' \in [Cells -> {"free", "pair", "vector", "elem"}]
    BY <1>0, <1>1 DEF Types
  <2> QED BY <1>0, <1>1, <1>3, <2>2, <2>3 DEF Types
<1>15. Layout'
  BY <1>0, <1>1, <1>4, <1>5, <1>6 DEF Layout
<1>16. Pointers'
  <2>1. \A r \in Regs : reg[r] \in Values'
    BY <1>2, <1>10 DEF IInv, Pointers
  <2>2. locals \subseteq Values'
    <3> SUFFICES ASSUME NEW c \in locals PROVE c \in Values'
      OBVIOUS
    <3>1. c \in Values /\ Ptr({c}) \subseteq marked
      BY <1>2 DEF IInv, Pointers, Ptr
    <3> QED BY <1>10, <3>1
  <2>3. \A c \in {sink_car, call.a, call.b, call.x} : c \in Values'
    <3> SUFFICES ASSUME NEW c \in {sink_car, call.a, call.b, call.x} PROVE c \in Values'
      OBVIOUS
    <3>1. c \in Values /\ Ptr({c}) \subseteq marked
      BY <1>2 DEF IInv, Pointers, Ptr
    <3> QED BY <1>10, <3>1
  <2>4. ASSUME NEW c \in Cells, Holds(c)' PROVE {car'[c], cdr'[c]} \subseteq Values'
    <3>1. Holds(c) /\ car'[c] = car[c] /\ cdr'[c] = cdr[c]
          /\ Ptr({car[c], cdr[c]}) \subseteq marked
      BY <1>11, <2>4
    <3>2. {car[c], cdr[c]} \subseteq Values
      BY <3>1 DEF IInv, Pointers
    <3>3. Ptr({car[c]}) \subseteq marked /\ Ptr({cdr[c]}) \subseteq marked
      BY <3>1 DEF Ptr
    <3> QED BY <1>10, <3>1, <3>2, <3>3
  <2>5. reg \in [Regs -> Values']
    BY <2>1 DEF IInv, Pointers
  <2> QED BY <1>1, <2>2, <2>3, <2>4, <2>5 DEF Pointers
<1>17. Vectors'
  <2>1. ASSUME NEW v \in Cells, kind'[v] = "vector"
        PROVE  /\ kind[v] = "vector" /\ Elems(v)' = Elems(v) /\ Elems(v) \subseteq marked
               /\ v \in marked
    <3>1. v \in marked /\ v \notin F /\ kind[v] = "vector"
      BY <1>6, <1>7, <2>1
    <3>2. Elems(v)' = Elems(v)
      BY <1>6, <3>1 DEF Elems
    <3>3. Points(v) = Elems(v)
      BY <3>1 DEF Points
    <3> QED BY <1>1, <3>1, <3>2, <3>3
  <2>2. ASSUME NEW v \in Cells, kind'[v] = "vector"
        PROVE \A e \in Elems(v)' : kind'[e] = "elem"
    <3>1. kind[v] = "vector" /\ Elems(v)' = Elems(v) /\ Elems(v) \subseteq marked
      BY <2>1, <2>2
    <3>2. \A e \in Elems(v) : kind[e] = "elem"
      BY <3>1 DEF IInv, Vectors
    <3> QED BY <1>6, <1>7, <3>1, <3>2
  <2>3. ASSUME NEW v \in Cells, kind'[v] = "vector"
        PROVE \E b \in Segments' : Elems(v)' \cup {v} \subseteq Block(b)
    BY <1>5, <2>1, <2>3 DEF IInv, Vectors
  <2>4. ASSUME NEW v \in Cells, kind'[v] = "vector", NEW w \in Cells, kind'[w] = "vector", w # v
        PROVE Elems(v)' \cap Elems(w)' = {}
    BY <2>1, <2>4 DEF IInv, Vectors
  <2> QED BY <2>2, <2>3, <2>4 DEF Vectors
<1>18. Chain'
  <2>1. PICK H \in SUBSET Objects : ChainOf(H)
    BY <1>2 DEF IInv, Chain
  <2> DEFINE G == H \cap marked
  <2>2. G \in SUBSET Objects' /\ G \subseteq Cells
    BY <1>9 DEF Objects
  <2>3. \A h \in G : kind'[h] = "pair" /\ cdr'[h] \in G \cup {NIL} /\ car'[h] \notin G
    <3> SUFFICES ASSUME NEW h \in G
                 PROVE  kind'[h] = "pair" /\ cdr'[h] \in G \cup {NIL} /\ car'[h] \notin G
      OBVIOUS
    <3>1. kind[h] = "pair" /\ cdr[h] \in H \cup {NIL} /\ car[h] \notin H
      BY <2>1 DEF ChainOf
    <3>2. kind'[h] = kind[h] /\ cdr'[h] = cdr[h] /\ car'[h] = car[h]
      BY <1>6, <1>7
    <3>3. Ptr({cdr[h]}) \subseteq marked
      BY <1>1, <3>1 DEF Points, Ptr
    <3>4. H \subseteq Cells /\ NIL \notin Cells /\ Sink \notin Cells
      BY CellsAre DEF Objects
    <3>5. cdr[h] \in H => cdr[h] \in marked
      BY <3>3, <3>4 DEF Ptr
    <3> QED BY <3>1, <3>2, <3>5
  <2>4. sink_car \in G \cup {NIL}
    <3>1. H \subseteq Cells /\ NIL \notin Cells /\ Sink \notin Cells
      BY CellsAre DEF Objects
    <3>2. sink_car \in H => sink_car \in marked
      BY <1>2, <3>1 DEF Ptr
    <3> QED BY <2>1, <3>2 DEF ChainOf
  <2>5. \A c \in Cells \ G : Holds(c)' => {car'[c], cdr'[c]} \cap G = {}
    <3> SUFFICES ASSUME NEW c \in Cells \ G, Holds(c)' PROVE {car'[c], cdr'[c]} \cap G = {}
      OBVIOUS
    <3>1. c \in marked /\ Holds(c) /\ car'[c] = car[c] /\ cdr'[c] = cdr[c]
      BY <1>11
    <3> QED BY <2>1, <3>1 DEF ChainOf
  <2>6. /\ \A r \in Regs : reg[r] \notin G
        /\ locals \cap G = {} /\ {call.a, call.b, call.x} \cap G = {}
    BY <2>1 DEF ChainOf
  <2>7. ASSUME NEW S \in SUBSET Cells, Ptr({sink_car}) \subseteq S,
               \A h \in G \cap S : Ptr({car'[h], cdr'[h]}) \subseteq S
        PROVE  Ptr(locals) \subseteq S
    <3>1. \A h \in H \cap marked \cap S : Ptr({car[h], cdr[h]}) \subseteq S
      BY <1>6, <1>7, <2>7
    <3>2. Ptr(locals) \subseteq S \cap marked
      BY <1>1, <2>1, <2>7, <3>1, AllMarked
    <3> QED BY <3>2
  <2>8. \E K \in SUBSET Objects' : K = G
    BY <2>2
  <2>9. PICK K \in SUBSET Objects' : K = G
    BY <2>8
  <2> HIDE DEF G
  <2>10. ChainOf(K)'
    <3>1. \A S \in SUBSET Cells :
             Ptr({sink_car}) \subseteq S /\ (\A h \in K \cap S : Ptr({car'[h], cdr'[h]}) \subseteq S)
               => Ptr(locals) \subseteq S
      BY <2>7, <2>9
    <3>2. \A h \in K : kind'[h] = "pair" /\ cdr'[h] \in K \cup {NIL} /\ car'[h] \notin K
      BY <2>3, <2>9
    <3>3. \A c \in Cells \ K : Holds(c)' => {car'[c], cdr'[c]} \cap K = {}
      BY <2>5, <2>9
    <3>4. /\ sink_car \in K \cup {NIL} /\ \A r \in Regs : reg[r] \notin K
          /\ locals \cap K = {} /\ {call.a, call.b, call.x} \cap K = {}
      BY <2>4, <2>6, <2>9
    <3> QED BY <1>1, <3>1, <3>2, <3>3, <3>4 DEF ChainOf, Ptr
  <2> QED BY <2>10 DEF Chain
<1>19. Control'
  <2>1. call = Idle \/ call.back # "run"
    BY <1>1 DEF IInv, Control
  <2>2. call.pp = NIL /\ call.x \in {NIL, call.a}
    BY <1>1 DEF IInv, Control
  <2> QED BY <1>1, <1>2, <1>3, <2>1, <2>2 DEF Control
<1>20. Search'
  <2>1. call.pp = NIL /\ (call.back \in {"find", "reserve"} => call.tries = 1)
    BY <1>1 DEF IInv, Control
  <2> QED BY <1>1, <1>3, <2>1 DEF Search
<1>21. Marking' /\ Linking'
  BY <1>3 DEF Marking, Linking
<1> QED BY <1>13, <1>14, <1>15, <1>16, <1>17, <1>18, <1>19, <1>20, <1>21 DEF IInv

-----------------------------------------------------------------------------
(* New segments                                                            *)

(* r is s, of length n, with b put between the first i members and the others. *)
Inserted(r, s, b, i, n) ==
  /\ Len(r) = n + 1
  /\ \A k \in 1..i : r[k] = s[k]
  /\ r[i + 1] = b
  /\ \A k \in (i + 1)..n : r[k + 1] = s[k]

LEMMA InsertedIs ==
  ASSUME NEW S, NEW s \in Seq(S), NEW b \in S, NEW n \in Nat, n = Len(s), NEW i \in 0..n
  PROVE  \A r : r = SubSeq(s, 1, i) \o <<b>> \o SubSeq(s, i + 1, n) =>
           r \in Seq(S) /\ Inserted(r, s, b, i, n)
<1>r. SUFFICES ASSUME NEW r, r = SubSeq(s, 1, i) \o <<b>> \o SubSeq(s, i + 1, n)
               PROVE  /\ Len(r) = n + 1 /\ r \in Seq(S)
                      /\ \A k \in 1..i : r[k] = s[k]
                      /\ r[i + 1] = b
                      /\ \A k \in (i + 1)..n : r[k + 1] = s[k]
  BY DEF Inserted
<1> DEFINE t == SubSeq(s, 1, i)
           v == SubSeq(s, i + 1, n)
           u == t \o <<b>>
<1>0. n \in Nat /\ i \in Nat /\ i <= n /\ \A k \in 1..n : s[k] \in S
  <2>1. \A k \in 1..Len(s) : s[k] \in S
    OBVIOUS
  <2> QED BY <2>1
<1>1. t \in Seq(S) /\ Len(t) = i /\ \A k \in 1..i : t[k] = s[k]
  <2>1. \A k \in 1..i : s[k] \in S
    BY <1>0
  <2> HIDE DEF t
  <2>2. /\ t \in Seq(S) /\ Len(t) = IF 1 <= i THEN i - 1 + 1 ELSE 0
        /\ \A k \in 1..(i - 1 + 1) : t[k] = s[1 + k - 1]
    BY <1>0, <2>1, SubSeqProperties DEF t
  <2>3. \A k \in 1..i : k \in 1..(i - 1 + 1) /\ 1 + k - 1 = k
    BY <1>0
  <2> QED BY <1>0, <2>2, <2>3
<1>2. v \in Seq(S) /\ Len(v) = n - i /\ \A k \in 1..(n - i) : v[k] = s[i + k]
  <2>1. \A k \in (i + 1)..n : s[k] \in S
    BY <1>0
  <2> HIDE DEF v
  <2>2. /\ v \in Seq(S) /\ Len(v) = IF i + 1 <= n THEN n - (i + 1) + 1 ELSE 0
        /\ \A k \in 1..(n - (i + 1) + 1) : v[k] = s[i + 1 + k - 1]
    BY <1>0, <2>1, SubSeqProperties DEF v
  <2>3. \A k \in 1..(n - i) : k \in 1..(n - (i + 1) + 1) /\ i + 1 + k - 1 = i + k
    BY <1>0
  <2> QED BY <1>0, <2>2, <2>3
<1>3. <<b>> \in Seq(S) /\ Len(<<b>>) = 1 /\ <<b>>[1] = b
  OBVIOUS
<1> HIDE DEF t, v
<1>4. u \in Seq(S) /\ Len(u) = i + 1 /\ (\A k \in 1..i : u[k] = s[k]) /\ u[i + 1] = b
  <2>1. /\ u \in Seq(S) /\ Len(u) = Len(t) + Len(<<b>>)
        /\ \A k \in 1..(Len(t) + Len(<<b>>)) :
              u[k] = IF k <= Len(t) THEN t[k] ELSE <<b>>[k - Len(t)]
    BY <1>1, <1>3, ConcatProperties
  <2> HIDE DEF u
  <2>2. u \in Seq(S) /\ Len(u) = i + 1
    BY <1>1, <1>3, <2>1
  <2>3. \A k \in 1..(i + 1) : u[k] = IF k <= i THEN t[k] ELSE <<b>>[k - i]
    BY <1>1, <1>3, <2>1
  <2>4. \A k \in 1..i : u[k] = s[k]
    BY <1>0, <1>1, <2>3
  <2>5. u[i + 1] = <<b>>[(i + 1) - i] /\ (i + 1) - i = 1
    BY <1>0, <2>3
  <2> QED BY <1>3, <2>2, <2>4, <2>5
<1> HIDE DEF u
<1>5. r = u \o v
  BY <1>r DEF t, u, v
<1>6. /\ r \in Seq(S) /\ Len(r) = Len(u) + Len(v)
      /\ \A k \in 1..(Len(u) + Len(v)) : r[k] = IF k <= Len(u) THEN u[k] ELSE v[k - Len(u)]
  <2>1. /\ u \o v \in Seq(S) /\ Len(u \o v) = Len(u) + Len(v)
        /\ \A k \in 1..(Len(u) + Len(v)) :
              (u \o v)[k] = IF k <= Len(u) THEN u[k] ELSE v[k - Len(u)]
    BY <1>2, <1>4, ConcatProperties
  <2> QED BY <1>5, <2>1
<1>7. Len(u) + Len(v) = n + 1
  BY <1>0, <1>2, <1>4
<1>8. \A k \in 1..(n + 1) : r[k] = IF k <= i + 1 THEN u[k] ELSE v[k - (i + 1)]
  BY <1>4, <1>6, <1>7
<1>9. \A k \in 1..i : r[k] = s[k]
  BY <1>0, <1>4, <1>8
<1>10. r[i + 1] = b
  BY <1>0, <1>4, <1>8
<1>11. \A k \in (i + 1)..n : r[k + 1] = s[k]
  <2> SUFFICES ASSUME NEW k \in (i + 1)..n PROVE r[k + 1] = s[k]
    OBVIOUS
  <2>1. r[k + 1] = v[(k + 1) - (i + 1)]
    BY <1>0, <1>8
  <2>2. (k + 1) - (i + 1) = k - i /\ k - i \in 1..(n - i) /\ i + (k - i) = k
    BY <1>0
  <2> QED BY <1>2, <2>1, <2>2
<1> QED BY <1>6, <1>7, <1>9, <1>10, <1>11

(* The array of segments stays in address order. *)
LEMMA InsertSegIs ==
  ASSUME Types, Layout, NEW b \in Bases \ Segments, cell_seg' = InsertSeg(b)
  PROVE  /\ cell_seg' \in Seq(Bases) /\ Segments' = Segments \cup {b}
         /\ \A i, j \in 1..Len(cell_seg') : i < j => cell_seg'[i] < cell_seg'[j]
<1> DEFINE n == Len(cell_seg)
           K == {0} \cup {k \in 1..n : cell_seg[k] <= b}
<1>0. n \in Nat /\ cell_seg \in Seq(Bases) /\ b \in Bases
  BY DEF Types
<1>1. \A k \in 1..n : cell_seg[k] \in Nat /\ cell_seg[k] \in Bases /\ cell_seg[k] # b
  BY <1>0, LayoutAssumption DEF Segments
<1>2. b \in Nat
  BY LayoutAssumption
<1>3. K \in SUBSET (0..n) /\ K # {}
  BY <1>0
<1>4. \E i \in K : i = Max(K) /\ \A k \in K : k <= i
  <2> HIDE DEF K
  <2>1. \E m \in K : \A k \in K : k <= m
    BY <1>0, <1>3, HasGreatest
  <2>2. \E m \in K : \A k \in K : m >= k
    BY <1>3, <2>1
  <2>3. Max(K) \in K /\ \A k \in K : Max(K) >= k
    BY <2>2 DEF Max
  <2> QED BY <1>3, <2>3
<1>5. PICK i \in K : i = Max(K) /\ \A k \in K : k <= i
  BY <1>4
<1>6. i \in Nat /\ i <= n /\ i \in 0..n
  BY <1>0, <1>3, <1>5
<1>7. cell_seg' = SubSeq(cell_seg, 1, i) \o <<b>> \o SubSeq(cell_seg, i + 1, n)
  BY <1>5 DEF InsertSeg
<1>8. \A k \in 1..n : (k <= i => cell_seg[k] < b) /\ (k > i => b < cell_seg[k])
  <2> SUFFICES ASSUME NEW k \in 1..n
               PROVE  (k <= i => cell_seg[k] < b) /\ (k > i => b < cell_seg[k])
    OBVIOUS
  <2>1. ASSUME k <= i PROVE cell_seg[k] < b
    <3>1. i \in 1..n /\ cell_seg[i] <= b
      BY <1>0, <1>5, <1>6, <2>1
    <3>2. k < i => cell_seg[k] < cell_seg[i]
      BY <3>1 DEF Layout
    <3> QED BY <1>1, <1>2, <1>6, <2>1, <3>1, <3>2
  <2>2. ASSUME k > i PROVE b < cell_seg[k]
    <3>1. k \notin K
      BY <1>5, <1>6, <2>2
    <3> QED BY <1>1, <1>2, <3>1
  <2> QED BY <2>1, <2>2
<1>9. \A j, k \in 1..n : j < k => cell_seg[j] < cell_seg[k]
  BY DEF Layout
<1>10. /\ Len(cell_seg') = n + 1 /\ cell_seg' \in Seq(Bases)
       /\ \A k \in 1..i : cell_seg'[k] = cell_seg[k]
       /\ cell_seg'[i + 1] = b
       /\ \A k \in (i + 1)..n : cell_seg'[k + 1] = cell_seg[k]
  <2>1. n = Len(cell_seg)
    OBVIOUS
  <2> HIDE DEF n, K
  <2>2. b \in Bases /\ i \in 0..n /\ n \in Nat /\ cell_seg \in Seq(Bases)
    BY <1>0, <1>6
  <2>3. \A r : r = SubSeq(cell_seg, 1, i) \o <<b>> \o SubSeq(cell_seg, i + 1, n) =>
           r \in Seq(Bases) /\ Inserted(r, cell_seg, b, i, n)
    BY <2>1, <2>2, InsertedIs, Zenon
  <2>4. cell_seg' \in Seq(Bases) /\ Inserted(cell_seg', cell_seg, b, i, n)
    BY <1>7, <2>3, Zenon
  <2> QED BY <2>4, Zenon DEF Inserted
<1> HIDE DEF n, K
<1>11. \A k \in 1..(n + 1) : \/ k \in 1..i /\ k \in 1..n /\ cell_seg'[k] = cell_seg[k]
                             \/ k = i + 1 /\ cell_seg'[k] = b
                             \/ k - 1 \in (i + 1)..n /\ k - 1 \in 1..n
                                  /\ cell_seg'[k] = cell_seg[k - 1]
  <2> SUFFICES ASSUME NEW k \in 1..(n + 1)
               PROVE  \/ k \in 1..i /\ k \in 1..n /\ cell_seg'[k] = cell_seg[k]
                      \/ k = i + 1 /\ cell_seg'[k] = b
                      \/ k - 1 \in (i + 1)..n /\ k - 1 \in 1..n
                           /\ cell_seg'[k] = cell_seg[k - 1]
    OBVIOUS
  <2>1. CASE k <= i
    BY <1>0, <1>6, <1>10, <2>1
  <2>2. CASE k = i + 1
    BY <1>10, <2>2
  <2>3. CASE k > i + 1
    <3>1. k - 1 \in (i + 1)..n /\ k - 1 \in 1..n /\ (k - 1) + 1 = k
      BY <1>0, <1>6, <2>3
    <3>2. cell_seg'[(k - 1) + 1] = cell_seg[k - 1]
      BY <1>10, <3>1
    <3> QED BY <3>1, <3>2
  <2> QED BY <1>6, <2>1, <2>2, <2>3
<1>12. Segments' = Segments \cup {b}
  <2>1. Segments = {cell_seg[k] : k \in 1..n} /\ Segments' = {cell_seg'[k] : k \in 1..(n + 1)}
    BY <1>10 DEF Segments, n
  <2>2. \A k \in 1..(n + 1) : cell_seg'[k] \in Segments \cup {b}
    BY <1>11, <2>1
  <2>3. b \in Segments'
    <3>1. i + 1 \in 1..(n + 1)
      BY <1>0, <1>6
    <3> QED BY <1>10, <2>1, <3>1
  <2>4. ASSUME NEW k \in 1..n PROVE cell_seg[k] \in Segments'
    <3>1. CASE k <= i
      <4>1. k \in 1..i /\ k \in 1..(n + 1)
        BY <1>0, <1>6, <3>1
      <4> QED BY <1>10, <2>1, <4>1
    <3>2. CASE k > i
      <4>1. k \in (i + 1)..n /\ k + 1 \in 1..(n + 1)
        BY <1>0, <1>6, <3>2
      <4> QED BY <1>10, <2>1, <4>1
    <3> QED BY <1>6, <3>1, <3>2
  <2> QED BY <2>1, <2>2, <2>3, <2>4
<1>13. ASSUME NEW j \in 1..(n + 1), NEW k \in 1..(n + 1), j < k
       PROVE  cell_seg'[j] < cell_seg'[k]
  <2>1. CASE k \in 1..i /\ k \in 1..n /\ cell_seg'[k] = cell_seg[k]
    <3>1. j \in 1..i /\ j \in 1..n
      BY <1>0, <1>6, <1>13, <2>1
    <3> QED BY <1>9, <1>10, <1>13, <2>1, <3>1
  <2>2. CASE k = i + 1 /\ cell_seg'[k] = b
    <3>1. j \in 1..i /\ j \in 1..n /\ j <= i
      BY <1>0, <1>6, <1>13, <2>2
    <3> QED BY <1>8, <1>10, <2>2, <3>1
  <2>3. CASE k - 1 \in (i + 1)..n /\ k - 1 \in 1..n /\ cell_seg'[k] = cell_seg[k - 1]
    <3>1. CASE j \in 1..i /\ j \in 1..n /\ cell_seg'[j] = cell_seg[j]
      <4>1. j < k - 1
        BY <1>6, <2>3, <3>1
      <4> QED BY <1>9, <2>3, <3>1, <4>1
    <3>2. CASE j = i + 1 /\ cell_seg'[j] = b
      <4>1. k - 1 > i
        BY <1>6, <2>3
      <4> QED BY <1>8, <2>3, <3>2, <4>1
    <3>3. CASE j - 1 \in (i + 1)..n /\ j - 1 \in 1..n /\ cell_seg'[j] = cell_seg[j - 1]
      <4>1. j - 1 < k - 1
        BY <1>0, <1>13
      <4> QED BY <1>9, <2>3, <3>3, <4>1
    <3> QED BY <1>11, <3>1, <3>2, <3>3
  <2> QED BY <1>11, <2>1, <2>2, <2>3
<1> QED BY <1>10, <1>12, <1>13

(* Steps that write in free cells only and may add a segment.              *)
LEMMA ListStep ==
  ASSUME IInv, UNCHANGED <<kind, car, len, sink_car, no_memory, reg, locals>>,
         \A c \in Cells : kind[c] # "free" => cdr'[c] = cdr[c],
         UNCHANGED <<call.a, call.b, call.x>>, Segments \subseteq Segments'
  PROVE  Objects' = Objects /\ Pointers' /\ Vectors' /\ Chain'
<1>1. Objects' = Objects /\ Values' = Values
  BY DEF Objects, Values
<1>2. \A c \in Cells : Holds(c)' => Holds(c) /\ cdr'[c] = cdr[c]
  BY DEF Holds
<1>3. Pointers'
  BY <1>1, <1>2 DEF IInv, Pointers
<1>4. Vectors'
  <2>1. \A v : Elems(v)' = Elems(v)
    BY DEF Elems
  <2> QED BY <2>1 DEF IInv, Vectors
<1>5. ASSUME NEW H \in SUBSET Objects, ChainOf(H) PROVE ChainOf(H)'
  <2>1. \A h \in H : h \in Cells /\ cdr'[h] = cdr[h]
    BY DEF Objects
  <2>2. \A h \in H : kind'[h] = "pair" /\ cdr'[h] \in H \cup {NIL} /\ car'[h] \notin H
    BY <1>5, <2>1 DEF ChainOf
  <2>3. \A c \in Cells \ H : Holds(c)' => {car'[c], cdr'[c]} \cap H = {}
    BY <1>2, <1>5 DEF ChainOf
  <2>4. \A S \in SUBSET Cells :
          Ptr({sink_car}) \subseteq S /\ (\A h \in H \cap S : Ptr({car'[h], cdr'[h]}) \subseteq S)
            => Ptr(locals) \subseteq S
    <3>1. \A S : (\A h \in H \cap S : Ptr({car'[h], cdr'[h]}) \subseteq S)
                 => (\A h \in H \cap S : Ptr({car[h], cdr[h]}) \subseteq S)
      BY <2>1
    <3> QED BY <1>5, <3>1 DEF ChainOf
  <2> QED BY <1>5, <2>2, <2>3, <2>4 DEF ChainOf, Ptr
<1> QED BY <1>1, <1>3, <1>4, <1>5 DEF IInv, Chain

(* The cells of a new segment are new, and it does not touch the others.   *)
LEMMA NewBlock ==
  ASSUME IInv, NEW b \in Bases \ Segments
  PROVE  /\ Block(b) \cap Allocated = {} /\ Block(b) \subseteq Cells
         /\ \A c \in Block(b) : kind[c] = "free"
         /\ IsFiniteSet(Block(b)) /\ Cardinality(Block(b)) = SegSize
         /\ \A c \in Allocated : c <= Last(b) + 1 => c < b
<1>0. Types /\ Layout
  BY DEF IInv
<1>1. Block(b) \cap Allocated = {} /\ Block(b) \subseteq Cells
  <2>1. \A d \in Segments : Block(b) \cap Block(d) = {}
    BY <1>0, InSegments, BlocksApart
  <2> QED BY <1>0, <2>1, InSegments DEF Cells
<1>2. \A c \in Block(b) : kind[c] = "free"
  BY <1>0, <1>1 DEF Layout
<1>3. b \in Nat /\ SegSize \in Nat \ {0}
  BY LayoutAssumption
<1>4. IsFiniteSet(Block(b)) /\ Cardinality(Block(b)) = SegSize
  <2> DEFINE e == b + SegSize - 1
  <2>1. Block(b) = b..e
    BY DEF Block
  <2>2. b \in Int /\ e \in Int /\ ~(b > e) /\ e - b + 1 = SegSize
    BY <1>3
  <2> HIDE DEF e
  <2>3. IsFiniteSet(b..e) /\ Cardinality(b..e) = IF b > e THEN 0 ELSE e - b + 1
    BY <2>2, FS_Interval
  <2> QED BY <2>1, <2>2, <2>3
<1>5. ASSUME NEW c \in Allocated, c <= Last(b) + 1 PROVE c < b
  <2>1. PICK d \in Segments : c \in Block(d)
    BY <1>0, InSegments
  <2>2. d \in Bases /\ d \in Nat /\ d # b
    BY <1>0, <2>1, InSegments, LayoutAssumption
  <2>3. (b < d => b + SegSize < d) /\ (d < b => d + SegSize < b)
    BY <2>2, LayoutAssumption
  <2>4. c \in d..(d + SegSize - 1) /\ c <= b + SegSize
    BY <1>5, <1>3, <2>1, Blocks DEF Block
  <2> QED BY <1>3, <2>2, <2>3, <2>4
<1> QED BY <1>1, <1>2, <1>4, <1>5

LEMMA NewSegmentKeeps == ASSUME IInv, NewSegment PROVE IInv'
<1>0. Types /\ Layout /\ call \in Calls /\ call.pp = NIL /\ call.back # "run" /\ ~no_memory
  BY DEF NewSegment, IInv, Types, Control
<1>1. PICK b \in Bases \ Segments :
        /\ cell_seg' = InsertSeg(b)
        /\ fcells' = fcells + SegSize
        /\ \/ /\ free_cell = NIL \/ Last(b) + 1 < free_cell
              /\ cdr' = [c \in Cells |-> IF c = Last(b) THEN free_cell
                                        ELSE IF c \in Block(b) THEN c + 1 ELSE cdr[c]]
              /\ free_cell' = b
              /\ pc' = call.back /\ call' = call
           \/ /\ free_cell # NIL /\ free_cell <= Last(b) + 1
              /\ cdr' = [c \in Cells |-> IF c \in Block(b) THEN c + 1 ELSE cdr[c]]
              /\ call' = [call EXCEPT !.pp = free_cell, !.seg = b]
              /\ pc' = "link" /\ free_cell' = free_cell
  BY DEF NewSegment, Segments
<1>2. /\ pc = "grow"
      /\ UNCHANGED <<kind, car, len, sink_car, no_memory, reg, locals, marked>>
  BY DEF NewSegment
<1>3. /\ cell_seg' \in Seq(Bases) /\ Segments' = Segments \cup {b}
      /\ \A i, j \in 1..Len(cell_seg') : i < j => cell_seg'[i] < cell_seg'[j]
  BY <1>0, <1>1, InsertSegIs
<1>4. /\ Block(b) \cap Allocated = {} /\ Block(b) \subseteq Cells
      /\ \A c \in Block(b) : kind[c] = "free"
      /\ IsFiniteSet(Block(b)) /\ Cardinality(Block(b)) = SegSize
      /\ \A c \in Allocated : c <= Last(b) + 1 => c < b
  BY NewBlock
<1>5. Allocated' = Allocated \cup Block(b)
  <2>1. Allocated' = UNION {Block(d) : d \in Segments'}
    BY DEF Allocated, Segments
  <2>2. Allocated = UNION {Block(d) : d \in Segments}
    BY DEF Allocated, Segments
  <2> QED BY <1>3, <2>1, <2>2
<1>6. Free' = Free \cup Block(b) /\ Free \cap Block(b) = {} /\ Free \subseteq Allocated
  BY <1>2, <1>4, <1>5 DEF Free
<1>7. /\ Threaded(Free, cdr, free_cell) /\ Free \in SUBSET Addresses
      /\ fcells = Cardinality(Free) /\ fcells \in Nat
  <2>1. IsFiniteSet(Free)
    BY <1>0, <1>6, AllocatedFinite, FS_Subset
  <2>2. Cardinality(Free) \in Nat
    BY <2>1, FS_CardinalityType
  <2> QED BY <1>2, <2>2, FreeThreaded DEF IInv, List
<1>8. fcells' = Cardinality(Free')
  <2>1. IsFiniteSet(Free)
    BY <1>0, <1>6, AllocatedFinite, FS_Subset
  <2>2. Cardinality(Free \cup Block(b))
          = Cardinality(Free) + Cardinality(Block(b)) - Cardinality(Free \cap Block(b))
    BY <1>4, <2>1, FS_Union
  <2>3. Cardinality(Free \cap Block(b)) = 0
    BY <1>6, FS_EmptySet
  <2> QED BY <1>1, <1>4, <1>6, <1>7, <2>2, <2>3, LayoutAssumption
<1>9. /\ b \in Addresses /\ Last(b) \in Addresses /\ b <= Last(b)
      /\ Block(b) = b..Last(b) /\ b \in Block(b) /\ Last(b) \in Block(b)
  BY Blocks
<1>10. \A c \in Cells \ Block(b) : cdr'[c] = cdr[c]
  <2>1. \A c \in Cells \ Block(b) : c # Last(b)
    BY <1>9
  <2> QED BY <1>1, <2>1
<1>11. \A c \in Block(b) \ {Last(b)} : cdr'[c] = c + 1
  BY <1>1, <1>4
<1>12. UNCHANGED <<call.a, call.b, call.x, call.n, call.back, call.tries>> /\ call' \in Calls
  <2>1. free_cell = NIL \/ free_cell \in Free
    BY <1>7, LeastOfIs DEF Threaded
  <2>2. Free \subseteq Int /\ b \in Int
    BY <1>7, <1>9 DEF Addresses
  <2>3. free_cell \in Int
    BY <2>1, <2>2, NatFacts
  <2> QED BY <1>0, <1>1, <2>2, <2>3 DEF Calls
<1>13. /\ pc' \in {"cell", "holder", "find", "reserve", "link"}
       /\ pc' # "link" => pc' = call.back /\ call' = call
  BY <1>0, <1>1 DEF Calls
<1>14. /\ Objects' = Objects /\ Pointers' /\ Vectors' /\ Chain'
  <2>1. \A c \in Cells : kind[c] # "free" => cdr'[c] = cdr[c]
    BY <1>4, <1>10
  <2>2. UNCHANGED <<call.a, call.b, call.x>> /\ Segments \subseteq Segments'
    BY <1>3, <1>12
  <2> QED BY <1>2, <2>1, <2>2, ListStep
<1>15. Layout'
  BY <1>0, <1>2, <1>3, <1>5 DEF Layout
<1>16. \A c \in Free : cdr'[c] = cdr[c]
  BY <1>0, <1>6, <1>10, InSegments
<1>17. CASE pc' # "link"
  <2>1. /\ free_cell = NIL \/ Last(b) + 1 < free_cell
        /\ cdr' = [c \in Cells |-> IF c = Last(b) THEN free_cell
                                  ELSE IF c \in Block(b) THEN c + 1 ELSE cdr[c]]
        /\ free_cell' = b
    BY <1>1, <1>17
  <2>2. Threaded(Free', cdr', b)
    <3>1. \A c \in b..Last(b) : cdr'[c] = IF c = Last(b) THEN free_cell ELSE c + 1
      <4>1. \A c \in Block(b) : cdr'[c] = IF c = Last(b) THEN free_cell ELSE c + 1
        BY <1>4, <2>1
      <4> QED BY <1>9, <4>1
    <3>2. \A c \in Free \ (b..Last(b)) : cdr'[c] = cdr[c]
      BY <1>16
    <3>3. free_cell = NIL \/ Last(b) < free_cell
      <4>1. free_cell = NIL \/ free_cell \in Free
        BY <1>7, LeastOfIs DEF Threaded
      <4>2. Free \subseteq Nat /\ Last(b) \in Nat
        BY <1>7, <1>9 DEF Addresses
      <4>3. free_cell = NIL \/ free_cell \in Nat
        BY <4>1, <4>2
      <4> QED BY <2>1, <4>2, <4>3
    <3>4. b \in Addresses /\ Last(b) \in Nat /\ b <= Last(b)
      BY <1>9 DEF Addresses
    <3>5. Threaded(Free \cup (b..Last(b)), cdr', b)
      BY <1>7, <3>1, <3>2, <3>3, <3>4, JoinFront
    <3> QED BY <1>6, <1>9, <3>5
  <2>3. List'
    BY <1>8, <1>17, <2>1, <2>2 DEF List, Listed
  <2>4. cdr' \in [Cells -> Int]
    <3>1. free_cell \in Int /\ \A c \in Block(b) : c + 1 \in Int
      <4>1. free_cell = NIL \/ free_cell \in Free
        BY <1>7, LeastOfIs DEF Threaded
      <4>2. Free \subseteq Int /\ \A c \in b..Last(b) : c + 1 \in Int
        BY <1>7, <1>9 DEF Addresses
      <4> QED BY <1>9, <4>1, <4>2, NatFacts
    <3> QED BY <1>0, <2>1, <3>1 DEF Types
  <2>5. Types'
    BY <1>0, <1>2, <1>3, <1>12, <1>13, <2>4 DEF Types
  <2>6. Control' /\ Linking' /\ Marking'
    BY <1>0, <1>2, <1>13, <1>17 DEF IInv, Control, Linking, Marking
  <2>7. Search'
    <3>1. \E d \in Segments' : Block(d) \subseteq Free'
      BY <1>3, <1>6
    <3>2. fcells' >= SegSize
      BY <1>1, <1>7, LayoutAssumption
    <3> QED BY <1>0, <1>13, <1>17, <3>1, <3>2 DEF Search
  <2> QED BY <1>14, <1>15, <2>3, <2>5, <2>6, <2>7 DEF IInv
<1>18. CASE pc' = "link"
  <2>1. /\ free_cell # NIL /\ free_cell <= Last(b) + 1
        /\ cdr' = [c \in Cells |-> IF c \in Block(b) THEN c + 1 ELSE cdr[c]]
        /\ call' = [call EXCEPT !.pp = free_cell, !.seg = b]
        /\ free_cell' = free_cell
    BY <1>0, <1>1, <1>18 DEF Calls
  <2>2. call'.pp = free_cell /\ call'.seg = b
    BY <1>0, <2>1 DEF Calls
  <2>3. free_cell \in Free /\ free_cell < b
    BY <1>4, <1>6, <1>7, <2>1, LeastOfIs DEF Threaded
  <2>4. Listed' = Free
    BY <1>6, <1>18, <2>2 DEF Listed
  <2>5. List'
    BY <1>7, <1>8, <1>16, <2>1, <2>4 DEF List, Threaded
  <2>6. Linking'
    BY <1>3, <1>6, <1>11, <2>2, <2>3, <2>4 DEF Linking
  <2>7. cdr' \in [Cells -> Int]
    <3>1. \A c \in Block(b) : c + 1 \in Int
      <4>1. \A c \in b..Last(b) : c + 1 \in Int
        BY <1>9 DEF Addresses
      <4> QED BY <1>9, <4>1
    <3> QED BY <1>0, <2>1, <3>1 DEF Types
  <2>8. Types'
    BY <1>0, <1>2, <1>3, <1>12, <1>13, <2>7 DEF Types
  <2>9. Control' /\ Marking'
    BY <1>0, <1>2, <1>12, <1>18 DEF IInv, Control, Marking
  <2>10. Search'
    <3>1. fcells' >= SegSize
      BY <1>1, <1>7, LayoutAssumption
    <3> QED BY <1>18, <3>1 DEF Search
  <2> QED BY <1>14, <1>15, <2>5, <2>6, <2>8, <2>9, <2>10 DEF IInv
<1> QED BY <1>17, <1>18

(* The segment is linked in between the last free cell below it and the    *)
(* first above it.                                                         *)
LEMMA LinkSegmentKeeps == ASSUME IInv, LinkSegment PROVE IInv'
<1> SUFFICES ASSUME NEW b, b = call.seg, NEW p, p = call.pp PROVE IInv'
  OBVIOUS
<1>0. Types /\ Layout /\ call \in Calls /\ call.back # "run" /\ ~no_memory /\ b \in Int
  BY DEF LinkSegment, IInv, Types, Control, Calls
<1>1. /\ pc = "link" /\ (cdr[p] = NIL \/ ~(b > cdr[p]))
      /\ cdr' = [cdr EXCEPT ![Last(b)] = cdr[p], ![p] = b]
      /\ call' = [call EXCEPT !.pp = NIL, !.seg = NIL]
      /\ pc' = call.back
      /\ UNCHANGED <<cell_seg, free_cell, fcells, kind, car, len, sink_car, no_memory,
                     reg, locals, marked>>
  BY DEF LinkSegment, BelowSegment, lists
<1>2. /\ b \in Segments /\ b \in Bases /\ Block(b) \subseteq Free
      /\ \A c \in Block(b) \ {Last(b)} : cdr[c] = c + 1
      /\ p \in Listed /\ p < b /\ Listed = Free \ Block(b)
  BY <1>0, <1>1, InSegments DEF IInv, Linking, Listed
<1>3. /\ b \in Addresses /\ Last(b) \in Addresses /\ b <= Last(b)
      /\ Block(b) = b..Last(b) /\ b \in Block(b) /\ Last(b) \in Block(b)
  BY <1>2, Blocks
<1>4. /\ Threaded(Listed, cdr, free_cell) /\ Listed \in SUBSET Addresses
      /\ fcells = Cardinality(Free) /\ Free \subseteq Cells
  BY <1>0, ListedIn, Kinds DEF IInv, List
<1>5. p \in Cells /\ p # Last(b) /\ Last(b) \in Cells /\ p \notin Block(b)
  BY <1>2, <1>3, <1>4
<1>6. /\ cdr'[p] = b /\ cdr'[Last(b)] = cdr[p]
      /\ \A c \in Cells \ {p, Last(b)} : cdr'[c] = cdr[c]
      /\ cdr' \in [Cells -> Int]
  BY <1>0, <1>1, <1>5 DEF Types
<1>7. /\ Segments' = Segments /\ Allocated' = Allocated /\ Free' = Free
  BY <1>1 DEF Segments, Allocated, Free
<1>8. /\ call' \in Calls /\ call'.pp = NIL
      /\ UNCHANGED <<call.a, call.b, call.x, call.n, call.back, call.tries>>
  BY <1>0, <1>1, NatFacts DEF Calls
<1>9. pc' \in {"cell", "holder", "find", "reserve"}
  BY <1>0, <1>1 DEF Calls
<1>10. Listed' = Listed \cup (b..Last(b))
  BY <1>2, <1>3, <1>7, <1>9 DEF Listed
<1>11. Threaded(Listed', cdr', free_cell)
  <2>1. \A c \in b..Last(b) : cdr'[c] = IF c = Last(b) THEN cdr[p] ELSE c + 1
    <3>1. \A c \in Block(b) : c \in Cells /\ c # p
      BY <1>2, <1>4, <1>5
    <3> QED BY <1>2, <1>3, <1>6, <3>1
  <2>2. \A c \in Listed \ {p} : cdr'[c] = cdr[c]
    BY <1>2, <1>3, <1>4, <1>6
  <2>3. cdr[p] = NIL \/ b <= cdr[p]
    <3>1. cdr[p] \in Int
      BY <1>0, <1>5 DEF Types
    <3> QED BY <1>0, <1>1, <3>1
  <2>4. b \in Addresses /\ Last(b) \in Nat /\ b <= Last(b) /\ (b..Last(b)) \cap Listed = {}
    BY <1>2, <1>3 DEF Addresses
  <2>5. p \in Listed /\ p < b /\ cdr'[p] = b
    BY <1>2, <1>6
  <2>6. Threaded(Listed \cup (b..Last(b)), cdr', free_cell)
    BY <1>4, <2>1, <2>2, <2>3, <2>4, <2>5, JoinBehind
  <2> QED BY <1>10, <2>6
<1>12. List'
  BY <1>1, <1>4, <1>7, <1>11 DEF List
<1>13. Objects' = Objects /\ Pointers' /\ Vectors' /\ Chain'
  <2>1. \A c \in Cells : kind[c] # "free" => cdr'[c] = cdr[c]
    <3>1. kind[p] = "free" /\ kind[Last(b)] = "free"
      BY <1>2, <1>3 DEF Free
    <3> QED BY <1>6, <3>1
  <2> QED BY <1>1, <1>7, <1>8, <2>1, ListStep
<1>14. Types'
  BY <1>0, <1>1, <1>6, <1>8, <1>9 DEF Types
<1>15. Layout'
  BY <1>0, <1>1, <1>7 DEF Layout
<1>16. Control' /\ Linking' /\ Marking'
  BY <1>0, <1>1, <1>8, <1>9 DEF IInv, Control, Linking, Marking
<1>17. Search'
  <2>1. \E d \in Segments' : Block(d) \subseteq Free'
    BY <1>2, <1>7
  <2>2. fcells' >= SegSize
    BY <1>1 DEF IInv, Search
  <2> QED BY <1>8, <1>9, <2>1, <2>2 DEF Search
<1> QED BY <1>12, <1>13, <1>14, <1>15, <1>16, <1>17 DEF IInv

-----------------------------------------------------------------------------
(* The invariant                                                           *)

LEMMA InitIInv == Init => IInv
<1> SUFFICES ASSUME Init PROVE IInv
  OBVIOUS
<1>1. PICK b \in Bases :
        /\ cell_seg = <<b>>
        /\ cdr = [c \in Cells |-> IF c \in Block(b) /\ c + 1 \in Block(b) THEN c + 1 ELSE NIL]
        /\ free_cell = b
  BY DEF Init
<1>2. /\ kind = [c \in Cells |-> "free"] /\ car = [c \in Cells |-> NIL]
      /\ len = [c \in Cells |-> 0] /\ fcells = SegSize /\ sink_car = NIL
      /\ no_memory = FALSE /\ reg = [r \in Regs |-> NIL] /\ locals = {}
      /\ pc = "run" /\ call = Idle
  BY DEF Init
<1>3. /\ b \in Addresses /\ Last(b) \in Nat /\ b <= Last(b)
      /\ Block(b) = b..Last(b) /\ Block(b) \subseteq Addresses
  BY Blocks DEF Addresses
<1>4. Len(cell_seg) = 1 /\ cell_seg[1] = b /\ cell_seg \in Seq(Bases)
  BY <1>1
<1>5. Segments = {b} /\ Allocated = Block(b)
  BY <1>4 DEF Segments, Allocated
<1>6. Block(b) \subseteq Cells
  BY DEF Cells
<1>7. Free = Block(b) /\ Listed = Block(b)
  BY <1>2, <1>5, <1>6 DEF Free, Listed
<1>8. Threaded(Block(b), cdr, b)
  <2>1. Threaded({}, cdr, NIL)
    BY DEF Threaded, LeastOf
  <2>2. \A c \in b..Last(b) : cdr[c] = IF c = Last(b) THEN NIL ELSE c + 1
    <3>1. \A c \in b..Last(b) : c + 1 \in b..Last(b) <=> c # Last(b)
      BY <1>3 DEF Addresses
    <3> QED BY <1>1, <1>3, <1>6, <3>1
  <2>3. Threaded({} \cup (b..Last(b)), cdr, b)
    BY ZenonT(60), <1>3, <2>1, <2>2, JoinFront
  <2>4. {} \cup (b..Last(b)) = Block(b)
    BY <1>3
  <2> QED BY <2>3, <2>4
<1>9. List
  <2>1. Cardinality(Block(b)) = SegSize
    <3> DEFINE e == b + SegSize - 1
    <3>1. Block(b) = b..e
      BY DEF Block
    <3>2. b \in Int /\ e \in Int /\ ~(b > e) /\ e - b + 1 = SegSize
      BY LayoutAssumption
    <3> HIDE DEF e
    <3>3. Cardinality(b..e) = IF b > e THEN 0 ELSE e - b + 1
      BY <3>2, FS_Interval
    <3> QED BY <3>1, <3>2, <3>3
  <2> QED BY <1>1, <1>2, <1>7, <1>8, <2>1 DEF List
<1>10. Types
  <2>1. \A c \in Block(b) : c + 1 \in Int
    BY <1>3 DEF Addresses
  <2> QED BY <1>1, <1>2, <1>4, <2>1, NatFacts, IdleIs DEF Types
<1>11. Layout
  BY <1>2, <1>4 DEF Layout
<1>12. Pointers /\ Vectors
  BY <1>2, IdleIs DEF Pointers, Vectors, Holds, Values
<1>13. Linking /\ Control /\ Marking /\ Search
  BY <1>2, IdleIs DEF Linking, Control, Marking, Search
<1>14. ChainOf({})
  BY <1>2 DEF ChainOf, Ptr
<1> QED BY <1>9, <1>10, <1>11, <1>12, <1>13, <1>14 DEF IInv, Chain

LEMMA StutterKeeps == ASSUME IInv, UNCHANGED vars PROVE IInv'
<1>1. /\ UNCHANGED <<lists, cells, sink_car, no_memory, reg, locals, pc, call, marked>>
  BY DEF vars, lists, cells
<1>2. UNCHANGED <<cell_seg, free_cell, fcells, kind, car, cdr, len>>
  BY <1>1 DEF lists, cells
<1>3. Free' = Free /\ Used' = Used /\ Segments' = Segments /\ Objects' = Objects
      /\ Values' = Values /\ Layout' /\ Vectors'
  BY <1>2, SameHeap DEF IInv
<1>4. Listed' = Listed /\ Roots' = Roots /\ Needed' = Needed
  BY <1>1, <1>3, RootsStay DEF Listed, Needed
<1>5. Types' /\ Control'
  BY <1>1, <1>2, <1>3 DEF IInv, Types, Control
<1>6. Pointers'
  BY <1>1, <1>2, <1>3 DEF IInv, Pointers, Holds
<1>7. List' /\ Linking' /\ Marking'
  BY <1>1, <1>2, <1>3, <1>4 DEF IInv, List, Threaded, Linking, Marking
<1>8. Search'
  BY <1>1, <1>2, <1>3, <1>4 DEF IInv, Search, NoRunUpTo, NoRunAtAll
<1>9. Chain'
  <2>1. ASSUME NEW H, ChainOf(H) PROVE ChainOf(H)'
    BY <1>1, <1>2, <2>1 DEF ChainOf, Ptr, Holds
  <2> QED BY <1>1, <1>3, <2>1 DEF IInv, Chain
<1> QED BY <1>3, <1>5, <1>6, <1>7, <1>8, <1>9 DEF IInv

LEMMA StepIInv == IInv /\ [Next]_vars => IInv'
<1> SUFFICES ASSUME IInv, [Next]_vars PROVE IInv'
  OBVIOUS
<1>1. CASE Allocator
  <2>1. CASE TakeCell BY <2>1, TakeCellKeeps
  <2>2. CASE HoldRecent BY <2>2, HoldRecentKeeps
  <2>3. CASE TakeSink BY <2>3, TakeSinkKeeps
  <2>4. CASE SkipRun BY <2>4, SkipRunKeeps
  <2>5. CASE TakeRun BY <2>5, TakeRunKeeps
  <2>6. CASE NoRun BY <2>6, NoRunKeeps
  <2>7. CASE NoVector BY <2>7, NoVectorKeeps
  <2>8. CASE Reserve BY <2>8, ReserveKeeps
  <2>9. CASE NeedGc BY <2>9, NeedGcKeeps
  <2>10. CASE StartMarking BY <2>10, StartMarkingKeeps
  <2>11. CASE Mark BY <2>11, MarkKeeps
  <2>12. CASE Sweep BY <2>12, SweepKeeps
  <2>13. CASE NewSegment BY <2>13, NewSegmentKeeps
  <2>14. CASE WalkOn BY <2>14, WalkOnKeeps
  <2>15. CASE LinkSegment BY <2>15, LinkSegmentKeeps
  <2>16. CASE NoSegment BY <2>16, NoSegmentKeeps
  <2> QED BY <1>1, <2>1, <2>2, <2>3, <2>4, <2>5, <2>6, <2>7, <2>8, <2>9, <2>10, <2>11,
             <2>12, <2>13, <2>14, <2>15, <2>16 DEF Allocator
<1>2. CASE Opcode
  <2>1. ASSUME NEW a, NEW b, Cons(a, b) PROVE IInv' BY <2>1, ConsKeeps
  <2>2. ASSUME NEW r \in Regs, HoldArgs(r) PROVE IInv' BY <2>2, HoldArgsKeeps
  <2>3. ASSUME NEW n \in VecLens, MkVector(n) PROVE IInv' BY <2>3, MkVectorKeeps
  <2>4. ASSUME NEW n \in Reserves, ReserveCells(n) PROVE IInv' BY <2>4, ReserveCellsKeeps
  <2>5. ASSUME NEW r \in Regs, NEW v, Assign(r, v) PROVE IInv' BY <2>5, AssignKeeps
  <2>6. ASSUME NEW f, NEW c, NEW v, SetField(f, c, v) PROVE IInv' BY <2>6, SetFieldKeeps
  <2>7. ASSUME NEW c, NEW v, fill_vector(c, v) PROVE IInv' BY <2>7, FillKeeps
  <2>8. ASSUME NEW c, NEW v, NEW i \in 0 .. (2 * SegSize), set_vector_elem(c, i, v) PROVE IInv'
    BY <2>8, SetElemKeeps
  <2>9. CASE GcPrimitive BY <2>9, GcPrimitiveKeeps
  <2>10. CASE ok_to_freely_gc BY <2>10, FreelyGcKeeps
  <2> QED BY <1>2, <2>1, <2>2, <2>3, <2>4, <2>5, <2>6, <2>7, <2>8, <2>9, <2>10 DEF Opcode
<1>3. CASE UNCHANGED vars
  BY <1>3, StutterKeeps
<1> QED BY <1>1, <1>2, <1>3 DEF Next

LEMMA IInvAlways == Spec => []IInv
<1> QED BY InitIInv, StepIInv, PTL DEF Spec

-----------------------------------------------------------------------------
(* The free list                                                           *)

LEMMA FreeFinite == IInv => IsFiniteSet(Free) /\ Cardinality(Free) \in Nat
BY Kinds, AllocatedFinite, FS_Subset, FS_CardinalityType DEF IInv

LEMMA ListIsExact == IInv => FreeListExact
<1> SUFFICES ASSUME IInv PROVE FreeListExact
  OBVIOUS
<1>1. VectorsWhole
  <2> SUFFICES ASSUME NEW v \in Allocated, kind[v] = "vector"
               PROVE  /\ \E k \in 1..Len(cell_seg) : Elems(v) \cup {v} \subseteq Block(cell_seg[k])
                      /\ \A e \in Elems(v) : kind[e] = "elem"
                      /\ \A c \in Allocated \ {v} : Points(c) \cap Elems(v) = {}
    BY DEF VectorsWhole
  <2>1. v \in Cells
    BY InSegments DEF IInv
  <2>2. PICK b \in Segments : Elems(v) \cup {v} \subseteq Block(b)
    BY <2>1 DEF IInv, Vectors
  <2>3. PICK k \in 1..Len(cell_seg) : cell_seg[k] = b
    BY DEF Segments
  <2>4. \A e \in Elems(v) : kind[e] = "elem"
    BY <2>1 DEF IInv, Vectors
  <2>5. ASSUME NEW c \in Allocated \ {v} PROVE Points(c) \cap Elems(v) = {}
    <3>1. c \in Cells /\ c # v /\ kind[c] \in {"free", "pair", "vector", "elem"}
      BY InSegments DEF IInv, Types
    <3>2. CASE kind[c] = "free"
      BY <3>2 DEF Points
    <3>3. CASE kind[c] = "vector"
      <4>1. Points(c) = Elems(c)
        BY <3>3 DEF Points
      <4>2. Elems(v) \cap Elems(c) = {}
        BY <2>1, <3>1, <3>3 DEF IInv, Vectors
      <4> QED BY <4>1, <4>2
    <3>4. CASE kind[c] \in {"pair", "elem"}
      <4>1. Points(c) = Ptr({car[c], cdr[c]}) /\ {car[c], cdr[c]} \subseteq Values
        BY <3>1, <3>4 DEF Points, IInv, Pointers, Holds
      <4>2. Points(c) \subseteq Objects
        BY <4>1 DEF Ptr, Values
      <4> QED BY <4>2, <2>4 DEF Objects
    <3> QED BY <3>1, <3>2, <3>3, <3>4
  <2> QED BY <2>2, <2>3, <2>4, <2>5
<1>2. \A c : {d \in Listed : d > c} = Above(Listed, c)
  BY DEF Above
<1>3. /\ free_cell = LeastOf(Listed)
      /\ \A c \in Listed : cdr[c] = LeastOf(Above(Listed, c))
      /\ fcells = Cardinality(Free)
  BY DEF IInv, List, Threaded
<1> QED BY <1>1, <1>2, <1>3 DEF FreeListExact

(* Whatever the order in which malloc returns segments, and in which cells *)
(* and runs of cells are taken and recovered: between any two steps of the *)
(* allocator the free list holds every free cell once and in address       *)
(* order, fcells is its length, and vectors are whole.                     *)
THEOREM FreeListAlwaysExact == Spec => []FreeListExact
BY IInvAlways, ListIsExact, PTL

LEMMA NothingHeldIsFree == IInv => NoDangling
<1> SUFFICES ASSUME IInv PROVE NoDangling
  OBVIOUS
<1>1. {reg[r] : r \in Regs} \cup locals \cup {call.a, call.b, call.x, sink_car} \subseteq Values
  BY DEF IInv, Pointers
<1> QED BY <1>1, PointsUsed DEF NoDangling, Used

(* Nothing that a register, an opcode or the allocator holds, or that can  *)
(* be reached from there, is ever free: the collector finds a new cell by  *)
(* the arguments of the call, by the chain of recent allocations or by the *)
(* register it was stored in, in the middle of an allocation too.          *)
THEOREM NeverDangling == Spec => []NoDangling
BY IInvAlways, NothingHeldIsFree, PTL
-----------------------------------------------------------------------------
(* Out of memory                                                           *)

(* The heap cannot grow for lack of segments. *)
LEMMA CannotGrow ==
  ASSUME IInv, NoSegment, no_memory'
  PROVE  CASE call.back \in {"cell", "holder"} -> Free = {}
           [] call.back = "find" -> NoRunAtAll
           [] call.back = "reserve" -> Cardinality(Free) < call.n
<1>1. pc = "grow" /\ call.back \in {"cell", "holder", "find", "reserve"}
  BY DEF NoSegment
<1>2. CASE call.back \in {"cell", "holder"}
  <2>1. free_cell = NIL
    BY <1>2 DEF NoSegment
  <2>2. Free = {}
    BY <1>1, <2>1, FreeThreaded, LeastOfIs DEF Threaded
  <2> QED BY <1>2, <2>2
<1>3. CASE call.back = "find"
  BY <1>1, <1>3 DEF IInv, Search
<1>4. CASE call.back = "reserve"
  BY <1>1, <1>4 DEF IInv, Search, List
<1> QED BY <1>1, <1>2, <1>3, <1>4

(* A run of cells was not even found in a new segment. *)
LEMMA RunTooLong ==
  ASSUME IInv, NoRun, no_memory', ~no_memory
  PROVE  pc = "find" /\ Needed > SegSize
<1>1. /\ pc = "find" /\ call.tries = 2
      /\ \A c \in Free : c <= call.pp
  BY NextRun DEF NoRun
<1>2. Needed \in Nat /\ SegSize \in Nat
  BY NeededIs, LayoutAssumption DEF IInv
<1>3. PICK b \in Segments : Block(b) \subseteq Free
  BY <1>1 DEF IInv, Search
<1>4. b \in Bases /\ b \in Free /\ b \in Addresses
  BY <1>3, Blocks, InSegments DEF IInv
<1>5. call.pp # NIL /\ b <= call.pp
  BY <1>1, <1>4 DEF Addresses, NIL
<1>6. ~(b .. (b + Needed - 1) \subseteq Free)
  BY <1>1, <1>4, <1>5 DEF IInv, Search, NoRunUpTo
<1>7. ASSUME ~(Needed > SegSize) PROVE FALSE
  <2>1. b .. (b + Needed - 1) \subseteq b .. (b + SegSize - 1)
    BY <1>2, <1>4, <1>7 DEF Addresses
  <2> QED BY <1>3, <1>6, <2>1 DEF Block
<1> QED BY <1>1, <1>7

(* The cells of a new segment were not enough. *)
LEMMA TooManyReserved ==
  ASSUME IInv, Reserve, no_memory', ~no_memory
  PROVE  pc = "reserve" /\ call.n > SegSize
<1>1. pc = "reserve" /\ call.tries = 2 /\ fcells < call.n
  BY DEF Reserve
<1>2. fcells >= SegSize /\ fcells \in Nat /\ call.n \in Nat /\ SegSize \in Nat
  BY <1>1, FreeFinite, LayoutAssumption DEF IInv, Search, List, Types, Calls
<1> QED BY <1>1, <1>2

(* Only three steps of the allocator say that memory has run out. *)
LEMMA WhoGivesUp ==
  ASSUME Next, no_memory', ~no_memory
  PROVE  NoSegment \/ NoRun \/ Reserve
<1>1. CASE Allocator
  BY <1>1 DEF Allocator, TakeCell, HoldRecent, TakeSink, SkipRun, TakeRun, NoVector,
              NeedGc, StartMarking, Mark, Sweep, NewSegment, WalkOn, LinkSegment
<1>2. CASE Opcode
  BY <1>2 DEF Opcode, Cons, HoldArgs, MkVector, ReserveCells, Assign, SetField,
              fill_vector, set_vector_elem, GcPrimitive, ok_to_freely_gc
<1> QED BY <1>1, <1>2 DEF Next

(* The interpreter is told that memory has run out only when it has: no    *)
(* cell, no run of cells as long as needed anywhere in the heap, or not    *)
(* the number of cells to be reserved, with the heap at its limit, or a    *)
(* request that is larger than any segment.                                *)
THEOREM OutOfMemoryMeant == Spec => OutOfMemory
<1> DEFINE Told ==
      no_memory' /\ ~no_memory =>
        IF pc = "grow"
        THEN CASE call.back \in {"cell", "holder"} -> Free = {}
               [] call.back = "find" ->
                    \A c \in Free : ~(c .. (c + Needed - 1) \subseteq Free)
               [] call.back = "reserve" -> Cardinality(Free) < call.n
        ELSE (IF pc = "find" THEN Needed ELSE call.n) > SegSize
<1>1. ASSUME IInv, Next PROVE Told
  <2> SUFFICES ASSUME no_memory', ~no_memory PROVE Told
    OBVIOUS
  <2>1. CASE NoSegment
    <3>1. pc = "grow"
      BY <2>1 DEF NoSegment
    <3> QED BY <1>1, <2>1, <3>1, CannotGrow DEF NoRunAtAll
  <2>2. CASE NoRun
    BY <1>1, <2>2, RunTooLong
  <2>3. CASE Reserve
    BY <1>1, <2>3, TooManyReserved
  <2> QED BY <1>1, <2>1, <2>2, <2>3, WhoGivesUp
<1>2. IInv /\ [Next]_vars => [Told]_vars
  BY <1>1
<1> QED BY <1>2, IInvAlways, PTL DEF Spec, OutOfMemory

-----------------------------------------------------------------------------
(* The storage manager implements Memory                                   *)

(* The variables of Memory. *)
Pts == [c \in Cells |-> Points(c)]
InRegs == Ptr({reg[r] : r \in Regs})
InC == Ptr(locals \cup {sink_car, call.a, call.b, call.x})

LEMMA PtsType ==
  ASSUME IInv
  PROVE  /\ Pts \in [Cells -> SUBSET Cells]
         /\ InRegs \subseteq Objects /\ InC \subseteq Objects
<1>1. Used \subseteq Cells /\ \A c \in Cells \ Used : kind[c] = "free"
  BY Kinds DEF IInv
<1>2. \A c \in Cells : Points(c) \subseteq Cells
  <2>1. \A c \in Used : Points(c) \subseteq Cells
    BY <1>1, PointsUsed
  <2>2. \A c \in Cells \ Used : Points(c) = {}
    BY <1>1 DEF Points
  <2> QED BY <2>1, <2>2
<1>3. InRegs \subseteq Objects /\ InC \subseteq Objects
  BY DEF IInv, Pointers, InRegs, InC, Ptr, Values
<1> QED BY <1>2, <1>3 DEF Pts

LEMMA NearIs ==
  ASSUME IInv
  PROVE  /\ M!AtHand = InRegs \cup InC
         /\ M!AtHand \subseteq M!Near
         /\ Ptr(InReach) \subseteq M!Near
         /\ \A c \in Cells \cap M!Near : Points(c) \subseteq M!Targets(M!Near)
<1>1. M!AtHand = InRegs \cup InC
  BY DEF M!AtHand, InRegs, InC
<1>2. M!AtHand \subseteq Objects /\ Objects \subseteq Cells
  BY <1>1, PtsType DEF Objects
<1>3. ASSUME NEW S, NEW c \in Cells \cap S PROVE Points(c) \subseteq M!Targets(S)
  <2>1. [d \in Cells |-> Points(d)][c] = Points(c)
    OBVIOUS
  <2> QED BY <2>1 DEF M!Targets
<1>4. /\ M!AtHand \subseteq M!Near /\ M!Targets(M!AtHand) \subseteq M!Near
      /\ M!Targets(M!Targets(M!AtHand)) \subseteq M!Near
  BY DEF M!Near
<1>5. InHand \ {Sink} \subseteq M!AtHand
  <2>1. InHand \ {Sink} \subseteq InRegs \cup InC
    BY DEF InHand, InRegs, InC, Ptr
  <2> QED BY <1>1, <2>1
<1>6. ASSUME NEW c \in InHand PROVE Ptr(Fields(c)) \subseteq M!Near
  <2>1. CASE c = Sink
    BY <2>1 DEF Fields, Ptr
  <2>2. CASE c # Sink
    <3>1. c \in M!AtHand /\ c \in Cells /\ kind[c] \in {"pair", "vector"}
      BY <1>2, <1>5, <2>2 DEF Objects
    <3>2. Points(c) \subseteq M!Targets(M!AtHand)
      BY <1>3, <3>1
    <3>3. CASE kind[c] = "pair"
      <4>1. Ptr(Fields(c)) = Points(c)
        BY <2>2, <3>3 DEF Fields, Points
      <4> QED BY <1>4, <3>2, <4>1
    <3>4. CASE kind[c] = "vector"
      <4>1. Points(c) = Elems(c) /\ Fields(c) = UNION {{car[e], cdr[e]} : e \in Elems(c)}
        BY <2>2, <3>4 DEF Fields, Points
      <4>2. \A e \in Elems(c) : e \in Cells /\ kind[e] = "elem"
        BY <3>1, <3>4, InSegments DEF IInv, Vectors, Cells
      <4>3. ASSUME NEW e \in Elems(c) PROVE Ptr({car[e], cdr[e]}) \subseteq M!Near
        <5>1. Points(e) = Ptr({car[e], cdr[e]})
          BY <4>2 DEF Points
        <5>2. Points(e) \subseteq M!Targets(M!Targets(M!AtHand))
          BY <1>3, <3>2, <4>1, <4>2
        <5> QED BY <1>4, <5>1, <5>2
      <4> QED BY <4>1, <4>3 DEF Ptr
    <3> QED BY <3>1, <3>3, <3>4
  <2> QED BY <2>1, <2>2
<1>7. Ptr(InReach) \subseteq M!Near
  <2>1. Ptr(InHand) \subseteq M!Near
    BY <1>4, <1>5 DEF Ptr
  <2> QED BY <1>6, <2>1 DEF InReach, Ptr
<1> QED BY <1>1, <1>3, <1>4, <1>7

(* Pointers are moved between registers and C variables. *)
LEMMA MoveStep ==
  ASSUME IInv, Used' = Used, Pts' = Pts,
         reg' \in [Regs -> InReach],
         {call'.a, call'.b, call'.x} \subseteq InReach \cup {call.a, call.b, call.x},
         sink_car' \in {sink_car, Sink, NIL}, locals' \subseteq locals \cup {Sink, call.x}
  PROVE  M!Move
<1>1. InRegs \cup InC \subseteq M!Near /\ Ptr(InReach) \subseteq M!Near
  BY NearIs
<1>2. InRegs' \subseteq M!Near
  <2>1. InRegs' \subseteq Ptr(InReach)
    BY DEF InRegs, Ptr
  <2> QED BY <1>1, <2>1
<1>3. InC' \subseteq M!Near
  <2>1. InC' \subseteq Ptr(InReach) \cup InC
    BY DEF InC, Ptr
  <2> QED BY <1>1, <2>1
<1> QED BY <1>2, <1>3 DEF M!Move, InRegs, InC, Used, Pts

LEMMA UsedNext ==
  ASSUME Types', Layout'
  PROVE  Used' = {c \in Cells : kind'[c] # "free"}
<1>1. \A k \in 1..Len(cell_seg') : cell_seg'[k] \in Bases
  BY DEF Types
<1>2. Allocated' \subseteq Cells
  BY <1>1 DEF Allocated, Cells
<1> QED BY <1>2 DEF Layout, Used, Free

(* What is in use and what it points to does not change. *)
LEMMA PtsStay ==
  ASSUME IInv, UNCHANGED kind, Types', Layout',
         \A c \in Cells : kind[c] # "free" => car'[c] = car[c] /\ cdr'[c] = cdr[c]
                                              /\ len'[c] = len[c]
  PROVE  Used' = Used /\ Pts' = Pts
<1>1. \A c \in Cells : Points(c)' = Points(c)
  <2> SUFFICES ASSUME NEW c \in Cells PROVE Points(c)' = Points(c)
    OBVIOUS
  <2>1. CASE kind[c] = "free"
    BY <2>1 DEF Points
  <2>2. CASE kind[c] = "vector"
    BY <2>2 DEF Points, Elems
  <2>3. CASE kind[c] \in {"pair", "elem"}
    BY <2>3 DEF Points, Ptr
  <2> QED BY <2>1, <2>2, <2>3 DEF IInv, Types
<1>2. Used' = Used
  <2>1. Used = {c \in Cells : kind[c] # "free"}
    BY Kinds DEF IInv
  <2>2. Used' = {c \in Cells : kind'[c] # "free"}
    BY UsedNext
  <2> QED BY <2>1, <2>2
<1> QED BY <1>1, <1>2 DEF Pts

LEMMA MoveSteps ==
  ASSUME IInv, IInv',
         \/ TakeSink \/ SkipRun \/ NoRun \/ NoVector \/ Reserve \/ NeedGc \/ StartMarking
         \/ Mark \/ NewSegment \/ WalkOn \/ LinkSegment \/ NoSegment \/ GcPrimitive
         \/ ok_to_freely_gc
         \/ \E a \in InReach, b \in InReach : Cons(a, b)
         \/ \E r \in Regs : HoldArgs(r)
         \/ \E n : MkVector(n) \/ ReserveCells(n)
         \/ \E r \in Regs, v \in InReach : Assign(r, v)
  PROVE  M!Move
<1>0. NIL \in InReach /\ reg \in [Regs -> InReach] /\ call \in Calls /\ kind \in [Cells -> {"free", "pair", "vector", "elem"}]
  BY RegsInReach DEF IInv, Types
<1>1. UNCHANGED kind /\ Types' /\ Layout'
  BY DEF TakeSink, SkipRun, NoRun, NoVector, Reserve, NeedGc, StartMarking, Mark,
         NewSegment, WalkOn, LinkSegment, NoSegment, GcPrimitive, ok_to_freely_gc,
         Cons, HoldArgs, MkVector, ReserveCells, Assign, cells, IInv
<1>2. UNCHANGED <<car, len>>
  BY DEF TakeSink, SkipRun, NoRun, NoVector, Reserve, NeedGc, StartMarking, Mark,
         NewSegment, WalkOn, LinkSegment, NoSegment, GcPrimitive, ok_to_freely_gc,
         Cons, HoldArgs, MkVector, ReserveCells, Assign, cells
<1>3. \A c \in Cells : kind[c] # "free" => cdr'[c] = cdr[c]
  <2>1. CASE NewSegment
    <3>1. PICK b \in Bases \ Segments :
            \/ cdr' = [c \in Cells |-> IF c = Last(b) THEN free_cell
                                      ELSE IF c \in Block(b) THEN c + 1 ELSE cdr[c]]
            \/ cdr' = [c \in Cells |-> IF c \in Block(b) THEN c + 1 ELSE cdr[c]]
      BY <2>1 DEF NewSegment, Segments
    <3>2. Last(b) \in Block(b) /\ \A c \in Block(b) : kind[c] = "free"
      BY Blocks, NewBlock
    <3> QED BY <3>1, <3>2
  <2>2. CASE LinkSegment
    <3>1. cdr' = [cdr EXCEPT ![Last(call.seg)] = cdr[call.pp], ![call.pp] = call.seg]
      BY <2>2 DEF LinkSegment
    <3>2. call.seg \in Bases /\ Block(call.seg) \subseteq Free /\ call.pp \in Free
      BY <2>2, InSegments, ListedIn DEF LinkSegment, IInv, Linking
    <3>3. kind[Last(call.seg)] = "free" /\ kind[call.pp] = "free"
      BY <3>2, Blocks DEF Free
    <3>4. \A c \in Cells : c # Last(call.seg) /\ c # call.pp => cdr'[c] = cdr[c]
      BY <3>1 DEF IInv, Types
    <3> QED BY <3>3, <3>4
  <2>3. CASE UNCHANGED cdr
    BY <2>3
  <2> QED
    BY <2>1, <2>2, <2>3 DEF TakeSink, SkipRun, NoRun, NoVector, Reserve, NeedGc, StartMarking,
         Mark, WalkOn, NoSegment, GcPrimitive, ok_to_freely_gc,
         Cons, HoldArgs, MkVector, ReserveCells, Assign, cells
<1>4. Used' = Used /\ Pts' = Pts
  BY <1>1, <1>2, <1>3, PtsStay
<1>5. reg' \in [Regs -> InReach]
  <2>1. CASE \E r \in Regs, v \in InReach : Assign(r, v)
    BY <1>0, <2>1 DEF Assign
  <2>2. CASE UNCHANGED reg
    BY <1>0, <2>2
  <2> QED
    BY <2>1, <2>2 DEF TakeSink, SkipRun, NoRun, NoVector, Reserve, NeedGc, StartMarking, Mark,
         NewSegment, WalkOn, LinkSegment, NoSegment, GcPrimitive, ok_to_freely_gc,
         Cons, HoldArgs, MkVector, ReserveCells
<1>6. {call'.a, call'.b, call'.x} \subseteq InReach \cup {call.a, call.b, call.x}
  <2>1. CASE \E a \in InReach, b \in InReach : Cons(a, b)
    <3>1. PICK a \in InReach, b \in InReach : call' = [Idle EXCEPT !.a = a, !.b = b]
      BY <2>1 DEF Cons
    <3>2. call'.a = a /\ call'.b = b /\ call'.x = NIL
      BY <3>1, IdleIs DEF Calls
    <3> QED BY <1>0, <3>2
  <2>2. CASE \E r \in Regs : HoldArgs(r)
    <3>1. PICK r \in Regs : call' = [Idle EXCEPT !.x = reg[r], !.a = reg[r]]
      BY <2>2 DEF HoldArgs
    <3>2. call'.a = reg[r] /\ call'.b = NIL /\ call'.x = reg[r]
      BY <3>1, IdleIs DEF Calls
    <3>3. reg[r] \in InReach
      BY <1>0
    <3> QED BY <1>0, <3>2, <3>3
  <2>3. CASE \E n : MkVector(n) \/ ReserveCells(n)
    BY <1>0, <2>3, IdleIs DEF MkVector, ReserveCells, Calls
  <2>4. CASE call' = Idle
    BY <1>0, <2>4, IdleIs
  <2>5. CASE UNCHANGED call
    BY <2>5
  <2>6. CASE SkipRun
    BY <1>0, <2>6 DEF SkipRun, Calls
  <2>7. CASE NoRun
    BY ZenonT(60), <1>0, <2>7, IdleIs DEF NoRun, Calls
  <2>8. CASE Reserve
    BY ZenonT(60), <1>0, <2>8, IdleIs DEF Reserve, Calls
  <2>9. CASE NeedGc
    BY <1>0, <2>9 DEF NeedGc, Calls
  <2>10. CASE NewSegment
    <3>1. call' = call \/ \E b : call' = [call EXCEPT !.pp = free_cell, !.seg = b]
      BY <2>10 DEF NewSegment
    <3> QED BY <1>0, <3>1 DEF Calls
  <2>11. CASE WalkOn
    BY <1>0, <2>11 DEF WalkOn, Calls
  <2>12. CASE LinkSegment
    BY <1>0, <2>12 DEF LinkSegment, Calls
  <2>13. (call' = Idle) \/ (UNCHANGED call) \/ SkipRun \/ NoRun \/ Reserve \/ NeedGc
         \/ NewSegment \/ WalkOn \/ LinkSegment
         \/ (\E a \in InReach, b \in InReach : Cons(a, b)) \/ (\E r \in Regs : HoldArgs(r))
         \/ (\E n : MkVector(n) \/ ReserveCells(n))
    BY DEF TakeSink, NoVector, StartMarking, Mark, NoSegment, GcPrimitive, ok_to_freely_gc, Assign
  <2> QED BY <2>1, <2>2, <2>3, <2>4, <2>5, <2>6, <2>7, <2>8, <2>9, <2>10, <2>11, <2>12, <2>13
<1>7. sink_car' \in {sink_car, Sink, NIL}
  BY DEF TakeSink, SkipRun, NoRun, NoVector, Reserve, NeedGc, StartMarking, Mark,
         NewSegment, WalkOn, LinkSegment, NoSegment, GcPrimitive, ok_to_freely_gc,
         Cons, HoldArgs, MkVector, ReserveCells, Assign
<1>8. locals' \subseteq locals \cup {Sink, call.x}
  BY DEF TakeSink, SkipRun, NoRun, NoVector, Reserve, NeedGc, StartMarking, Mark,
         NewSegment, WalkOn, LinkSegment, NoSegment, GcPrimitive, ok_to_freely_gc,
         Cons, HoldArgs, MkVector, ReserveCells, Assign
<1> QED BY <1>4, <1>5, <1>6, <1>7, <1>8, MoveStep


(* What an opcode has is stored in cells T that it has, or in the inside   *)
(* of a vector that it has.                                                *)
LEMMA StoreInMemory ==
  ASSUME IInv, IInv', NEW T \in SUBSET Cells,
         T \subseteq M!Near \cup M!Targets(M!Near), \A c \in T : Holds(c),
         UNCHANGED <<lists, kind, len, sink_car, reg, locals, call>>,
         \A c \in Cells \ T : car'[c] = car[c] /\ cdr'[c] = cdr[c],
         \A c \in T : car'[c] \in InReach \cup {car[c]} /\ cdr'[c] \in InReach \cup {cdr[c]}
  PROVE  M!Store
<1>1. Used' = Used /\ InRegs' = InRegs /\ InC' = InC
  BY DEF Used, Free, Allocated, InRegs, InC, Ptr, lists
<1>2. Pts' \in [Cells -> SUBSET Cells]
  <2>1. \A c \in Cells : Points(c)' \subseteq Cells
    <3> SUFFICES ASSUME NEW c \in Cells PROVE Points(c)' \subseteq Cells
      OBVIOUS
    <3>1. CASE kind'[c] = "free"
      BY <3>1 DEF Points
    <3>2. CASE kind'[c] = "vector"
      <4>1. Elems(c)' = Elems(c) /\ kind[c] = "vector"
        BY <3>2 DEF Elems
      <4>2. Elems(c) \subseteq Cells
        BY <4>1, InSegments DEF IInv, Vectors, Cells
      <4> QED BY <3>2, <4>1, <4>2 DEF Points
    <3>3. CASE kind'[c] \in {"pair", "elem"}
      <4>1. {car'[c], cdr'[c]} \subseteq Cells \cup {NIL, Sink}
        BY <3>3 DEF IInv, Pointers, Holds, Values, Objects
      <4> QED BY <3>3, <4>1 DEF Points, Ptr
    <3> QED BY <3>1, <3>2, <3>3 DEF IInv, Types
  <2> QED BY <2>1 DEF Pts
<1>3. ASSUME NEW c \in Cells \ T PROVE Points(c)' = Points(c)
  BY <1>3 DEF Points, Elems, Ptr
<1>4. ASSUME NEW c \in T PROVE Points(c)' \subseteq Points(c) \cup M!Near
  <2>1. Points(c) = Ptr({car[c], cdr[c]}) /\ Points(c)' = Ptr({car'[c], cdr'[c]})
    BY <1>4 DEF Holds, Points, Ptr
  <2>2. Ptr(InReach) \subseteq M!Near
    BY NearIs
  <2> QED BY <1>4, <2>1, <2>2 DEF Ptr
<1>5. \A c \in Cells : IF c \in M!Near \cup M!Targets(M!Near)
                       THEN Pts'[c] \subseteq Pts[c] \cup M!Near
                       ELSE Pts'[c] = Pts[c]
  BY <1>3, <1>4 DEF Pts
<1>6. /\ Pts' \in [Cells -> SUBSET Cells]
      /\ UNCHANGED <<Used, InRegs, InC>>
  BY <1>1, <1>2
<1> QED BY <1>5, <1>6 DEF M!Store, Pts, Used, InRegs, InC

LEMMA StoreSteps ==
  ASSUME IInv, IInv',
         \E c, v \in InReach :
           \/ \E f : SetField(f, c, v)
           \/ fill_vector(c, v)
           \/ \E i \in Nat : set_vector_elem(c, i, v)
  PROVE  M!Store
<1>0. car \in [Cells -> Int] /\ cdr \in [Cells -> Int] /\ Ptr(InReach) \subseteq M!Near
  BY NearIs DEF IInv, Types
<1>1. ASSUME NEW c \in InReach, NEW v \in InReach, NEW f, SetField(f, c, v) PROVE M!Store
  <2>1. c \in InReach /\ c \notin {NIL, Sink} /\ kind[c] = "pair"
    BY <1>1 DEF SetField, Writable
  <2>2. c \in Cells /\ Holds(c) /\ c \in M!Near
    BY <1>0, <2>1, Reach DEF Values, Objects, Holds, Ptr
  <2>3. /\ \A d \in Cells \ {c} : car'[d] = car[d] /\ cdr'[d] = cdr[d]
        /\ \A d \in {c} : car'[d] \in InReach \cup {car[d]} /\ cdr'[d] \in InReach \cup {cdr[d]}
    BY <1>0, <1>1, <2>2 DEF SetField
  <2>4. UNCHANGED <<lists, kind, len, sink_car, reg, locals, call>>
    BY <1>1 DEF SetField
  <2>5. {c} \in SUBSET Cells /\ {c} \subseteq M!Near \cup M!Targets(M!Near) /\ \A d \in {c} : Holds(d)
    BY <2>2
  <2> QED BY <2>3, <2>4, <2>5, StoreInMemory
<1>2. ASSUME NEW c \in InReach, Writable(c, "vector")
      PROVE  /\ Elems(c) \subseteq Cells /\ (\A e \in Elems(c) : Holds(e))
             /\ Elems(c) \subseteq M!Near \cup M!Targets(M!Near)
  <2>1. c \in Cells /\ kind[c] = "vector" /\ Elems(c) \subseteq Cells
        /\ \A e \in Elems(c) : Holds(e)
    BY <1>2, ElemsHold
  <2>2. c \in M!Near
    BY <1>0, <1>2 DEF Writable, Ptr
  <2>3. Points(c) = Elems(c)
    BY <2>1 DEF Points
  <2> QED BY <2>1, <2>2, <2>3, NearIs
<1>3. ASSUME NEW c \in InReach, NEW v \in InReach, fill_vector(c, v) PROVE M!Store
  <2>1. Writable(c, "vector")
    BY <1>3 DEF fill_vector
  <2>2. Elems(c) \subseteq Cells /\ \A e \in Elems(c) : Holds(e)
    BY <1>2, <2>1
  <2>3. /\ \A d \in Cells \ Elems(c) : car'[d] = car[d] /\ cdr'[d] = cdr[d]
        /\ \A d \in Elems(c) : car'[d] \in InReach \cup {car[d]}
                               /\ cdr'[d] \in InReach \cup {cdr[d]}
    BY <1>3, <2>2 DEF fill_vector
  <2>4. UNCHANGED <<lists, kind, len, sink_car, reg, locals, call>>
    BY <1>3 DEF fill_vector
  <2>5. Elems(c) \in SUBSET Cells /\ Elems(c) \subseteq M!Near \cup M!Targets(M!Near)
    BY <1>2, <2>1
  <2> QED BY <2>2, <2>3, <2>4, <2>5, StoreInMemory
<1>4. ASSUME NEW c \in InReach, NEW v \in InReach, NEW i \in Nat, set_vector_elem(c, i, v)
      PROVE  M!Store
  <2> SUFFICES ASSUME NEW e, e = ElemCell(c, i) PROVE M!Store
    OBVIOUS
  <2>1. Writable(c, "vector") /\ i < len[c]
    BY <1>4 DEF set_vector_elem
  <2>2. e \in Elems(c)
    BY <2>1, ElemsHold, ElemCellIs
  <2>3. e \in Cells /\ Holds(e) /\ e \in M!Near \cup M!Targets(M!Near)
    BY <1>2, <2>1, <2>2
  <2>4. \/ car' = [car EXCEPT ![e] = v] /\ cdr' = cdr
        \/ cdr' = [cdr EXCEPT ![e] = v] /\ car' = car
    BY <1>4 DEF set_vector_elem
  <2>5. /\ \A d \in Cells \ {e} : car'[d] = car[d] /\ cdr'[d] = cdr[d]
        /\ \A d \in {e} : car'[d] \in InReach \cup {car[d]} /\ cdr'[d] \in InReach \cup {cdr[d]}
    BY <1>0, <2>3, <2>4
  <2>6. UNCHANGED <<lists, kind, len, sink_car, reg, locals, call>>
    BY <1>4 DEF set_vector_elem
  <2>7. {e} \in SUBSET Cells /\ {e} \subseteq M!Near \cup M!Targets(M!Near) /\ \A d \in {e} : Holds(d)
    BY <2>3
  <2> QED BY <2>5, <2>6, <2>7, StoreInMemory
<1> QED BY <1>1, <1>3, <1>4


(* Free cells are handed out. *)
LEMMA AllocInMemory ==
  ASSUME IInv, NEW X \in SUBSET Free, X # {}, Used' = Used \cup X, UNCHANGED reg,
         InC' \subseteq InC \cup X,
         \A c \in X : Points(c)' \subseteq X \cup InC,
         \A c \in Cells \ X : Points(c)' = Points(c)
  PROVE  M!Alloc(Used' \ Used)
<1>1. Free \cap Used = {} /\ Free \subseteq Cells
  BY Kinds DEF IInv
<1>2. Used' \ Used = X /\ X \subseteq Cells /\ X \cap Used = {}
  BY <1>1
<1>3. InC \subseteq Cells /\ Pts \in [Cells -> SUBSET Cells]
  BY PtsType DEF Objects
<1>4. Pts' \in [Cells -> SUBSET Cells]
  <2>1. \A c \in X : Points(c)' \subseteq Cells
    BY <1>2, <1>3
  <2>2. \A c \in Cells : Points(c) \subseteq Cells
    BY <1>3 DEF Pts
  <2>3. \A c \in Cells : Points(c)' \subseteq Cells
    BY <2>1, <2>2
  <2> QED BY <2>3 DEF Pts
<1>5. M!AtHand = InRegs \cup InC /\ UNCHANGED InRegs
  BY NearIs DEF InRegs, Ptr
<1>6. /\ \A c \in X : Pts'[c] \subseteq X \cup M!AtHand
      /\ \A c \in Cells \ X : Pts'[c] = Pts[c]
      /\ InC' \subseteq M!AtHand \cup X
  BY <1>2, <1>5 DEF Pts
<1>7. M!Alloc(X)
  BY <1>2, <1>4, <1>5, <1>6 DEF M!Alloc, Used, Pts, InRegs, InC
<1> QED BY <1>2, <1>7

LEMMA PairInMemory ==
  ASSUME IInv, IInv', pc # "link", pc' # "link", PopFree, NEW a, NEW b,
         Ptr({a, b}) \subseteq InC, a \in Values, b \in Values,
         kind' = [kind EXCEPT ![free_cell] = "pair"],
         car' = [car EXCEPT ![free_cell] = a],
         cdr' = [cdr EXCEPT ![free_cell] = b],
         UNCHANGED <<cell_seg, len, reg>>,
         InC' \subseteq InC \cup {free_cell}
  PROVE  M!Alloc(Used' \ Used)
<1> SUFFICES ASSUME NEW f, f = free_cell PROVE M!Alloc(Used' \ Used)
  OBVIOUS
<1>1. f \in Free /\ f \in Cells
  BY NewPair
<1>2. /\ \A c \in Cells \ {f} : kind'[c] = kind[c] /\ car'[c] = car[c] /\ cdr'[c] = cdr[c]
      /\ kind'[f] = "pair" /\ car'[f] = a /\ cdr'[f] = b
  BY <1>1 DEF IInv, Types
<1>3. Used' = Used \cup {f}
  <2>1. Used = {c \in Cells : kind[c] # "free"} /\ Used' = {c \in Cells : kind'[c] # "free"}
    BY Kinds, UsedNext DEF IInv
  <2> QED BY <1>1, <1>2, <2>1
<1>4. \A c \in Cells \ {f} : Points(c)' = Points(c)
  BY <1>2 DEF Points, Elems, Ptr
<1>5. Points(f)' = Ptr({a, b})
  BY <1>2 DEF Points, Ptr
<1>6. \A c \in {f} : Points(c)' \subseteq {f} \cup InC
  BY <1>5
<1>7. {f} \in SUBSET Free /\ {f} # {}
  BY <1>1
<1> QED BY <1>3, <1>4, <1>6, <1>7, AllocInMemory

LEMMA TakeCellInMemory == ASSUME IInv, IInv', TakeCell PROVE M!Alloc(Used' \ Used)
<1>1. call.a \in Values /\ call.b \in Values
  BY DEF IInv, Pointers
<1>2. Ptr({call.a, call.b}) \subseteq InC
  BY DEF InC, Ptr
<1>3. free_cell \in Int
  BY <1>1, NewPair DEF TakeCell
<1>4. InC' \subseteq InC \cup {free_cell}
  <2>1. call' = [Idle EXCEPT !.x = free_cell, !.a = free_cell]
        /\ UNCHANGED <<locals, sink_car>>
    BY DEF TakeCell
  <2>2. call'.x = free_cell /\ call'.a = free_cell /\ call'.b = NIL
    BY <2>1, IdleIs DEF Calls
  <2> QED BY <2>1, <2>2 DEF InC, Ptr
<1> QED BY <1>1, <1>2, <1>4, PairInMemory DEF TakeCell

LEMMA HoldRecentInMemory == ASSUME IInv, IInv', HoldRecent PROVE M!Alloc(Used' \ Used)
<1>1. call.x \in Values /\ sink_car \in Values
  BY DEF IInv, Pointers
<1>2. Ptr({call.x, sink_car}) \subseteq InC
  BY DEF InC, Ptr
<1>3. InC' \subseteq InC \cup {free_cell}
  <2>1. call' = Idle /\ sink_car' = free_cell /\ locals' = locals \cup ({call.x} \ {NIL})
    BY DEF HoldRecent
  <2> QED BY <2>1, IdleIs DEF InC, Ptr
<1> QED BY <1>1, <1>2, <1>3, PairInMemory DEF HoldRecent

LEMMA TakeRunInMemory == ASSUME IInv, IInv', TakeRun PROVE M!Alloc(Used' \ Used)
<1> SUFFICES ASSUME NEW x, x = At(call.pp), NEW y, y = x + Needed - 1,
                    NEW p, p = call.pp
             PROVE  M!Alloc(Used' \ Used)
  OBVIOUS
<1>0. /\ Needed = NumCells(call.n) + 1 /\ call.n \in Nat /\ NumCells(call.n) \in Nat
      /\ len \in [Cells -> Nat]
  BY NumCellsIs DEF IInv, Types, Calls, Needed
<1>1. /\ x \in Nat /\ y \in Nat /\ x <= y /\ x \in Free /\ x..y \subseteq Free
      /\ x..y \subseteq Cells
  BY RunIsFree
<1>2. /\ cdr' = [c \in Cells |-> CASE c \in x..y         -> NIL
                                   [] p # NIL /\ c = p   -> cdr[y]
                                   [] OTHER              -> cdr[c]]
      /\ kind' = [c \in Cells |-> CASE c = x              -> "vector"
                                    [] c \in (x + 1)..y   -> "elem"
                                    [] OTHER              -> kind[c]]
      /\ car' = [c \in Cells |-> IF c \in x..y THEN NIL ELSE car[c]]
      /\ len' = [len EXCEPT ![x] = call.n]
      /\ call' = [Idle EXCEPT !.x = x, !.a = x]
      /\ UNCHANGED <<cell_seg, sink_car, reg, locals>>
  BY DEF TakeRun, Unlink
<1>3. p \in Free \cup {NIL} /\ p \in Nat /\ p < x
  <2>1. pc = "find"
    BY DEF TakeRun
  <2>2. p \in Free \cup {NIL}
    BY <2>1 DEF IInv, Control
  <2>3. Free \subseteq Nat /\ NIL \in Nat
    BY <2>1, FreeThreaded DEF Addresses, NIL
  <2>4. x # NIL
    BY DEF TakeRun
  <2> QED BY <2>1, <2>2, <2>3, <2>4, NextRun
<1>4. \A c \in x..y : c \in Cells /\ kind[c] = "free" /\ c # p /\ (c # x => c \in (x + 1)..y)
  BY <1>1, <1>3 DEF Free
<1>5. \A c \in Cells \ (x..y) : c # x /\ c \notin (x + 1)..y
  BY <1>1
<1>6. \A c \in Cells \ (x..y) : kind'[c] = kind[c] /\ car'[c] = car[c] /\ len'[c] = len[c]
  BY <1>0, <1>2, <1>5
<1>7. \A c \in Cells \ (x..y) : c # p => cdr'[c] = cdr[c]
  BY <1>2
<1>8. p \in Cells => kind[p] = "free"
  BY <1>3, CellsAre DEF Free
<1>9. ASSUME NEW c \in Cells \ (x..y) PROVE Points(c)' = Points(c)
  <2>1. CASE kind[c] = "free"
    BY <1>6, <2>1 DEF Points
  <2>2. CASE kind[c] = "vector"
    BY <1>6, <2>2 DEF Points, Elems
  <2>3. CASE kind[c] \in {"pair", "elem"}
    <3>1. c # p
      BY <1>8, <2>3
    <3> QED BY <1>6, <1>7, <2>3, <3>1 DEF Points, Ptr
  <2> QED BY <2>1, <2>2, <2>3 DEF IInv, Types
<1>10. ASSUME NEW c \in x..y PROVE Points(c)' \subseteq x..y
  <2>1. CASE c = x
    <3>1. kind'[c] = "vector" /\ len'[c] = call.n
      BY <1>0, <1>1, <1>2, <1>4, <2>1
    <3>2. Points(c)' = {x + j : j \in 1..NumCells(call.n)}
      BY <2>1, <3>1 DEF Points, Elems
    <3> QED BY <1>0, <1>1, <3>2
  <2>2. CASE c # x
    <3>1. kind'[c] = "elem"
      BY <1>2, <1>4, <2>2
    <3>2. car'[c] = NIL /\ cdr'[c] = NIL
      BY <1>2, <1>4
    <3> QED BY <3>1, <3>2 DEF Points, Ptr
  <2> QED BY <2>1, <2>2
<1>11. Used' = Used \cup (x..y)
  <2>1. Used = {c \in Cells : kind[c] # "free"} /\ Used' = {c \in Cells : kind'[c] # "free"}
    BY Kinds, UsedNext DEF IInv
  <2>2. \A c \in x..y : kind'[c] # "free"
    BY <1>2, <1>4
  <2> QED BY <1>4, <1>6, <2>1, <2>2
<1>12. InC' \subseteq InC \cup (x..y)
  <2>1. call'.a = x /\ call'.b = NIL /\ call'.x = x
    BY <1>1, <1>2, IdleIs DEF Calls
  <2>2. x \in x..y
    BY <1>1
  <2> QED BY <1>2, <2>1, <2>2 DEF InC, Ptr
<1>13. x..y \in SUBSET Free /\ x..y # {}
  BY <1>1
<1> QED BY <1>2, <1>9, <1>10, <1>11, <1>12, <1>13, AllocInMemory

(* A collection keeps what is marked. *)
LEMMA SweepInMemory == ASSUME IInv, IInv', Sweep PROVE M!Collect(Used')
<1> SUFFICES ASSUME NEW F, F = Allocated \ marked PROVE M!Collect(Used')
  OBVIOUS
<1>1. /\ pc = "mark" /\ \A c \in marked : Points(c) \subseteq marked
      /\ cdr' = [c \in Cells |-> IF c \in F THEN NextInSweep(c, F) ELSE cdr[c]]
      /\ car' = [c \in Cells |-> IF c \in F THEN NIL ELSE car[c]]
      /\ len' = [c \in Cells |-> IF c \in F THEN 0 ELSE len[c]]
      /\ kind' = [c \in Cells |-> IF c \in F THEN "free" ELSE kind[c]]
      /\ UNCHANGED <<cell_seg, sink_car, reg, locals, call>>
  BY DEF Sweep
<1>2. /\ marked \subseteq Used
      /\ \A r \in Regs : Ptr({reg[r]}) \subseteq marked
      /\ Ptr(locals) \subseteq marked
      /\ Ptr({sink_car, call.a, call.b, call.x}) \subseteq marked
  BY <1>1, AllMarked
<1>3. /\ Used = {c \in Cells : kind[c] # "free"} /\ Used' = {c \in Cells : kind'[c] # "free"}
      /\ Used \subseteq Allocated
  BY Kinds, UsedNext DEF IInv
<1>4. Used' = marked
  <2>1. \A c \in marked : c \in Cells /\ kind'[c] = kind[c] /\ kind[c] # "free"
    BY <1>1, <1>2, <1>3
  <2>2. \A c \in Cells \ marked : kind'[c] = "free"
    BY <1>1, <1>3
  <2> QED BY <1>3, <2>1, <2>2
<1>5. \A c \in Cells : Points(c)' = IF c \in marked THEN Points(c) ELSE {}
  <2>1. \A c \in Cells \cap marked : Points(c)' = Points(c)
    BY <1>1 DEF Points, Elems, Ptr
  <2>2. \A c \in Cells \ marked : Points(c)' = {}
    BY <1>3, <1>4 DEF Points
  <2> QED BY <2>1, <2>2
<1>6. InRegs \cup InC \subseteq marked
  <2>1. InRegs \subseteq marked
    BY <1>2 DEF InRegs, Ptr
  <2>2. InC \subseteq marked
    BY <1>2 DEF InC, Ptr
  <2> QED BY <2>1, <2>2
<1>7. UNCHANGED <<InRegs, InC>>
  BY <1>1 DEF InRegs, InC, Ptr
<1>8. M!AtHand \subseteq marked
  BY <1>6, NearIs
<1>9. M!ClosedUnder(marked, Pts)
  <2>1. marked \subseteq Cells
    BY <1>2, <1>3
  <2> QED BY <1>1, <2>1 DEF M!ClosedUnder, Pts
<1>10. Pts' = [c \in Cells |-> IF c \in Used' THEN Pts[c] ELSE {}]
  BY <1>4, <1>5 DEF Pts
<1>11. /\ Used' \subseteq Used /\ M!AtHand \subseteq Used' /\ M!ClosedUnder(Used', Pts)
       /\ UNCHANGED <<InRegs, InC>>
  BY <1>2, <1>4, <1>7, <1>8, <1>9
<1> QED BY <1>10, <1>11 DEF M!Collect, Used, Pts, InRegs, InC


LEMMA InitInMemory == Init => M!MemInit
<1> SUFFICES ASSUME Init PROVE M!MemInit
  OBVIOUS
<1>1. /\ kind = [c \in Cells |-> "free"] /\ sink_car = NIL /\ locals = {}
      /\ reg = [r \in Regs |-> NIL] /\ call = Idle
  BY DEF Init
<1>2. Used = {}
  <2>1. Allocated \subseteq Cells
    BY InitIInv, InSegments DEF IInv
  <2> QED BY <1>1, <2>1 DEF Used, Free
<1>3. InRegs = {} /\ InC = {}
  BY <1>1, IdleIs DEF InRegs, InC, Ptr
<1>4. Pts = [c \in Cells |-> {}]
  BY <1>1 DEF Pts, Points
<1> QED BY <1>2, <1>3, <1>4 DEF M!MemInit, Used, InRegs, InC, Pts

(* Every step of the storage manager is a step of Memory or leaves it be.  *)
LEMMA StepInMemory ==
  ASSUME IInv, IInv', [Next]_vars
  PROVE  [M!MemNext]_M!mvars
<1>1. M!Move \/ M!Store \/ M!Alloc(Used' \ Used) \/ M!Collect(Used') => M!MemNext
  BY DEF M!MemNext, Used
<1>2. CASE Allocator
  <2>1. CASE TakeCell \/ HoldRecent \/ TakeRun
    BY <1>1, <2>1, TakeCellInMemory, HoldRecentInMemory, TakeRunInMemory
  <2>2. CASE Sweep
    BY <1>1, <2>2, SweepInMemory
  <2>3. CASE \/ TakeSink \/ SkipRun \/ NoRun \/ NoVector \/ Reserve \/ NeedGc \/ StartMarking
             \/ Mark \/ NewSegment \/ WalkOn \/ LinkSegment \/ NoSegment
    BY <1>1, <2>3, MoveSteps
  <2> QED BY <1>2, <2>1, <2>2, <2>3 DEF Allocator
<1>3. CASE Opcode
  <2>1. ASSUME NEW a, NEW b, Cons(a, b) PROVE M!MemNext
    <3>1. a \in InReach /\ b \in InReach
      BY <2>1 DEF Cons
    <3> QED BY <1>1, <2>1, <3>1, MoveSteps
  <2>2. ASSUME NEW r \in Regs, HoldArgs(r) PROVE M!MemNext
    BY <1>1, <2>2, MoveSteps
  <2>3. ASSUME NEW n, MkVector(n) \/ ReserveCells(n) PROVE M!MemNext
    BY <1>1, <2>3, MoveSteps
  <2>4. ASSUME NEW r \in Regs, NEW v \in InReach, Assign(r, v) PROVE M!MemNext
    BY <1>1, <2>4, MoveSteps
  <2>5. ASSUME NEW c \in InReach, NEW v \in InReach, NEW f, SetField(f, c, v) PROVE M!MemNext
    BY <1>1, <2>5, StoreSteps
  <2>6. ASSUME NEW c \in InReach, NEW v \in InReach, fill_vector(c, v) PROVE M!MemNext
    BY <1>1, <2>6, StoreSteps
  <2>7. ASSUME NEW c \in InReach, NEW v \in InReach, NEW i \in 0 .. (2 * SegSize),
               set_vector_elem(c, i, v)
        PROVE M!MemNext
    BY <1>1, <2>7, StoreSteps
  <2>8. CASE GcPrimitive \/ ok_to_freely_gc
    BY <1>1, <2>8, MoveSteps
  <2> QED BY <1>3, <2>1, <2>2, <2>3, <2>4, <2>5, <2>6, <2>7, <2>8 DEF Opcode
<1>4. CASE UNCHANGED vars
  <2>1. UNCHANGED <<cell_seg, kind, car, cdr, len, sink_car, reg, locals, call>>
    BY <1>4 DEF vars
  <2>2. UNCHANGED <<Used, Pts, InRegs, InC>>
    BY <2>1 DEF Used, Free, Allocated, Pts, Points, Elems, Ptr, InRegs, InC
  <2> QED BY <2>2 DEF M!mvars, Used, Pts, InRegs, InC
<1> QED BY <1>2, <1>3, <1>4 DEF Next

(* The storage manager does what Memory promises: a step of get_cell, of   *)
(* the search for a run of cells, of the collector, of alloc_cellseg or of *)
(* an opcode hands out free cells, takes cells back that cannot be         *)
(* reached, moves or stores pointers that the program has, or changes      *)
(* nothing that the program can see.                                       *)
THEOREM MemoryImplemented == Spec => ImplementsMemory
<1>1. IInv /\ IInv' /\ [Next]_vars => [M!MemNext]_M!mvars
  BY StepInMemory
<1> QED BY <1>1, InitInMemory, IInvAlways, PTL DEF Spec, ImplementsMemory, M!MemSpec
-----------------------------------------------------------------------------

(* What Memory is good for                                                 *)

Sound == InRegs \cup InC \subseteq Used /\ \A c \in Used : Pts[c] \subseteq Used

LEMMA MemorySound ==
  M!MemTypeOK /\ M!Sound <=>
    /\ Used \in SUBSET Cells /\ Pts \in [Cells -> SUBSET Cells]
    /\ InRegs \in SUBSET Cells /\ InC \in SUBSET Cells
    /\ Sound
BY DEF M!MemTypeOK, M!Sound, M!AtHand, M!ClosedUnder, Sound, Used, Pts, InRegs, InC

(* Everything near what is at hand is in use. *)
LEMMA NearUsed ==
  ASSUME M!MemTypeOK, M!Sound
  PROVE  M!Near \subseteq Used /\ M!Targets(M!Near) \subseteq Used
<1>1. Used \in SUBSET Cells /\ Sound /\ M!AtHand = InRegs \cup InC
  BY MemorySound DEF M!AtHand, InRegs, InC
<1>2. ASSUME NEW S \in SUBSET Used PROVE M!Targets(S) \subseteq Used
  <2>1. M!Targets(S) = UNION {Pts[c] : c \in S}
    BY DEF M!Targets, Pts
  <2> QED BY <1>1, <2>1 DEF Sound
<1>3. M!Targets(M!AtHand) \subseteq Used /\ M!Targets(M!Targets(M!AtHand)) \subseteq Used
  BY <1>1, <1>2 DEF Sound
<1>4. M!Near \subseteq Used
  BY <1>1, <1>3 DEF M!Near, Sound
<1> QED BY <1>2, <1>4

LEMMA StepSound ==
  ASSUME M!MemTypeOK, M!Sound, [M!MemNext]_M!mvars
  PROVE  M!MemTypeOK' /\ M!Sound'
<1> SUFFICES /\ Used' \in SUBSET Cells /\ Pts' \in [Cells -> SUBSET Cells]
             /\ InRegs' \in SUBSET Cells /\ InC' \in SUBSET Cells
             /\ Sound'
  BY DEF M!MemTypeOK, M!Sound, M!AtHand, M!ClosedUnder, Sound, Used, Pts, InRegs, InC
<1>0. /\ Used \in SUBSET Cells /\ Pts \in [Cells -> SUBSET Cells]
      /\ InRegs \in SUBSET Cells /\ InC \in SUBSET Cells
      /\ InRegs \cup InC \subseteq Used /\ \A c \in Used : Pts[c] \subseteq Used
      /\ M!AtHand = InRegs \cup InC
  BY MemorySound DEF M!AtHand, InRegs, InC, Sound
<1>1. M!Near \subseteq Used /\ M!Targets(M!Near) \subseteq Used
  BY NearUsed
<1>2. CASE M!Alloc(Used' \ Used)
  <2> SUFFICES ASSUME NEW X, X = Used' \ Used
               PROVE  /\ Used' \in SUBSET Cells /\ Pts' \in [Cells -> SUBSET Cells]
                      /\ InRegs' \in SUBSET Cells /\ InC' \in SUBSET Cells
                      /\ Sound'
    OBVIOUS
  <2>1. /\ X \subseteq Cells /\ Used' = Used \cup X
        /\ InC' \subseteq InRegs \cup InC \cup X
        /\ \A c \in X : Pts'[c] \subseteq X \cup InRegs \cup InC
        /\ \A c \in Cells \ X : Pts'[c] = Pts[c]
        /\ Pts' \in [Cells -> SUBSET Cells]
        /\ InRegs' = InRegs
    BY <1>0, <1>2 DEF M!Alloc, Used, Pts, InRegs, InC
  <2>2. /\ Used' \in SUBSET Cells /\ InRegs' \in SUBSET Cells /\ InC' \in SUBSET Cells
    BY <1>0, <2>1
  <2>3. InRegs' \cup InC' \subseteq Used'
    BY <1>0, <2>1
  <2>4. \A c \in Used' : Pts'[c] \subseteq Used'
    BY <1>0, <2>1
  <2> QED BY <2>1, <2>2, <2>3, <2>4 DEF Sound
<1>3. CASE M!Collect(Used')
  <2>1. /\ Used' \subseteq Used /\ InRegs \cup InC \subseteq Used'
        /\ \A c \in Used' : Pts[c] \subseteq Used'
        /\ Pts' = [c \in Cells |-> IF c \in Used' THEN Pts[c] ELSE {}]
        /\ InRegs' = InRegs /\ InC' = InC
    BY <1>0, <1>3 DEF M!Collect, M!ClosedUnder, Used, Pts, InRegs, InC
  <2>2. Pts' \in [Cells -> SUBSET Cells]
    BY <1>0, <2>1
  <2>3. \A c \in Used' : Pts'[c] \subseteq Used'
    BY <1>0, <2>1
  <2> QED BY <1>0, <2>1, <2>2, <2>3 DEF Sound
<1>4. CASE M!Move
  <2>1. InRegs' \subseteq M!Near /\ InC' \subseteq M!Near /\ Used' = Used /\ Pts' = Pts
    BY <1>4 DEF M!Move, Used, Pts, InRegs, InC
  <2> QED BY <1>0, <1>1, <2>1 DEF Sound
<1>5. CASE M!Store
  <2>1. /\ Pts' \in [Cells -> SUBSET Cells]
        /\ \A c \in Cells : IF c \in M!Near \cup M!Targets(M!Near)
                            THEN Pts'[c] \subseteq Pts[c] \cup M!Near
                            ELSE Pts'[c] = Pts[c]
        /\ Used' = Used /\ InRegs' = InRegs /\ InC' = InC
    BY <1>5 DEF M!Store, Used, Pts, InRegs, InC
  <2>2. \A c \in Used : Pts'[c] \subseteq Used
    BY <1>0, <1>1, <2>1
  <2> QED BY <1>0, <2>1, <2>2 DEF Sound
<1>6. CASE UNCHANGED M!mvars
  <2>1. UNCHANGED <<Used, Pts, InRegs, InC>>
    BY <1>6 DEF M!mvars, Used, Pts, InRegs, InC
  <2> QED BY <1>0, <2>1 DEF Sound
<1> QED BY <1>2, <1>3, <1>4, <1>5, <1>6 DEF M!MemNext, Used

(* Whoever does what Memory promises keeps the store sound: what registers *)
(* and C variables point to is in use, and so is everything a used cell    *)
(* points to.                                                              *)
THEOREM SoundAlways == M!MemSpec => [](M!MemTypeOK /\ M!Sound)
<1>1. M!MemInit => M!MemTypeOK /\ M!Sound
  BY DEF M!MemInit, M!MemTypeOK, M!Sound, M!AtHand, M!ClosedUnder
<1>2. M!MemTypeOK /\ M!Sound /\ [M!MemNext]_M!mvars => M!MemTypeOK' /\ M!Sound'
  BY StepSound
<1> QED BY <1>1, <1>2, PTL DEF M!MemSpec

LEMMA SoundReaches == M!MemTypeOK /\ M!Sound => M!NothingDangles
<1> SUFFICES ASSUME M!MemTypeOK, M!Sound, NEW c \in M!AccessibleCells PROVE c \in Allocated \ Free
  BY DEF M!NothingDangles
<1>1. /\ Allocated \ Free \in SUBSET Cells /\ M!AtHand \subseteq Allocated \ Free
      /\ M!ClosedUnder(Allocated \ Free, [d \in Cells |-> Points(d)])
  BY DEF M!MemTypeOK, M!Sound
<1> QED BY <1>1 DEF M!AccessibleCells

(* No cell that can be reached from a register or a C variable, through    *)
(* any number of pointers, is ever free, whatever the program does and     *)
(* whenever the collector runs.                                            *)
THEOREM NothingDanglesEver == Spec => []M!NothingDangles
BY MemoryImplemented, SoundAlways, SoundReaches, PTL DEF ImplementsMemory

(* No step but a store of the program changes what a cell that can be      *)
(* reached holds: the program never sees the storage manager at work, and  *)
(* an allocation hands out no cell that the program can reach.             *)
THEOREM ContentsKept ==
  Spec => [][\A c \in M!AccessibleCells : Points(c)' = Points(c) \/ M!Store]_vars
<1>1. ASSUME IInv, IInv', M!MemTypeOK, M!Sound, Next
      PROVE  \A c \in M!AccessibleCells : Points(c)' = Points(c) \/ M!Store
  <2> SUFFICES ASSUME NEW c \in M!AccessibleCells, ~M!Store PROVE Points(c)' = Points(c)
    OBVIOUS
  <2>1. c \in Cells /\ c \in Used
    <3>1. c \in Cells
      BY DEF M!AccessibleCells
    <3>2. c \in Allocated \ Free
      BY <1>1, SoundReaches DEF M!NothingDangles
    <3> QED BY <3>1, <3>2 DEF Used
  <2>2. Pts[c] = Points(c) /\ Pts'[c] = Points(c)'
    BY <2>1 DEF Pts
  <2>3. CASE M!Alloc(Used' \ Used)
    <3>1. c \in Cells \ (Used' \ Used)
      BY <2>1
    <3>2. Pts'[c] = Pts[c]
      BY <2>3, <3>1 DEF M!Alloc, Pts
    <3> QED BY <2>2, <3>2
  <2>4. CASE M!Collect(Used')
    <3>1. c \in Used'
      <4>1. Used' \subseteq Cells /\ M!AtHand \subseteq Used'
            /\ M!ClosedUnder(Used', [d \in Cells |-> Points(d)])
        BY <1>1, <2>4, MemorySound DEF M!Collect, Used
      <4> HIDE DEF Used
      <4> QED BY <4>1 DEF M!AccessibleCells
    <3>2. Pts' = [d \in Cells |-> IF d \in Used' THEN Pts[d] ELSE {}]
      BY <2>4 DEF M!Collect, Pts
    <3> QED BY <2>1, <2>2, <3>1, <3>2
  <2>5. CASE M!Move \/ UNCHANGED M!mvars
    <3>1. Pts' = Pts
      BY <2>5 DEF M!Move, M!mvars, Pts
    <3> QED BY <2>2, <3>1
  <2>6. [M!MemNext]_M!mvars
    BY <1>1, StepInMemory
  <2> QED BY <2>3, <2>4, <2>5, <2>6 DEF M!MemNext, Used
<1> DEFINE A == \A c \in M!AccessibleCells : Points(c)' = Points(c) \/ M!Store
<1>2. IInv /\ IInv' /\ (M!MemTypeOK /\ M!Sound) /\ [Next]_vars => [A]_vars
  BY <1>1
<1> QED BY <1>2, IInvAlways, MemoryImplemented, SoundAlways, PTL DEF Spec, ImplementsMemory
=============================================================================
