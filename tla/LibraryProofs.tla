--------------------------- MODULE LibraryProofs ----------------------------
(***************************************************************************)
(* Proofs about dynamic-wind and its call/cc in the library, src/init.scm  *)
(* (DynamicWind): wherever the program runs, the active windings are those *)
(* of the thunks around it.  And about the built-in procedures on lists    *)
(* (Primitives): what they write into, which arguments they are given, and *)
(* what they return.                                                       *)
(***************************************************************************)
EXTENDS DynamicWind, Primitives, FiniteSetTheorems, SequenceTheorems,
        WellFoundedInduction, TLAPS

----------------------------------------------------------------------------
(* Least and greatest elements.                                            *)

LEMMA HasLeast ==
  ASSUME NEW S \in SUBSET Nat, S # {}
  PROVE  \E m \in S : \A x \in S : m <= x
<1>1. PICK m \in S : \A y \in S : ~(<<y, m>> \in OpToRel(<, Nat))
  BY NatLessThanWellFounded, WFMin
<1>2. \A y \in S : ~(y < m)
  BY <1>1 DEF OpToRel
<1> QED BY <1>2

LEMMA HasGreatest ==
  ASSUME NEW n \in Nat, NEW S \in SUBSET (0..n), S # {}
  PROVE  \E m \in S : \A x \in S : x <= m
<1> DEFINE Back == {k \in Nat : n - k \in S}
<1>1. Back # {}
  <2>1. PICK x \in S : TRUE
    OBVIOUS
  <2>2. n - x \in Back
    BY <2>1
  <2> QED BY <2>2
<1>2. PICK k \in Back : \A j \in Back : k <= j
  BY <1>1, HasLeast
<1>3. \A x \in S : n - x \in Back
  OBVIOUS
<1> QED BY <1>2, <1>3

(* What holds of x and of the next number of each up to y holds up to y.   *)
LEMMA Upwards ==
  ASSUME NEW x \in Nat, NEW y \in Nat, NEW S,
         x \in S, \A c \in x..y : c \in S /\ c < y => c + 1 \in S
  PROVE  \A c \in x..y : c \in S
<1> DEFINE B == {c \in x..y : c \notin S}
<1> SUFFICES ASSUME B # {} PROVE FALSE
  OBVIOUS
<1>1. B \in SUBSET Nat
  OBVIOUS
<1> HIDE DEF B
<1>2. PICK m \in B : \A c \in B : m <= c
  BY <1>1, HasLeast
<1> USE DEF B
<1>3. m \in x..y /\ m \notin S /\ m # x
  BY <1>2
<1>4. m - 1 \in x..y /\ m - 1 < y /\ (m - 1) + 1 = m
  BY <1>3
<1>5. m - 1 \in S
  <2> SUFFICES ASSUME m - 1 \notin S PROVE FALSE
    OBVIOUS
  <2>1. m - 1 \in B
    BY <1>4
  <2>2. m <= m - 1
    BY <1>2, <2>1
  <2> QED
    BY <1>3, <2>2
<1> QED
  BY <1>3, <1>4, <1>5

----------------------------------------------------------------------------
(* dynamic-wind: the inductive invariant.                                  *)

Cell == [id : Nat, w : Nat]
Ats == {"before", "after", "thunk", "result", "pop", "push", "enter", "jump"}
FrameType == [at : Ats, w : Nat, ws : Seq(Cell), shared : Seq(Cell)]
Continuation == [stack : Seq(FrameType), ws : Seq(Cell), base : Seq(Nat)]

(* Every winding of a list was activated where those behind it were active *)
(* (o stands for outer, c for conts, b for base, v for a list of windings).*)
Proper(l, o) ==
  \A k \in 1..Len(l) : /\ l[k].w \in 1..Len(o)
                       /\ o[l[k].w] = Windings(SubSeq(l, k + 1, Len(l)))

(* What a frame is about exists.                                           *)
Named(f, o, c) ==
  /\ f.at \in {"before", "after", "thunk", "result", "enter"} => f.w \in 1..Len(o)
  /\ f.at = "jump" => f.w \in 1..Len(c)
  /\ f.at = "push" => /\ Proper(f.ws, o)
                      /\ \E n \in 0..Len(f.ws) : f.shared = list_tail(f.ws, n)

(* The windings v are those that f, or the frame at j, finds active when   *)
(* control comes back to it; pop-many takes any.                           *)
Suits(f, v, o, c) ==
  /\ f.at \in {"result", "thunk"} => v = <<f.w>> \o o[f.w]
  /\ f.at \in {"before", "after", "enter"} => v = o[f.w]
  /\ f.at = "push" => v = Windings(f.shared)
  /\ f.at = "jump" => v = Windings(c[f.w].ws)
SuitsAt(s, j, v, o, c, b) == IF j > Len(s) THEN v = b ELSE Suits(s[j], v, o, c)

(* The windings that f leaves active for the frame behind it.              *)
Leaves(f, o) ==
  CASE f.at \in {"before", "enter"} -> <<f.w>> \o o[f.w]
    [] f.at = "push" -> Windings(f.ws)
    [] f.at = "pop" -> Windings(f.shared)
    [] OTHER -> o[f.w]

(* A jump waits behind whatever works on its behalf.                       *)
OnItsWay(s, j) ==
  \/ s[j].at \in {"push", "pop", "enter"}
  \/ /\ s[j].at = "before"
     /\ ~(j < Len(s) /\ s[j + 1].at = "thunk" /\ s[j + 1].w = s[j].w)

(* dynamic-wind waits to call its thunk only behind its before thunk.      *)
ThunkNext(s, j) ==
  j < Len(s) /\ s[j + 1].at = "thunk" => s[j].at = "before" /\ s[j].w = s[j + 1].w

Sound(s, o, c, b) ==
  \A j \in 1..Len(s) :
    /\ Named(s[j], o, c) /\ ThunkNext(s, j)
    /\ s[j].at # "jump" => SuitsAt(s, j + 1, Leaves(s[j], o), o, c, b)
    /\ OnItsWay(s, j) => \E i \in (j + 1)..Len(s) : s[i].at = "jump"
Fits(s, v, o, c, b) == SuitsAt(s, 1, v, o, c, b) /\ Sound(s, o, c, b)

(* What the program may be called by.                                      *)
Runs(s) == s = <<>> \/ s[1].at \in {"before", "result", "after"}

WindTypes ==
  /\ active \in Seq(Cell) /\ stack \in Seq(FrameType) /\ pc \in {"run", "back"}
  /\ conts \in Seq(Continuation) /\ winds \in Nat
  /\ outer \in Seq(Seq(Nat)) /\ Len(outer) = winds
  /\ base \in Seq(Nat) /\ conses \in Seq(Nat)

WindInv ==
  /\ WindTypes
  /\ Proper(active, outer)
  /\ Fits(stack, Windings(active), outer, conts, base)
  /\ pc = "run" => Runs(stack)
  /\ \A k \in 1..Len(conts) :
       /\ Proper(conts[k].ws, outer)
       /\ Fits(conts[k].stack, Windings(conts[k].ws), outer, conts, conts[k].base)
       /\ Runs(conts[k].stack)

----------------------------------------------------------------------------
(* Lists.                                                                  *)

LEMMA Cons ==
  ASSUME NEW S, NEW e \in S, NEW s \in Seq(S)
  PROVE  /\ <<e>> \o s \in Seq(S) /\ Len(<<e>> \o s) = Len(s) + 1 /\ Len(s) \in Nat
         /\ (<<e>> \o s)[1] = e /\ <<e>> \o s # <<>>
         /\ \A j \in 1..Len(s) : (<<e>> \o s)[j + 1] = s[j]
         /\ \A j \in 2..(Len(s) + 1) : (<<e>> \o s)[j] = s[j - 1]
<1>1. <<e>> \in Seq(S) /\ Len(<<e>>) = 1 /\ <<e>>[1] = e /\ Len(s) \in Nat
  OBVIOUS
<1>2. /\ <<e>> \o s \in Seq(S) /\ Len(<<e>> \o s) = 1 + Len(s)
      /\ \A i \in 1..(1 + Len(s)) : (<<e>> \o s)[i] = IF i <= 1 THEN <<e>>[i] ELSE s[i - 1]
  BY <1>1, ConcatProperties
<1>3. \A j \in 2..(Len(s) + 1) : (<<e>> \o s)[j] = s[j - 1]
  BY <1>1, <1>2
<1>4. \A j \in 1..Len(s) : (<<e>> \o s)[j + 1] = s[j]
  <2> TAKE j \in 1..Len(s)
  <2>1. j + 1 \in 2..(Len(s) + 1) /\ (j + 1) - 1 = j
    BY <1>1
  <2> QED
    BY <1>3, <2>1
<1>5. (<<e>> \o s)[1] = e
  BY <1>1, <1>2
<1>6. <<e>> \o s # <<>>
  BY <1>1, <1>2
<1> QED
  BY <1>1, <1>2, <1>3, <1>4, <1>5, <1>6

LEMMA Rest ==
  ASSUME NEW S, NEW s \in Seq(S), s # <<>>
  PROVE  /\ Tail(s) \in Seq(S) /\ Len(s) \in Nat \ {0} /\ Len(Tail(s)) = Len(s) - 1
         /\ s[1] \in S
         /\ \A j \in 1..(Len(s) - 1) : Tail(s)[j] = s[j + 1]
         /\ s = <<s[1]>> \o Tail(s)
<1>1. Tail(s) \in Seq(S) /\ Len(s) \in Nat \ {0} /\ Len(Tail(s)) = Len(s) - 1 /\ s[1] \in S
  BY HeadTailProperties
<1>2. \A j \in 1..(Len(s) - 1) : Tail(s)[j] = s[j + 1]
  BY <1>1, HeadTailProperties
<1>3. s = <<s[1]>> \o Tail(s)
  <2> DEFINE r == Tail(s)
             u == <<s[1]>> \o r
  <2>1. /\ u \in Seq(S) /\ Len(u) = Len(r) + 1 /\ u[1] = s[1]
        /\ \A j \in 2..(Len(r) + 1) : u[j] = r[j - 1]
    <3> HIDE DEF r
    <3>1. r \in Seq(S)
      BY <1>1 DEF r
    <3> QED
      BY <1>1, <3>1, Cons
  <2>2. \A i \in 1..Len(s) : s[i] = u[i]
    <3> TAKE i \in 1..Len(s)
    <3>1. CASE i = 1
      BY <2>1, <3>1
    <3>2. CASE i # 1
      <4>1. i - 1 \in 1..(Len(s) - 1) /\ i \in 2..(Len(r) + 1) /\ (i - 1) + 1 = i
        BY <1>1, <3>2
      <4>2. u[i] = r[i - 1]
        BY <2>1, <4>1
      <4>3. r[i - 1] = s[i]
        BY <1>2, <4>1
      <4> QED
        BY <4>2, <4>3
    <3> QED
      BY <3>1, <3>2
  <2>3. Len(u) = Len(s)
    BY <1>1, <2>1
  <2> HIDE DEF u
  <2>4. s = u
    BY <2>1, <2>2, <2>3, SeqEqual
  <2> QED
    BY <2>4 DEF u
<1> QED
  BY <1>1, <1>2, <1>3

(* What n - 1 elements of s were dropped from.                             *)
LEMMA Slice ==
  ASSUME NEW S, NEW s \in Seq(S), NEW m \in 1..(Len(s) + 1)
  PROVE  /\ SubSeq(s, m, Len(s)) \in Seq(S)
         /\ Len(SubSeq(s, m, Len(s))) = Len(s) - m + 1
         /\ \A i \in 1..(Len(s) - m + 1) : SubSeq(s, m, Len(s))[i] = s[m + i - 1]
<1>1. Len(s) \in Nat /\ m \in Int /\ Len(s) \in Int
  OBVIOUS
<1>2. \A i \in m..Len(s) : s[i] \in S
  BY <1>1, ElementOfSeq
<1> DEFINE l == Len(s)
<1> HIDE DEF l
<1>3. /\ SubSeq(s, m, l) \in Seq(S)
      /\ Len(SubSeq(s, m, l)) = IF m <= l THEN l - m + 1 ELSE 0
      /\ \A i \in 1..(l - m + 1) : SubSeq(s, m, l)[i] = s[m + i - 1]
  <2>1. m \in Int /\ l \in Int /\ \A i \in m..l : s[i] \in S
    BY <1>1, <1>2 DEF l
  <2> QED
    BY <2>1, SubSeqProperties
<1> QED
  BY <1>1, <1>3 DEF l

LEMMA WindingsFacts ==
  ASSUME NEW l \in Seq(Cell)
  PROVE  /\ Windings(l) \in Seq(Nat) /\ Len(Windings(l)) = Len(l) /\ Len(l) \in Nat
         /\ \A k \in 1..Len(l) : Windings(l)[k] = l[k].w /\ l[k].w \in Nat
<1>1. Len(l) \in Nat /\ \A k \in 1..Len(l) : l[k] \in Cell
  BY ElementOfSeq
<1>2. \A k \in 1..Len(l) : l[k].w \in Nat
  BY <1>1 DEF Cell
<1> QED
  BY <1>1, <1>2 DEF Windings

LEMMA WindingsCons ==
  ASSUME NEW c \in Cell, NEW l \in Seq(Cell)
  PROVE  Windings(<<c>> \o l) = <<c.w>> \o Windings(l)
<1> DEFINE x == Windings(<<c>> \o l)
           y == <<c.w>> \o Windings(l)
<1>1. c.w \in Nat
  BY DEF Cell
<1>2. /\ x \in Seq(Nat) /\ Len(x) = Len(l) + 1 /\ Len(l) \in Nat
      /\ x[1] = c.w
      /\ \A k \in 2..(Len(l) + 1) : x[k] = l[k - 1].w
  <2> DEFINE z == <<c>> \o l
  <2>1. /\ z \in Seq(Cell) /\ Len(z) = Len(l) + 1 /\ Len(l) \in Nat
        /\ z[1] = c /\ \A k \in 2..(Len(l) + 1) : z[k] = l[k - 1]
    BY Cons
  <2> HIDE DEF z
  <2>2. /\ Windings(z) \in Seq(Nat) /\ Len(Windings(z)) = Len(z)
        /\ \A k \in 1..Len(z) : Windings(z)[k] = z[k].w
    BY <2>1, WindingsFacts
  <2> QED
    BY <2>1, <2>2 DEF z
<1>3. /\ y \in Seq(Nat) /\ Len(y) = Len(l) + 1
      /\ y[1] = c.w
      /\ \A k \in 2..(Len(l) + 1) : y[k] = l[k - 1].w
  <2> DEFINE z == Windings(l)
  <2>1. z \in Seq(Nat) /\ Len(z) = Len(l) /\ \A k \in 1..Len(l) : z[k] = l[k].w
    BY WindingsFacts
  <2> HIDE DEF z
  <2>2. /\ <<c.w>> \o z \in Seq(Nat) /\ Len(<<c.w>> \o z) = Len(l) + 1
        /\ (<<c.w>> \o z)[1] = c.w
        /\ \A k \in 2..(Len(l) + 1) : (<<c.w>> \o z)[k] = z[k - 1]
    BY <1>1, <2>1, Cons
  <2>3. \A k \in 2..(Len(l) + 1) : k - 1 \in 1..Len(l)
    BY <1>2
  <2> QED
    BY <2>1, <2>2, <2>3 DEF z
<1>4. \A k \in 1..Len(x) : x[k] = y[k]
  <2> HIDE DEF x, y
  <2> QED
    BY <1>2, <1>3
<1> HIDE DEF x, y
<1>5. x = y
  BY <1>2, <1>3, <1>4, SeqEqual
<1> QED
  BY <1>5 DEF x, y

(* A list is proper when its first cell is a winding that was activated    *)
(* where its rest was active, and its rest is proper.                      *)
LEMMA ProperCons ==
  ASSUME NEW o, NEW c \in Cell, NEW l \in Seq(Cell)
  PROVE  Proper(<<c>> \o l, o) <=>
           Proper(l, o) /\ c.w \in 1..Len(o) /\ o[c.w] = Windings(l)
<1> DEFINE z == <<c>> \o l
           n == Len(l)
<1>1. /\ z \in Seq(Cell) /\ Len(z) = n + 1 /\ n \in Nat
      /\ z[1] = c /\ \A k \in 1..n : z[k + 1] = l[k]
  BY Cons
<1> HIDE DEF z, n
<1>2. \A k \in 0..n : SubSeq(z, k + 2, n + 1) = SubSeq(l, k + 1, n)
  <2> TAKE k \in 0..n
  <2> DEFINE a == SubSeq(z, k + 2, n + 1)
             b == SubSeq(l, k + 1, n)
  <2>1. /\ a \in Seq(Cell) /\ Len(a) = n - k
        /\ \A i \in 1..(n - k) : a[i] = z[k + 2 + i - 1]
    <3>1. k + 2 \in 1..(Len(z) + 1) /\ Len(z) - (k + 2) + 1 = n - k
      BY <1>1
    <3> QED
      BY <1>1, <3>1, Slice
  <2>2. /\ b \in Seq(Cell) /\ Len(b) = n - k
        /\ \A i \in 1..(n - k) : b[i] = l[k + 1 + i - 1]
    <3>1. k + 1 \in 1..(Len(l) + 1) /\ Len(l) - (k + 1) + 1 = n - k
      BY <1>1 DEF n
    <3> QED
      BY <1>1, <3>1, Slice DEF n
  <2>3. \A i \in 1..Len(a) : a[i] = b[i]
    <3> TAKE i \in 1..Len(a)
    <3> HIDE DEF a, b
    <3>1. k + i \in 1..n /\ k + 2 + i - 1 = (k + i) + 1 /\ k + 1 + i - 1 = k + i /\ i \in 1..(n - k)
      BY <1>1, <2>1
    <3>2. a[i] = z[(k + i) + 1] /\ b[i] = l[k + i]
      BY <2>1, <2>2, <3>1
    <3> QED
      BY <1>1, <3>1, <3>2
  <2> HIDE DEF a, b
  <2>4. a = b
    BY <2>1, <2>2, <2>3, SeqEqual
  <2> QED
    BY <2>4 DEF a, b
<1>3. SubSeq(l, 1, n) = l
  BY SubSeqFull DEF n
<1>4. Proper(z, o) <=> \A k \in 1..(n + 1) : /\ z[k].w \in 1..Len(o)
                                             /\ o[z[k].w] = Windings(SubSeq(z, k + 1, n + 1))
  BY <1>1 DEF Proper
<1>5. Proper(l, o) <=> \A k \in 1..n : /\ l[k].w \in 1..Len(o)
                                       /\ o[l[k].w] = Windings(SubSeq(l, k + 1, n))
  BY DEF Proper, n
<1>6. SubSeq(z, 2, n + 1) = l
  <2>1. 0 \in 0..n /\ 0 + 2 = 2 /\ 0 + 1 = 1
    BY <1>1
  <2> QED
    BY <1>2, <1>3, <2>1
<1>7. \A k \in 1..n : SubSeq(z, (k + 1) + 1, n + 1) = SubSeq(l, k + 1, n)
  <2> TAKE k \in 1..n
  <2>1. k \in 0..n /\ (k + 1) + 1 = k + 2
    BY <1>1
  <2> QED
    BY <1>2, <2>1
<1>8. ASSUME Proper(z, o) PROVE Proper(l, o) /\ c.w \in 1..Len(o) /\ o[c.w] = Windings(l)
  <2>1. 1 \in 1..(n + 1) /\ 1 + 1 = 2 /\ \A k \in 1..n : k + 1 \in 1..(n + 1)
    BY <1>1
  <2>2. c.w \in 1..Len(o) /\ o[c.w] = Windings(l)
    BY <1>1, <1>4, <1>6, <1>8, <2>1
  <2>3. \A k \in 1..n : /\ l[k].w \in 1..Len(o)
                        /\ o[l[k].w] = Windings(SubSeq(l, k + 1, n))
    BY <1>1, <1>4, <1>7, <1>8, <2>1
  <2> QED
    BY <1>5, <2>2, <2>3
<1>9. ASSUME Proper(l, o), c.w \in 1..Len(o), o[c.w] = Windings(l) PROVE Proper(z, o)
  <2> SUFFICES ASSUME NEW k \in 1..(n + 1)
               PROVE  z[k].w \in 1..Len(o) /\ o[z[k].w] = Windings(SubSeq(z, k + 1, n + 1))
    BY <1>4
  <2>1. CASE k = 1
    <3>1. k + 1 = 2
      BY <2>1
    <3> QED
      BY <1>1, <1>6, <1>9, <2>1, <3>1
  <2>2. CASE k # 1
    <3>1. PICK j \in 1..n : k = j + 1
      <4>1. k - 1 \in 1..n /\ k = (k - 1) + 1
        BY <1>1, <2>2
      <4> QED
        BY <4>1
    <3> QED
      BY <1>1, <1>5, <1>7, <1>9, <3>1
  <2> QED
    BY <2>1, <2>2
<1> QED
  BY <1>8, <1>9 DEF z

(* The same of a list that is not empty.                                   *)
LEMMA ProperRest ==
  ASSUME NEW o, NEW l \in Seq(Cell), l # <<>>, Proper(l, o)
  PROVE  /\ Tail(l) \in Seq(Cell) /\ Proper(Tail(l), o)
         /\ l[1] \in Cell /\ l[1].w \in 1..Len(o) /\ l[1].w \in Nat
         /\ o[l[1].w] = Windings(Tail(l))
         /\ Windings(l) = <<l[1].w>> \o o[l[1].w]
<1>1. Tail(l) \in Seq(Cell) /\ l[1] \in Cell /\ l = <<l[1]>> \o Tail(l)
  BY Rest
<1>2. Proper(Tail(l), o) /\ l[1].w \in 1..Len(o) /\ o[l[1].w] = Windings(Tail(l))
  <2>1. Proper(<<l[1]>> \o Tail(l), o)
    BY <1>1
  <2> QED
    BY <1>1, <2>1, ProperCons, Zenon
<1>3. Windings(l) = <<l[1].w>> \o Windings(Tail(l))
  BY <1>1, WindingsCons
<1> QED
  BY <1>1, <1>2, <1>3 DEF Cell

----------------------------------------------------------------------------
(* What waits.                                                             *)

(* A jump waits somewhere in s.                                            *)
Jumps(s) == \E i \in 1..Len(s) : s[i].at = "jump"

LEMMA SoundPush ==
  ASSUME NEW s \in Seq(FrameType), NEW f \in FrameType, NEW o, NEW c, NEW b,
         Sound(s, o, c, b), Named(f, o, c),
         f.at # "jump" => SuitsAt(s, 1, Leaves(f, o), o, c, b),
         OnItsWay(<<f>> \o s, 1) => Jumps(s),
         s # <<>> /\ s[1].at = "thunk" => f.at = "before" /\ f.w = s[1].w
  PROVE  Sound(<<f>> \o s, o, c, b)
<1> DEFINE z == <<f>> \o s
           n == Len(s)
<1>1. /\ Len(z) = n + 1 /\ n \in Nat /\ z[1] = f
      /\ \A j \in 1..n : z[j + 1] = s[j]
  BY Cons
<1>2. OnItsWay(z, 1) => Jumps(s)
  OBVIOUS
<1> HIDE DEF z
<1>3. \A j \in 1..n : \A v : SuitsAt(z, j + 2, v, o, c, b) <=> SuitsAt(s, j + 1, v, o, c, b)
  <2> TAKE j \in 1..n
  <2> TAKE v
  <2>1. CASE j = n
    <3>1. j + 2 > Len(z) /\ j + 1 > Len(s)
      BY <1>1, <2>1
    <3> QED
      BY <3>1 DEF SuitsAt
  <2>2. CASE j # n
    <3>1. ~(j + 2 > Len(z)) /\ ~(j + 1 > Len(s)) /\ j + 1 \in 1..n /\ j + 2 = (j + 1) + 1
      BY <1>1, <2>2
    <3>2. z[j + 2] = s[j + 1]
      BY <1>1, <3>1
    <3> QED
      BY <3>1, <3>2 DEF SuitsAt
  <2> QED
    BY <2>1, <2>2
<1>4. \A v : SuitsAt(z, 2, v, o, c, b) <=> SuitsAt(s, 1, v, o, c, b)
  <2> TAKE v
  <2>1. CASE n = 0
    <3>1. 2 > Len(z) /\ 1 > Len(s)
      BY <1>1, <2>1
    <3> QED
      BY <3>1 DEF SuitsAt
  <2>2. CASE n # 0
    <3>1. ~(2 > Len(z)) /\ ~(1 > Len(s)) /\ 1 \in 1..n /\ 2 = 1 + 1
      BY <1>1, <2>2
    <3>2. z[2] = s[1]
      BY <1>1, <3>1
    <3> QED
      BY <3>1, <3>2 DEF SuitsAt
  <2> QED
    BY <2>1, <2>2
<1>5. \A j \in 1..n : OnItsWay(z, j + 1) <=> OnItsWay(s, j)
  <2> TAKE j \in 1..n
  <2>1. z[j + 1] = s[j]
    BY <1>1
  <2>2. (j + 1 < Len(z) <=> j < n) /\ (j < n => z[(j + 1) + 1] = s[j + 1])
    <3>1. j < n => j + 1 \in 1..n
      BY <1>1
    <3> QED
      BY <1>1, <3>1
  <2> QED
    BY <2>1, <2>2 DEF OnItsWay
<1>6. \A i \in 1..n : s[i].at = "jump" => i + 1 \in 2..(n + 1) /\ z[i + 1].at = "jump"
  BY <1>1
<1>9. \A j \in 1..n : ThunkNext(s, j) => ThunkNext(z, j + 1)
  <2> TAKE j \in 1..n
  <2>1. z[j + 1] = s[j]
    BY <1>1
  <2>2. (j + 1 < Len(z) <=> j < n) /\ (j < n => z[(j + 1) + 1] = s[j + 1])
    <3>1. j < n => j + 1 \in 1..n
      BY <1>1
    <3> QED
      BY <1>1, <3>1
  <2> QED
    BY <2>1, <2>2 DEF ThunkNext
<1>10. ThunkNext(z, 1)
  <2>1. 1 < Len(z) => z[1 + 1] = s[1] /\ s # <<>>
    <3>1. 1 < Len(z) => 1 \in 1..n
      BY <1>1
    <3> QED
      BY <1>1, <3>1
  <2> QED
    BY <1>1, <2>1 DEF ThunkNext
<1> SUFFICES ASSUME NEW j \in 1..(n + 1)
             PROVE  /\ Named(z[j], o, c) /\ ThunkNext(z, j)
                    /\ z[j].at # "jump" => SuitsAt(z, j + 1, Leaves(z[j], o), o, c, b)
                    /\ OnItsWay(z, j) => \E i \in (j + 1)..(n + 1) : z[i].at = "jump"
  BY <1>1 DEF Sound, z
<1>7. CASE j = 1
  <2>1. j + 1 = 2 /\ z[j] = f
    BY <1>1, <1>7
  <2>2. f.at # "jump" => SuitsAt(z, 2, Leaves(f, o), o, c, b)
    BY <1>4
  <2>3. OnItsWay(z, 1) => \E i \in 2..(n + 1) : z[i].at = "jump"
    BY <1>2, <1>6 DEF Jumps
  <2> QED
    BY <1>7, <1>10, <2>1, <2>2, <2>3
<1>8. CASE j # 1
  <2>1. PICK k \in 1..n : j = k + 1 /\ j + 1 = k + 2
    <3>1. j - 1 \in 1..n /\ j = (j - 1) + 1 /\ j + 1 = (j - 1) + 2
      BY <1>1, <1>8
    <3> QED
      BY <3>1
  <2>2. z[j] = s[k]
    BY <1>1, <2>1
  <2>3. /\ Named(s[k], o, c) /\ ThunkNext(s, k)
        /\ s[k].at # "jump" => SuitsAt(s, k + 1, Leaves(s[k], o), o, c, b)
        /\ OnItsWay(s, k) => \E i \in (k + 1)..n : s[i].at = "jump"
    BY DEF Sound
  <2>4. SuitsAt(z, j + 1, Leaves(z[j], o), o, c, b) <=> SuitsAt(s, k + 1, Leaves(s[k], o), o, c, b)
    BY <1>3, <2>1, <2>2
  <2>5. OnItsWay(z, j) => \E i \in (j + 1)..(n + 1) : z[i].at = "jump"
    <3> SUFFICES ASSUME OnItsWay(z, j) PROVE \E i \in (j + 1)..(n + 1) : z[i].at = "jump"
      OBVIOUS
    <3>1. OnItsWay(s, k)
      BY <1>5, <2>1
    <3>2. PICK i \in (k + 1)..n : s[i].at = "jump"
      BY <2>3, <3>1
    <3>3. i \in 1..n /\ i + 1 \in (j + 1)..(n + 1)
      BY <1>1, <2>1
    <3> QED
      BY <1>6, <3>2, <3>3
  <2> QED
    BY <1>9, <2>1, <2>2, <2>3, <2>4, <2>5
<1> QED
  BY <1>7, <1>8

LEMMA SoundRest ==
  ASSUME NEW s \in Seq(FrameType), s # <<>>, NEW o, NEW c, NEW b, Sound(s, o, c, b)
  PROVE  /\ Tail(s) \in Seq(FrameType) /\ Sound(Tail(s), o, c, b)
         /\ s[1] \in FrameType /\ Named(s[1], o, c) /\ Len(s) \in Nat \ {0}
         /\ s[1].at # "jump" => SuitsAt(Tail(s), 1, Leaves(s[1], o), o, c, b)
         /\ s[1].at \in {"push", "pop", "enter"} => Jumps(Tail(s))
         /\ s[1].at = "before" =>
              \/ Jumps(Tail(s))
              \/ /\ Tail(s) # <<>>
                 /\ Tail(s)[1].at = "thunk" /\ Tail(s)[1].w = s[1].w
         /\ Tail(s) # <<>> /\ Tail(s)[1].at = "thunk" =>
              s[1].at = "before" /\ s[1].w = Tail(s)[1].w
<1> DEFINE z == Tail(s)
           n == Len(z)
<1>1. /\ z \in Seq(FrameType) /\ Len(s) = n + 1 /\ n \in Nat /\ s[1] \in FrameType
      /\ Len(s) \in Nat \ {0}
      /\ \A j \in 1..n : z[j] = s[j + 1]
  BY Rest
<1>2. \A j \in 1..(n + 1) :
        /\ Named(s[j], o, c) /\ ThunkNext(s, j)
        /\ s[j].at # "jump" => SuitsAt(s, j + 1, Leaves(s[j], o), o, c, b)
        /\ OnItsWay(s, j) => \E i \in (j + 1)..(n + 1) : s[i].at = "jump"
  BY <1>1 DEF Sound
<1> HIDE DEF z
<1>3. \A j \in 0..n : \A v : SuitsAt(s, j + 2, v, o, c, b) <=> SuitsAt(z, j + 1, v, o, c, b)
  <2> TAKE j \in 0..n
  <2> TAKE v
  <2>1. CASE j = n
    <3>1. j + 2 > Len(s) /\ j + 1 > Len(z)
      BY <1>1, <2>1
    <3> QED
      BY <3>1 DEF SuitsAt
  <2>2. CASE j # n
    <3>1. ~(j + 2 > Len(s)) /\ ~(j + 1 > Len(z)) /\ j + 1 \in 1..n /\ j + 2 = (j + 1) + 1
      BY <1>1, <2>2
    <3>2. s[j + 2] = z[j + 1]
      BY <1>1, <3>1
    <3> QED
      BY <3>1, <3>2 DEF SuitsAt
  <2> QED
    BY <2>1, <2>2
<1>4. \A j \in 1..n : OnItsWay(z, j) => OnItsWay(s, j + 1)
  <2> TAKE j \in 1..n
  <2>1. z[j] = s[j + 1]
    BY <1>1
  <2>2. (j + 1 < Len(s) <=> j < n) /\ (j < n => s[(j + 1) + 1] = z[j + 1])
    <3>1. j < n => j + 1 \in 1..n
      BY <1>1
    <3> QED
      BY <1>1, <3>1
  <2> QED
    BY <2>1, <2>2 DEF OnItsWay
<1>5. ASSUME NEW j \in 0..n, \E i \in (j + 2)..(n + 1) : s[i].at = "jump"
      PROVE  \E i \in (j + 1)..n : z[i].at = "jump"
  <2>1. PICK i \in (j + 2)..(n + 1) : s[i].at = "jump"
    BY <1>5
  <2>2. i - 1 \in (j + 1)..n /\ i - 1 \in 1..n /\ (i - 1) + 1 = i
    BY <1>1
  <2> QED
    BY <1>1, <2>1, <2>2
<1>11. \A j \in 1..n : ThunkNext(s, j + 1) => ThunkNext(z, j)
  <2> TAKE j \in 1..n
  <2>1. z[j] = s[j + 1]
    BY <1>1
  <2>2. (j + 1 < Len(s) <=> j < n) /\ (j < n => s[(j + 1) + 1] = z[j + 1])
    <3>1. j < n => j + 1 \in 1..n
      BY <1>1
    <3> QED
      BY <1>1, <3>1
  <2> QED
    BY <2>1, <2>2 DEF ThunkNext
<1>6. Sound(z, o, c, b)
  <2> SUFFICES ASSUME NEW j \in 1..n
               PROVE  /\ Named(z[j], o, c) /\ ThunkNext(z, j)
                      /\ z[j].at # "jump" => SuitsAt(z, j + 1, Leaves(z[j], o), o, c, b)
                      /\ OnItsWay(z, j) => \E i \in (j + 1)..n : z[i].at = "jump"
    BY DEF Sound
  <2>1. j + 1 \in 1..(n + 1) /\ j \in 0..n /\ (j + 1) + 1 = j + 2 /\ z[j] = s[j + 1]
    BY <1>1
  <2>2. /\ Named(s[j + 1], o, c) /\ ThunkNext(s, j + 1)
        /\ s[j + 1].at # "jump" => SuitsAt(s, j + 2, Leaves(s[j + 1], o), o, c, b)
        /\ OnItsWay(s, j + 1) => \E i \in (j + 2)..(n + 1) : s[i].at = "jump"
    BY <1>2, <2>1
  <2>3. OnItsWay(z, j) => \E i \in (j + 1)..n : z[i].at = "jump"
    BY <1>4, <1>5, <2>1, <2>2
  <2> QED
    BY <1>3, <1>11, <2>1, <2>2, <2>3
<1>7. 0 \in 0..n /\ 0 + 2 = 2 /\ 0 + 1 = 1 /\ 1 + 1 = 2 /\ 1 \in 1..(n + 1)
  BY <1>1
<1>8. /\ Named(s[1], o, c)
      /\ s[1].at # "jump" => SuitsAt(z, 1, Leaves(s[1], o), o, c, b)
      /\ OnItsWay(s, 1) => Jumps(z)
  <2>1. /\ Named(s[1], o, c)
        /\ s[1].at # "jump" => SuitsAt(s, 2, Leaves(s[1], o), o, c, b)
        /\ OnItsWay(s, 1) => \E i \in 2..(n + 1) : s[i].at = "jump"
    BY <1>2, <1>7
  <2>2. (\E i \in 2..(n + 1) : s[i].at = "jump") => \E i \in 1..n : z[i].at = "jump"
    BY <1>5, <1>7
  <2> QED
    BY <1>3, <1>7, <2>1, <2>2 DEF Jumps
<1>9. s[1].at = "before" =>
        Jumps(z) \/ (z # <<>> /\ z[1].at = "thunk" /\ z[1].w = s[1].w)
  <2> SUFFICES ASSUME s[1].at = "before", ~Jumps(z)
               PROVE  z # <<>> /\ z[1].at = "thunk" /\ z[1].w = s[1].w
    OBVIOUS
  <2>1. 1 < Len(s) /\ s[1 + 1].at = "thunk" /\ s[1 + 1].w = s[1].w
    BY <1>8 DEF OnItsWay
  <2>2. 1 \in 1..n /\ z[1] = s[1 + 1]
    BY <1>1, <2>1
  <2> QED
    BY <1>1, <2>1, <2>2
<1>10. s[1].at \in {"push", "pop", "enter"} => Jumps(z)
  BY <1>8 DEF OnItsWay
<1>12. z # <<>> /\ z[1].at = "thunk" => s[1].at = "before" /\ s[1].w = z[1].w
  <2> SUFFICES ASSUME z # <<>> PROVE ThunkNext(s, 1) => (z[1].at = "thunk" => s[1].at = "before" /\ s[1].w = z[1].w)
    BY <1>2, <1>7
  <2>1. 1 < Len(s) /\ 1 \in 1..n /\ z[1] = s[1 + 1]
    BY <1>1
  <2> QED
    BY <2>1 DEF ThunkNext
<1> QED
  BY <1>1, <1>6, <1>8, <1>9, <1>10, <1>12 DEF z

(* A list of windings per call of dynamic-wind and the continuations only  *)
(* grow, and what is sound remains so.                                     *)
Grown(x, y) == Len(x) <= Len(y) /\ \A n \in 1..Len(x) : y[n] = x[n]

LEMMA Grows ==
  ASSUME NEW o \in Seq(Seq(Nat)), NEW o2 \in Seq(Seq(Nat)), Grown(o, o2),
         NEW c \in Seq(Continuation), NEW c2 \in Seq(Continuation), Grown(c, c2)
  PROVE  /\ \A l : Proper(l, o) => Proper(l, o2)
         /\ \A f : Named(f, o, c) => Named(f, o2, c2)
         /\ \A s \in Seq(FrameType) : \A v, b : Fits(s, v, o, c, b) => Fits(s, v, o2, c2, b)
<1>1. /\ Len(o) \in Nat /\ Len(o2) \in Nat /\ Len(o) <= Len(o2)
      /\ Len(c) \in Nat /\ Len(c2) \in Nat /\ Len(c) <= Len(c2)
  BY DEF Grown
<1>2. /\ \A n \in 1..Len(o) : n \in 1..Len(o2) /\ o2[n] = o[n]
      /\ \A n \in 1..Len(c) : n \in 1..Len(c2) /\ c2[n] = c[n]
  BY <1>1 DEF Grown
<1>3. \A l : Proper(l, o) => Proper(l, o2)
  BY <1>2 DEF Proper
<1>4. \A f : Named(f, o, c) => Named(f, o2, c2)
  BY <1>2, <1>3 DEF Named
<1>5. \A f, v : Named(f, o, c) => (Suits(f, v, o, c) => Suits(f, v, o2, c2))
  <2> TAKE f, v
  <2> SUFFICES ASSUME Named(f, o, c), Suits(f, v, o, c) PROVE Suits(f, v, o2, c2)
    OBVIOUS
  <2>1. f.at \in {"before", "after", "thunk", "result", "enter"} => o2[f.w] = o[f.w]
    BY <1>2 DEF Named
  <2>2. f.at = "jump" => c2[f.w] = c[f.w]
    BY <1>2 DEF Named
  <2> QED
    BY <2>1, <2>2 DEF Suits
<1>6. \A f : Named(f, o, c) /\ f.at \in Ats /\ f.at # "jump" => Leaves(f, o2) = Leaves(f, o)
  BY <1>2 DEF Named, Leaves, Ats
<1>7. ASSUME NEW s \in Seq(FrameType), NEW v, NEW b, Fits(s, v, o, c, b)
      PROVE  Fits(s, v, o2, c2, b)
  <2>1. Len(s) \in Nat /\ \A j \in 1..Len(s) : s[j].at \in Ats
    <3>1. Len(s) \in Nat /\ \A j \in 1..Len(s) : s[j] \in FrameType
      BY ElementOfSeq
    <3> QED
      BY <3>1 DEF FrameType
  <2>2. \A j \in 1..Len(s) :
          /\ Named(s[j], o, c) /\ ThunkNext(s, j)
          /\ s[j].at # "jump" => SuitsAt(s, j + 1, Leaves(s[j], o), o, c, b)
          /\ OnItsWay(s, j) => \E i \in (j + 1)..Len(s) : s[i].at = "jump"
    BY <1>7 DEF Fits, Sound
  <2>3. \A j \in 1..(Len(s) + 1) : \A u : SuitsAt(s, j, u, o, c, b) => SuitsAt(s, j, u, o2, c2, b)
    <3> TAKE j \in 1..(Len(s) + 1)
    <3> TAKE u
    <3>1. CASE j > Len(s)
      BY <3>1 DEF SuitsAt
    <3>2. CASE ~(j > Len(s))
      <4>1. j \in 1..Len(s)
        BY <2>1, <3>2
      <4>2. Named(s[j], o, c)
        BY <2>2, <4>1
      <4> QED
        BY <1>5, <3>2, <4>2 DEF SuitsAt
    <3> QED
      BY <3>1, <3>2
  <2>4. SuitsAt(s, 1, v, o2, c2, b)
    <3>1. 1 \in 1..(Len(s) + 1)
      BY <2>1
    <3> QED
      BY <1>7, <2>3, <3>1 DEF Fits
  <2>5. ASSUME NEW j \in 1..Len(s)
        PROVE  /\ Named(s[j], o2, c2) /\ ThunkNext(s, j)
               /\ s[j].at # "jump" => SuitsAt(s, j + 1, Leaves(s[j], o2), o2, c2, b)
               /\ OnItsWay(s, j) => \E i \in (j + 1)..Len(s) : s[i].at = "jump"
    <3>1. j + 1 \in 1..(Len(s) + 1)
      BY <2>1
    <3>2. s[j].at # "jump" => Leaves(s[j], o2) = Leaves(s[j], o)
      BY <1>6, <2>1, <2>2
    <3> QED
      BY <1>4, <2>2, <2>3, <3>1, <3>2
  <2> QED
    BY <2>4, <2>5 DEF Fits, Sound
<1> QED
  BY <1>3, <1>4, <1>7

(* The greatest of the ends that two lists share is an end of both.        *)
LEMMA SharedTail ==
  ASSUME NEW x \in Seq(Cell), NEW y \in Seq(Cell)
  PROVE  /\ \E n \in 0..Len(x) : shared_tail(x, y) = list_tail(x, n)
         /\ shared_tail(x, y) \in Seq(Cell)
<1> DEFINE common == {n \in 0..Len(x) : n <= Len(y) /\ list_tail(x, n) = list_tail(y, n)}
<1>1. Len(x) \in Nat /\ Len(y) \in Nat
  OBVIOUS
<1>2. 0 \in common
  <2>1. SubSeq(x, Len(x) + 1, Len(x)) = <<>> /\ SubSeq(y, Len(y) + 1, Len(y)) = <<>>
    BY <1>1, SubSeqEmpty
  <2>2. Len(x) - 0 + 1 = Len(x) + 1 /\ Len(y) - 0 + 1 = Len(y) + 1 /\ 0 \in 0..Len(x) /\ 0 <= Len(y)
    BY <1>1
  <2> QED
    BY <2>1, <2>2 DEF list_tail
<1>3. \E n \in common : \A m \in common : m <= n
  <2>1. common \in SUBSET (0..Len(x)) /\ common # {}
    BY <1>2
  <2> HIDE DEF common
  <2> QED
    BY <1>1, <2>1, HasGreatest
<1> DEFINE g == CHOOSE n \in common : \A m \in common : m <= n
<1>4. g \in common
  <2> HIDE DEF common
  <2> QED
    BY <1>3
<1>5. g \in 0..Len(x)
  BY <1>4
<1>6. shared_tail(x, y) = list_tail(x, g)
  BY DEF shared_tail
<1>7. list_tail(x, g) \in Seq(Cell)
  <2> HIDE DEF g
  <2>1. Len(x) - g + 1 \in 1..(Len(x) + 1)
    BY <1>1, <1>5
  <2> QED
    BY <2>1, Slice DEF list_tail
<1> HIDE DEF g
<1> QED
  BY <1>5, <1>6, <1>7

LEMMA ConsTwo ==
  ASSUME NEW S, NEW a \in S, NEW d \in S, NEW s \in Seq(S)
  PROVE  <<a, d>> \o s = <<a>> \o (<<d>> \o s)
<1>1. <<a>> \in Seq(S) /\ <<d>> \in Seq(S) /\ <<a, d>> \in Seq(S)
  OBVIOUS
<1>2. <<a, d>> = <<a>> \o <<d>>
  <2>1. /\ <<a>> \o <<d>> \in Seq(S) /\ Len(<<a>> \o <<d>>) = 2
        /\ (<<a>> \o <<d>>)[1] = a /\ (<<a>> \o <<d>>)[2] = d
    OBVIOUS
  <2>2. Len(<<a, d>>) = 2 /\ <<a, d>>[1] = a /\ <<a, d>>[2] = d
    OBVIOUS
  <2>3. \A i \in 1..2 : <<a, d>>[i] = (<<a>> \o <<d>>)[i]
    BY <2>1, <2>2
  <2> QED
    BY ONLY <1>1, <2>1, <2>2, <2>3, SeqEqual
<1>3. (<<a>> \o <<d>>) \o s = <<a>> \o (<<d>> \o s)
  BY <1>1, ConcatAssociative
<1> QED
  BY <1>2, <1>3

LEMMA ConsThree ==
  ASSUME NEW a \in FrameType, NEW d \in FrameType, NEW e \in FrameType,
         NEW s \in Seq(FrameType)
  PROVE  <<a, d, e>> \o s = <<a>> \o (<<d>> \o (<<e>> \o s))
<1> DEFINE S == FrameType
<1> HIDE DEF S
<1>0. a \in S /\ d \in S /\ e \in S /\ s \in Seq(S)
  BY DEF S
<1>1. <<a>> \in Seq(S) /\ <<d, e>> \in Seq(S) /\ <<a, d, e>> \in Seq(S)
  BY <1>0
<1>2. <<a, d, e>> = <<a>> \o <<d, e>>
  <2>1. /\ <<a>> \o <<d, e>> \in Seq(S) /\ Len(<<a>> \o <<d, e>>) = 3
        /\ (<<a>> \o <<d, e>>)[1] = a /\ (<<a>> \o <<d, e>>)[2] = d
        /\ (<<a>> \o <<d, e>>)[3] = e
    BY <1>0
  <2>2. Len(<<a, d, e>>) = 3 /\ <<a, d, e>>[1] = a /\ <<a, d, e>>[2] = d /\ <<a, d, e>>[3] = e
    OBVIOUS
  <2>3. \A i \in 1..3 : <<a, d, e>>[i] = (<<a>> \o <<d, e>>)[i]
    BY <2>1, <2>2
  <2> QED
    BY ONLY <1>1, <2>1, <2>2, <2>3, SeqEqual
<1>3. (<<a>> \o <<d, e>>) \o s = <<a>> \o (<<d, e>> \o s)
  BY <1>0, <1>1, ConcatAssociative
<1>4. <<d, e>> \o s = <<d>> \o (<<e>> \o s)
  BY <1>0, ConsTwo
<1> QED
  BY <1>2, <1>3, <1>4

(* The frames of the library.                                              *)
LEMMA Frames ==
  /\ \A at \in Ats, w \in Nat :
       /\ Frame(at, w) \in FrameType
       /\ Frame(at, w).at = at /\ Frame(at, w).w = w
  /\ \A shared \in Seq(Cell) :
       /\ Pop(shared) \in FrameType /\ Pop(shared).at = "pop" /\ Pop(shared).shared = shared
  /\ \A ws \in Seq(Cell), shared \in Seq(Cell) :
       /\ Push(ws, shared) \in FrameType /\ Push(ws, shared).at = "push"
       /\ Push(ws, shared).ws = ws /\ Push(ws, shared).shared = shared
<1>1. <<>> \in Seq(Cell)
  OBVIOUS
<1>2. \A at \in Ats, w \in Nat :
        /\ Frame(at, w) \in FrameType
        /\ Frame(at, w).at = at /\ Frame(at, w).w = w
  BY <1>1 DEF Frame, FrameType
<1>3. \A shared \in Seq(Cell) :
        Pop(shared) = [at |-> "pop", w |-> 0, ws |-> <<>>, shared |-> shared]
  BY DEF Pop, Frame
<1>4. \A ws \in Seq(Cell), shared \in Seq(Cell) :
        Push(ws, shared) = [at |-> "push", w |-> 0, ws |-> ws, shared |-> shared]
  <2> TAKE ws \in Seq(Cell), shared \in Seq(Cell)
  <2>1. Frame("push", 0) = [at |-> "push", w |-> 0, ws |-> <<>>, shared |-> <<>>]
    BY DEF Frame
  <2>2. [Frame("push", 0) EXCEPT !.ws = ws] = [at |-> "push", w |-> 0, ws |-> ws, shared |-> <<>>]
    BY <2>1
  <2>3. Push(ws, shared) = [[Frame("push", 0) EXCEPT !.ws = ws] EXCEPT !.shared = shared]
    BY DEF Push
  <2> QED
    BY <2>2, <2>3
<1>5. \A shared \in Seq(Cell) :
        Pop(shared) \in FrameType /\ Pop(shared).at = "pop" /\ Pop(shared).shared = shared
  <2> TAKE shared \in Seq(Cell)
  <2>1. [at |-> "pop", w |-> 0, ws |-> <<>>, shared |-> shared] \in FrameType
    BY <1>1 DEF FrameType, Ats
  <2> QED
    BY <1>3, <2>1
<1>6. \A ws \in Seq(Cell), shared \in Seq(Cell) :
        /\ Push(ws, shared) \in FrameType /\ Push(ws, shared).at = "push"
        /\ Push(ws, shared).ws = ws /\ Push(ws, shared).shared = shared
  BY <1>4 DEF FrameType, Ats
<1> QED
  BY <1>2, <1>5, <1>6

(* One more call waits: f finds v active, and what it leaves active suits  *)
(* what waited before.                                                     *)
LEMMA FitsPush ==
  ASSUME NEW s \in Seq(FrameType), NEW f \in FrameType, NEW o, NEW c, NEW b, NEW v,
         Sound(s, o, c, b), Named(f, o, c), Suits(f, v, o, c),
         f.at # "jump" => SuitsAt(s, 1, Leaves(f, o), o, c, b),
         f.at \in {"push", "pop", "enter"} => Jumps(s),
         f.at = "before" =>
           Jumps(s) \/ (s # <<>> /\ s[1].at = "thunk" /\ s[1].w = f.w),
         s # <<>> /\ s[1].at = "thunk" => f.at = "before" /\ f.w = s[1].w
  PROVE  /\ <<f>> \o s \in Seq(FrameType) /\ Fits(<<f>> \o s, v, o, c, b)
         /\ (<<f>> \o s)[1] = f /\ <<f>> \o s # <<>>
         /\ Jumps(s) \/ f.at = "jump" => Jumps(<<f>> \o s)
<1> DEFINE z == <<f>> \o s
<1>1. /\ z \in Seq(FrameType) /\ Len(z) = Len(s) + 1 /\ Len(s) \in Nat /\ z[1] = f /\ z # <<>>
      /\ \A j \in 1..Len(s) : z[j + 1] = s[j]
  BY Cons
<1> HIDE DEF z
<1>2. OnItsWay(z, 1) => Jumps(s)
  <2> SUFFICES ASSUME OnItsWay(z, 1), ~Jumps(s) PROVE FALSE
    OBVIOUS
  <2>1. f.at = "before" /\ s # <<>> /\ s[1].at = "thunk" /\ s[1].w = f.w
    BY <1>1 DEF OnItsWay
  <2>2. 1 < Len(z) /\ z[1 + 1] = s[1]
    BY <1>1, <2>1
  <2> QED
    BY <1>1, <2>1, <2>2 DEF OnItsWay
<1>3. Sound(z, o, c, b)
  BY <1>2, SoundPush DEF z
<1>4. SuitsAt(z, 1, v, o, c, b)
  <2>1. ~(1 > Len(z))
    BY <1>1
  <2> QED
    BY <1>1, <2>1 DEF SuitsAt
<1>5. Jumps(s) \/ f.at = "jump" => Jumps(z)
  <2>1. CASE f.at = "jump"
    <3>1. 1 \in 1..Len(z)
      BY <1>1
    <3> QED
      BY <1>1, <2>1, <3>1 DEF Jumps
  <2>2. CASE Jumps(s)
    <3>1. PICK i \in 1..Len(s) : s[i].at = "jump"
      BY <2>2 DEF Jumps
    <3>2. i + 1 \in 1..Len(z) /\ z[i + 1] = s[i]
      BY <1>1
    <3> QED
      BY <3>1, <3>2 DEF Jumps
  <2> QED
    BY <2>1, <2>2
<1> QED
  BY <1>1, <1>3, <1>4, <1>5 DEF Fits, z

(* What the step of the library has to show: what waits after it fits what *)
(* is active after it.                                                     *)
LEMMA LibraryStep ==
  ASSUME WindInv, UNCHANGED <<conts, counts, outer>>,
         active' \in Seq(Cell), Proper(active', outer),
         stack' \in Seq(FrameType), base' \in Seq(Nat), conses' \in Seq(Nat), pc' \in {"run", "back"},
         pc' = "run" => Runs(stack'),
         Fits(stack', Windings(active'), outer, conts, base')
  PROVE  WindInv'
<1>1. outer' = outer /\ conts' = conts /\ winds' = winds
  BY DEF counts
<1>2. WindTypes'
  BY <1>1 DEF WindInv, WindTypes
<1>3. \A k \in 1..Len(conts) :
        /\ Proper(conts[k].ws, outer)
        /\ Fits(conts[k].stack, Windings(conts[k].ws), outer, conts, conts[k].base)
        /\ Runs(conts[k].stack)
  BY DEF WindInv
<1>4. (\A k \in 1..Len(conts) :
        /\ Proper(conts[k].ws, outer)
        /\ Fits(conts[k].stack, Windings(conts[k].ws), outer, conts, conts[k].base)
        /\ Runs(conts[k].stack))'
  BY <1>1, <1>3
<1>5. Proper(active, outer)' /\ Fits(stack, Windings(active), outer, conts, base)'
  BY <1>1
<1>6. (pc = "run" => Runs(stack))'
  OBVIOUS
<1> QED
  BY <1>2, <1>4, <1>5, <1>6 DEF WindInv

(* What WindInv says when control is back at a frame.                      *)
LEMMA TopFrame ==
  ASSUME WindInv, stack # <<>>
  PROVE  /\ stack \in Seq(FrameType) /\ Tail(stack) \in Seq(FrameType)
         /\ active \in Seq(Cell) /\ Proper(active, outer) /\ base \in Seq(Nat)
         /\ conses \in Seq(Nat)
         /\ Windings(active) \in Seq(Nat)
         /\ Sound(stack, outer, conts, base) /\ Sound(Tail(stack), outer, conts, base)
         /\ stack[1] \in FrameType /\ Named(stack[1], outer, conts)
         /\ Suits(stack[1], Windings(active), outer, conts)
         /\ stack[1].at # "jump" =>
              SuitsAt(Tail(stack), 1, Leaves(stack[1], outer), outer, conts, base)
         /\ stack[1].at \in {"push", "pop", "enter"} => Jumps(Tail(stack))
         /\ stack[1].at = "before" =>
              \/ Jumps(Tail(stack))
              \/ /\ Tail(stack) # <<>>
                 /\ Tail(stack)[1].at = "thunk" /\ Tail(stack)[1].w = stack[1].w
         /\ Tail(stack) # <<>> /\ Tail(stack)[1].at = "thunk" =>
              stack[1].at = "before" /\ stack[1].w = Tail(stack)[1].w
<1>1. /\ stack \in Seq(FrameType) /\ active \in Seq(Cell) /\ Proper(active, outer)
      /\ base \in Seq(Nat) /\ Windings(active) \in Seq(Nat) /\ conses \in Seq(Nat)
      /\ SuitsAt(stack, 1, Windings(active), outer, conts, base)
      /\ Sound(stack, outer, conts, base)
  BY WindingsFacts DEF WindInv, WindTypes, Fits
<1>2. ~(1 > Len(stack))
  BY <1>1
<1>3. Suits(stack[1], Windings(active), outer, conts)
  BY <1>1, <1>2 DEF SuitsAt
<1> QED
  BY <1>1, <1>3, SoundRest

LEMMA ContType ==
  ASSUME NEW c \in Seq(Continuation)
  PROVE  /\ Len(c) \in Nat
         /\ \A k \in 1..Len(c) : /\ c[k].stack \in Seq(FrameType) /\ c[k].ws \in Seq(Cell)
                                 /\ c[k].base \in Seq(Nat)
<1>1. Len(c) \in Nat /\ \A k \in 1..Len(c) : c[k] \in Continuation
  BY ElementOfSeq
<1> QED
  BY <1>1 DEF Continuation

(* Each action keeps the invariant.                                        *)

LEMMA InitWind == Init => WindInv
<1> SUFFICES ASSUME Init PROVE WindInv
  OBVIOUS
<1>1. /\ <<>> \in Seq(Cell) /\ <<>> \in Seq(FrameType) /\ <<>> \in Seq(Continuation)
      /\ <<>> \in Seq(Seq(Nat)) /\ <<>> \in Seq(Nat)
      /\ Len(<<>>) = 0
  OBVIOUS
<1>2. Windings(<<>>) = <<>>
  <2>1. Len(Windings(<<>>)) = 0 /\ Windings(<<>>) \in Seq(Nat)
    BY <1>1, WindingsFacts
  <2> QED
    BY <2>1
<1>3. WindTypes
  BY <1>1 DEF Init, WindTypes
<1>4. \A j \in 1..Len(stack) : FALSE
  BY <1>1 DEF Init
<1>5. Fits(stack, Windings(active), outer, conts, base)
  <2>1. 1 > Len(stack) /\ Windings(active) = base
    BY <1>1, <1>2 DEF Init
  <2> QED
    BY <1>4, <2>1 DEF Fits, SuitsAt, Sound
<1>6. Proper(active, outer)
  BY <1>1 DEF Init, Proper
<1>7. Runs(stack)
  BY DEF Init, Runs
<1>8. \A k \in 1..Len(conts) : FALSE
  BY <1>1 DEF Init
<1> QED
  BY <1>3, <1>5, <1>6, <1>7, <1>8 DEF WindInv

LEMMA WindStep == ASSUME WindInv, dynamic_wind PROVE WindInv'
<1> DEFINE w == winds + 1
           f == Frame("before", w)
           g == Frame("thunk", w)
           a == Windings(active)
<1>1. /\ active \in Seq(Cell) /\ stack \in Seq(FrameType) /\ winds \in Nat
      /\ outer \in Seq(Seq(Nat)) /\ Len(outer) = winds /\ base \in Seq(Nat)
      /\ conses \in Seq(Nat)
      /\ conts \in Seq(Continuation) /\ a \in Seq(Nat) /\ w \in Nat
      /\ pc = "run"
  BY WindingsFacts DEF WindInv, WindTypes, dynamic_wind
<1>2. /\ winds' = w /\ outer' = Append(outer, a)
      /\ stack' = <<f, g>> \o stack
      /\ active' = active /\ pc' = pc /\ conts' = conts /\ base' = base
      /\ conses' = conses
  BY DEF dynamic_wind
<1>3. /\ outer' \in Seq(Seq(Nat)) /\ Len(outer') = w /\ outer'[w] = a
      /\ \A n \in 1..Len(outer) : outer'[n] = outer[n]
  BY <1>1, <1>2, AppendProperties
<1>4. Grown(outer, outer') /\ Grown(conts, conts)
  BY <1>1, <1>3 DEF Grown
<1>5. /\ \A l : Proper(l, outer) => Proper(l, outer')
      /\ \A s \in Seq(FrameType) : \A v, b :
           Fits(s, v, outer, conts, b) => Fits(s, v, outer', conts, b)
  <2> DEFINE o2 == outer'
  <2>1. o2 \in Seq(Seq(Nat)) /\ Grown(outer, o2)
    BY <1>3, <1>4
  <2> HIDE DEF o2
  <2>2. /\ \A l : Proper(l, outer) => Proper(l, o2)
        /\ \A s \in Seq(FrameType) : \A v, b :
             Fits(s, v, outer, conts, b) => Fits(s, v, o2, conts, b)
    BY <1>1, <1>4, <2>1, Grows
  <2> QED
    BY <2>2 DEF o2
<1>6. Fits(stack, a, outer', conts, base)
  BY <1>1, <1>5 DEF WindInv
<1>7. /\ f \in FrameType /\ f.at = "before" /\ f.w = w
      /\ g \in FrameType /\ g.at = "thunk" /\ g.w = w
  BY <1>1, Frames DEF Ats
<1> HIDE DEF f, g, a, w
<1>8. <<f, g>> \o stack = <<f>> \o (<<g>> \o stack)
  <2>1. f \in FrameType /\ g \in FrameType /\ stack \in Seq(FrameType)
    BY <1>1, <1>7
  <2> QED
    BY ONLY <2>1, ConsTwo
<1> DEFINE s1 == <<g>> \o stack
           o == outer'
           u == <<w>> \o a
<1>9. /\ o[w] = a /\ w \in 1..Len(o)
  BY <1>1, <1>3 DEF w
<1>10. Fits(stack, a, o, conts, base)
  BY <1>6
<1> HIDE DEF o
<1>11. /\ s1 \in Seq(FrameType) /\ Fits(s1, u, o, conts, base)
       /\ s1 # <<>> /\ s1[1] = g
  <2>1. /\ Named(g, o, conts) /\ Suits(g, u, o, conts) /\ Leaves(g, o) = a
    BY <1>7, <1>9 DEF Named, Suits, Leaves
  <2>2. Sound(stack, o, conts, base) /\ SuitsAt(stack, 1, a, o, conts, base)
    BY <1>10 DEF Fits
  <2>3. stack = <<>> \/ stack[1].at # "thunk"
    BY <1>1 DEF WindInv, Runs
  <2> QED
    BY <1>1, <1>7, <2>1, <2>2, <2>3, FitsPush
<1> HIDE DEF s1
<1>12. /\ <<f>> \o s1 \in Seq(FrameType) /\ Fits(<<f>> \o s1, a, o, conts, base)
       /\ (<<f>> \o s1)[1] = f
  <2>1. /\ Named(f, o, conts) /\ Suits(f, a, o, conts) /\ Leaves(f, o) = u
    BY <1>7, <1>9 DEF Named, Suits, Leaves
  <2>2. Sound(s1, o, conts, base) /\ SuitsAt(s1, 1, u, o, conts, base)
    BY <1>11 DEF Fits
  <2> QED
    BY <1>7, <1>11, <2>1, <2>2, FitsPush
<1>13. stack' = <<f>> \o s1
  BY <1>2, <1>8 DEF s1
<1>14. WindTypes'
  BY <1>1, <1>2, <1>3, <1>12, <1>13 DEF WindTypes
<1>15. Fits(stack, Windings(active), outer, conts, base)' /\ Proper(active, outer)'
  <2>1. Proper(active, outer)
    BY DEF WindInv
  <2> QED
    BY <1>2, <1>5, <1>12, <1>13, <2>1 DEF a, o
<1>16. (pc = "run" => Runs(stack))'
  BY <1>7, <1>12, <1>13 DEF Runs
<1>17. (\A k \in 1..Len(conts) :
          /\ Proper(conts[k].ws, outer)
          /\ Fits(conts[k].stack, Windings(conts[k].ws), outer, conts, conts[k].base)
          /\ Runs(conts[k].stack))'
  <2>1. \A k \in 1..Len(conts) : conts[k].stack \in Seq(FrameType)
    BY <1>1, ContType
  <2>2. \A k \in 1..Len(conts) :
          /\ Proper(conts[k].ws, outer)
          /\ Fits(conts[k].stack, Windings(conts[k].ws), outer, conts, conts[k].base)
          /\ Runs(conts[k].stack)
    BY DEF WindInv
  <2> QED
    BY <1>2, <1>5, <2>1, <2>2
<1> QED
  BY <1>14, <1>15, <1>16, <1>17 DEF WindInv

LEMMA ContStep == ASSUME WindInv, call_cc PROVE WindInv'
<1> DEFINE r == [stack |-> stack, ws |-> active, base |-> base]
           c == Append(conts, r)
<1>1. /\ active \in Seq(Cell) /\ stack \in Seq(FrameType) /\ winds \in Nat
      /\ outer \in Seq(Seq(Nat)) /\ base \in Seq(Nat)
      /\ conts \in Seq(Continuation) /\ pc = "run"
  BY DEF WindInv, WindTypes, call_cc
<1>2. /\ winds' = winds /\ outer' = outer /\ stack' = stack /\ active' = active
      /\ pc' = pc /\ conts' = c /\ base' = base /\ conses' = conses
  BY DEF call_cc, counts
<1>3. r \in Continuation
  BY <1>1 DEF Continuation
<1> HIDE DEF r
<1>4. /\ c \in Seq(Continuation) /\ Len(c) = Len(conts) + 1 /\ c[Len(conts) + 1] = r
      /\ \A n \in 1..Len(conts) : c[n] = conts[n]
      /\ Len(conts) \in Nat
  BY <1>1, <1>3, AppendProperties
<1> HIDE DEF c
<1>5. Grown(outer, outer) /\ Grown(conts, c)
  BY <1>1, <1>4 DEF Grown
<1>6. \A s \in Seq(FrameType) : \A v, b :
        Fits(s, v, outer, conts, b) => Fits(s, v, outer, c, b)
  BY <1>1, <1>4, <1>5, Grows
<1>7. /\ Proper(active, outer) /\ Fits(stack, Windings(active), outer, c, base) /\ Runs(stack)
  BY <1>1, <1>6 DEF WindInv
<1>8. \A k \in 1..Len(c) :
        /\ Proper(c[k].ws, outer)
        /\ Fits(c[k].stack, Windings(c[k].ws), outer, c, c[k].base)
        /\ Runs(c[k].stack)
  <2> TAKE k \in 1..Len(c)
  <2>1. CASE k \in 1..Len(conts)
    <3>1. c[k] = conts[k] /\ conts[k].stack \in Seq(FrameType)
      BY <1>1, <1>4, <2>1, ContType
    <3>2. /\ Proper(conts[k].ws, outer)
          /\ Fits(conts[k].stack, Windings(conts[k].ws), outer, conts, conts[k].base)
          /\ Runs(conts[k].stack)
      BY <2>1 DEF WindInv
    <3> QED
      BY <1>6, <3>1, <3>2
  <2>2. CASE k = Len(conts) + 1
    <3>1. c[k].stack = stack /\ c[k].ws = active /\ c[k].base = base
      BY <1>4, <2>2 DEF r
    <3> QED
      BY <1>7, <3>1
  <2> QED
    BY <1>4, <2>1, <2>2
<1>9. WindTypes'
  BY <1>1, <1>2, <1>4 DEF WindTypes, WindInv
<1>10. (\A k \in 1..Len(conts) :
          /\ Proper(conts[k].ws, outer)
          /\ Fits(conts[k].stack, Windings(conts[k].ws), outer, conts, conts[k].base)
          /\ Runs(conts[k].stack))'
  BY <1>2, <1>8
<1>11. /\ Proper(active, outer)' /\ Fits(stack, Windings(active), outer, conts, base)'
       /\ (pc = "run" => Runs(stack))'
  BY <1>2, <1>7
<1> QED
  BY <1>9, <1>10, <1>11 DEF WindInv

LEMMA ReturnStep == ASSUME WindInv, Return PROVE WindInv'
<1>1. /\ UNCHANGED <<conts, counts, outer>> /\ active' = active /\ stack' = stack
      /\ base' = base /\ pc' = "back" /\ conses' = conses
  BY DEF Return
<1>2. /\ active \in Seq(Cell) /\ Proper(active, outer) /\ stack \in Seq(FrameType)
      /\ base \in Seq(Nat) /\ conses \in Seq(Nat) /\ Fits(stack, Windings(active), outer, conts, base)
  BY DEF WindInv, WindTypes
<1> QED
  BY <1>1, <1>2, LibraryStep

(* The top level: nothing waits, what is active is the base.               *)
LEMMA TopLevelStep ==
  ASSUME WindInv, ToTopLevel, conts' = conts, outer' = outer, winds' = winds,
         conses' = conses
  PROVE  WindInv'
<1>1. /\ stack' = <<>> /\ pc' = "run" /\ base' = Windings(active) /\ active' = active
  BY DEF ToTopLevel
<1>2. /\ active \in Seq(Cell) /\ Proper(active, outer) /\ Windings(active) \in Seq(Nat)
      /\ <<>> \in Seq(FrameType)
  BY WindingsFacts DEF WindInv, WindTypes
<1>3. Fits(<<>>, Windings(active), outer, conts, Windings(active)) /\ Runs(<<>>)
  <2>1. Len(<<>>) = 0
    OBVIOUS
  <2>2. 1 > Len(<<>>) /\ \A j \in 1..Len(<<>>) : FALSE
    BY <2>1
  <2> QED
    BY <2>2 DEF Fits, SuitsAt, Sound, Runs
<1>4. WindTypes'
  BY <1>1, <1>2 DEF WindInv, WindTypes
<1>5. \A k \in 1..Len(conts) :
        /\ Proper(conts[k].ws, outer)
        /\ Fits(conts[k].stack, Windings(conts[k].ws), outer, conts, conts[k].base)
        /\ Runs(conts[k].stack)
  BY DEF WindInv
<1>6. (\A k \in 1..Len(conts) :
        /\ Proper(conts[k].ws, outer)
        /\ Fits(conts[k].stack, Windings(conts[k].ws), outer, conts, conts[k].base)
        /\ Runs(conts[k].stack))'
  BY <1>5
<1>7. Proper(active, outer)' /\ Fits(stack, Windings(active), outer, conts, base)'
  BY <1>1, <1>2, <1>3
<1>8. (pc = "run" => Runs(stack))'
  BY <1>1, <1>3
<1> QED
  BY <1>4, <1>6, <1>7, <1>8 DEF WindInv

(* A continuation is called: the frames that get from here to there.       *)
LEMMA CallStep ==
  ASSUME WindInv, NEW k \in 1..Len(conts), CallContinuation(k)
  PROVE  WindInv'
<1> DEFINE ws == conts[k].ws
           shared == shared_tail(ws, active)
           a == Windings(active)
           f == Jump(k)
<1>1. /\ active \in Seq(Cell) /\ stack \in Seq(FrameType) /\ base \in Seq(Nat)
      /\ Proper(active, outer) /\ Sound(stack, outer, conts, base)
      /\ winds \in Nat /\ outer \in Seq(Seq(Nat)) /\ Len(outer) = winds
      /\ conts \in Seq(Continuation) /\ conses \in Seq(Nat)
  BY DEF WindInv, WindTypes, Fits
<1>2. /\ ws \in Seq(Cell) /\ Proper(ws, outer) /\ k \in Nat
  BY <1>1, ContType DEF WindInv
<1>3. /\ shared \in Seq(Cell)
      /\ \E n \in 0..Len(ws) : shared = list_tail(ws, n)
  <2> HIDE DEF ws
  <2> QED
    BY <1>1, <1>2, SharedTail
<1>4. /\ f \in FrameType /\ f.at = "jump" /\ f.w = k
  BY <1>2, Frames DEF Jump, Ats
<1> DEFINE s1 == <<f>> \o stack
<1>5. /\ s1 \in Seq(FrameType) /\ Fits(s1, Windings(ws), outer, conts, base) /\ Jumps(s1)
      /\ s1[1] = f
  <2> HIDE DEF f
  <2>1. Named(f, outer, conts) /\ Suits(f, Windings(ws), outer, conts)
    BY <1>4 DEF Named, Suits
  <2>2. stack = <<>> \/ stack[1].at # "thunk"
    BY DEF WindInv, Runs, CallContinuation
  <2> HIDE DEF ws
  <2> QED
    BY <1>1, <1>4, <2>1, <2>2, FitsPush
<1>6. /\ stack' = (IF ws = active THEN <<f>>
                   ELSE <<Pop(shared), Push(ws, shared), f>>) \o stack
      /\ UNCHANGED <<active, conses, conts, winds, errors, outer, base>> /\ pc' = "back"
  BY DEF CallContinuation
<1>7. stack' \in Seq(FrameType) /\ Fits(stack', a, outer, conts, base)
  <2>1. CASE ws = active
    BY <1>5, <1>6, <2>1
  <2>2. CASE ws # active
    <3> DEFINE g == Push(ws, shared)
               h == Pop(shared)
    <3> HIDE DEF shared
    <3>1. /\ g \in FrameType /\ g.at = "push" /\ g.ws = ws /\ g.shared = shared
          /\ h \in FrameType /\ h.at = "pop" /\ h.shared = shared
      BY <1>2, <1>3, Frames
    <3> HIDE DEF f, g, h
    <3>2. <<h, g, f>> \o stack = <<h>> \o (<<g>> \o (<<f>> \o stack))
      <4>1. /\ f \in FrameType /\ g \in FrameType /\ h \in FrameType
            /\ stack \in Seq(FrameType)
        BY <1>1, <1>4, <3>1
      <4> QED
        BY ONLY <4>1, ConsThree
    <3> HIDE DEF ws, s1
    <3> DEFINE s2 == <<g>> \o s1
    <3>3. /\ s2 \in Seq(FrameType) /\ Fits(s2, Windings(shared), outer, conts, base)
          /\ Jumps(s2) /\ s2[1] = g
      <4>1. /\ Named(g, outer, conts) /\ Suits(g, Windings(shared), outer, conts)
            /\ Leaves(g, outer) = Windings(ws)
        BY <1>2, <1>3, <3>1 DEF Named, Suits, Leaves
      <4>2. Sound(s1, outer, conts, base) /\ SuitsAt(s1, 1, Windings(ws), outer, conts, base)
        BY <1>5 DEF Fits
      <4> QED
        BY <1>4, <1>5, <3>1, <4>1, <4>2, FitsPush
    <3> HIDE DEF s2
    <3>4. <<h>> \o s2 \in Seq(FrameType) /\ Fits(<<h>> \o s2, a, outer, conts, base)
      <4>1. /\ Named(h, outer, conts) /\ Suits(h, a, outer, conts)
            /\ Leaves(h, outer) = Windings(shared)
        BY <3>1 DEF Named, Suits, Leaves
      <4>2. Sound(s2, outer, conts, base) /\ SuitsAt(s2, 1, Windings(shared), outer, conts, base)
        BY <3>3 DEF Fits
      <4> QED
        BY <3>1, <3>3, <4>1, <4>2, FitsPush
    <3>5. stack' = <<h>> \o s2
      BY <1>6, <2>2, <3>2 DEF s1, s2, g, h
    <3> QED
      BY <3>4, <3>5
  <2> QED
    BY <2>1, <2>2
<1> HIDE DEF ws, shared, f
<1>8. WindTypes'
  BY <1>1, <1>6, <1>7 DEF WindTypes
<1>9. \A n \in 1..Len(conts) :
        /\ Proper(conts[n].ws, outer)
        /\ Fits(conts[n].stack, Windings(conts[n].ws), outer, conts, conts[n].base)
        /\ Runs(conts[n].stack)
  BY DEF WindInv
<1>10. (\A n \in 1..Len(conts) :
         /\ Proper(conts[n].ws, outer)
         /\ Fits(conts[n].stack, Windings(conts[n].ws), outer, conts, conts[n].base)
         /\ Runs(conts[n].stack))'
  BY <1>6, <1>9
<1>11. Proper(active, outer)' /\ Fits(stack, Windings(active), outer, conts, base)'
  BY <1>1, <1>6, <1>7 DEF a
<1>12. (pc = "run" => Runs(stack))'
  BY <1>6
<1> QED
  BY <1>8, <1>10, <1>11, <1>12 DEF WindInv

(* Control comes back to s, which fits what is active.                     *)
LEMMA GoesStep ==
  ASSUME WindInv, NEW s \in Seq(FrameType), NEW p \in {"run", "back"}, Goes(s, p),
         p = "run" => Runs(s),
         active' \in Seq(Cell), Proper(active', outer), base' \in Seq(Nat),
         conses' \in Seq(Nat),
         Fits(s, Windings(active'), outer, conts, base')
  PROVE  WindInv'
<1>1. /\ UNCHANGED <<conts, counts, outer>> /\ stack' = s /\ pc' \in {"run", "back"}
      /\ pc' = "run" => s = <<>> \/ p = "run"
  BY DEF Goes
<1>2. pc' = "run" => Runs(stack')
  BY <1>1 DEF Runs
<1> QED
  BY <1>1, <1>2, LibraryStep

(* The winding is active around its thunk.                                 *)
LEMMA ActivateStep == ASSUME WindInv, Activate PROVE WindInv'
<1> DEFINE w == stack[1].w
           c == [id |-> Len(conses'), w |-> w]
<1>1. /\ stack # <<>> /\ stack[1].at = "before"
      /\ conses' = Append(conses, w) /\ active' = <<c>> \o active
      /\ Goes(Tail(stack), "back") /\ base' = base
  BY DEF Activate, Top
<1>2. /\ stack[1] \in FrameType /\ Named(stack[1], outer, conts)
      /\ Suits(stack[1], Windings(active), outer, conts)
      /\ SuitsAt(Tail(stack), 1, Leaves(stack[1], outer), outer, conts, base)
      /\ Sound(Tail(stack), outer, conts, base) /\ Tail(stack) \in Seq(FrameType)
      /\ active \in Seq(Cell) /\ Proper(active, outer) /\ base \in Seq(Nat)
      /\ conses \in Seq(Nat)
  BY <1>1, TopFrame
<1>3. /\ w \in 1..Len(outer) /\ outer[w] = Windings(active) /\ w \in Nat
      /\ Leaves(stack[1], outer) = <<w>> \o outer[w]
  BY <1>1, <1>2 DEF Named, Suits, Leaves, FrameType
<1>4. /\ conses' \in Seq(Nat) /\ c \in Cell /\ c.w = w
  BY <1>1, <1>2, <1>3 DEF Cell
<1> HIDE DEF c, w
<1>5. active' \in Seq(Cell) /\ Proper(active', outer) /\ Windings(active') = <<w>> \o outer[w]
  <2> DEFINE l == <<c>> \o active
  <2>1. l \in Seq(Cell) /\ Proper(l, outer) /\ Windings(l) = <<c.w>> \o Windings(active)
    <3>1. l \in Seq(Cell)
      BY <1>2, <1>4, Cons
    <3>2. Proper(l, outer)
      BY <1>2, <1>3, <1>4, ProperCons
    <3>3. Windings(l) = <<c.w>> \o Windings(active)
      BY <1>2, <1>4, WindingsCons
    <3> QED
      BY <3>1, <3>2, <3>3
  <2> QED
    BY <1>1, <1>3, <1>4, <2>1
<1>6. Fits(Tail(stack), Windings(active'), outer, conts, base')
  BY <1>1, <1>2, <1>3, <1>5 DEF Fits
<1> QED
  BY <1>1, <1>2, <1>4, <1>5, <1>6, GoesStep

(* One frame in place of another, that finds the same windings active.     *)
LEMMA ReplaceStep ==
  ASSUME WindInv, stack # <<>>, NEW f \in FrameType, NEW p \in {"run", "back"},
         Stays(<<f>> \o Tail(stack), p),
         p = "run" => f.at \in {"before", "result", "after"},
         Named(f, outer, conts), Suits(f, Windings(active), outer, conts),
         f.at # "jump", stack[1].at \notin {"jump", "before"}, Leaves(f, outer) = Leaves(stack[1], outer),
         f.at \in {"push", "pop", "enter"} => Jumps(Tail(stack)),
         f.at = "before" => Jumps(Tail(stack))
  PROVE  WindInv'
<1>1. /\ Goes(<<f>> \o Tail(stack), p) /\ active' = active /\ conses' = conses /\ base' = base
  BY DEF Stays
<1>2. /\ SuitsAt(Tail(stack), 1, Leaves(f, outer), outer, conts, base)
      /\ Sound(Tail(stack), outer, conts, base) /\ Tail(stack) \in Seq(FrameType)
      /\ active \in Seq(Cell) /\ Proper(active, outer) /\ base \in Seq(Nat)
      /\ conses \in Seq(Nat)
      /\ Tail(stack) = <<>> \/ Tail(stack)[1].at # "thunk"
  BY TopFrame
<1> DEFINE s == Tail(stack)
           z == <<f>> \o s
           a == Windings(active)
<1>3. z \in Seq(FrameType) /\ Fits(z, a, outer, conts, base) /\ z[1] = f
  <2>1. /\ s \in Seq(FrameType) /\ Sound(s, outer, conts, base)
        /\ SuitsAt(s, 1, Leaves(f, outer), outer, conts, base)
        /\ Suits(f, a, outer, conts)
        /\ f.at \in {"push", "pop", "enter"} => Jumps(s)
        /\ f.at = "before" => Jumps(s)
        /\ s = <<>> \/ s[1].at # "thunk"
    BY <1>2
  <2> HIDE DEF s, a
  <2> QED
    BY <2>1, FitsPush
<1>4. p = "run" => Runs(z)
  BY <1>3 DEF Runs
<1> QED
  BY <1>1, <1>2, <1>3, <1>4, GoesStep

LEMMA ThunkStep == ASSUME WindInv, CallThunk PROVE WindInv'
<1> DEFINE f == Frame("result", stack[1].w)
<1>1. /\ stack # <<>> /\ stack[1].at = "thunk"
      /\ Stays(<<f>> \o Tail(stack), "run")
  BY DEF CallThunk, Top
<1>2. /\ stack[1] \in FrameType /\ Named(stack[1], outer, conts)
      /\ Suits(stack[1], Windings(active), outer, conts)
  BY <1>1, TopFrame
<1>3. f \in FrameType /\ f.at = "result" /\ f.w = stack[1].w
  <2>1. stack[1].w \in Nat
    BY <1>2 DEF FrameType
  <2> QED
    BY <2>1, Frames DEF Ats
<1> HIDE DEF f
<1>4. Named(f, outer, conts) /\ Suits(f, Windings(active), outer, conts)
  BY <1>1, <1>2, <1>3 DEF Named, Suits
<1>5. Leaves(f, outer) = Leaves(stack[1], outer)
  BY <1>1, <1>3 DEF Leaves
<1> QED
  BY <1>1, <1>3, <1>4, <1>5, ReplaceStep

(* activate-winding! for push-many calls the before thunk.                 *)
LEMMA EnterStep == ASSUME WindInv, Enter PROVE WindInv'
<1> DEFINE f == Frame("before", stack[1].w)
<1>1. /\ stack # <<>> /\ stack[1].at = "enter"
      /\ Stays(<<f>> \o Tail(stack), "run")
  BY DEF Enter, Top
<1>2. /\ stack[1] \in FrameType /\ Named(stack[1], outer, conts)
      /\ Suits(stack[1], Windings(active), outer, conts) /\ Jumps(Tail(stack))
  BY <1>1, TopFrame
<1>3. f \in FrameType /\ f.at = "before" /\ f.w = stack[1].w
  <2>1. stack[1].w \in Nat
    BY <1>2 DEF FrameType
  <2> QED
    BY <2>1, Frames DEF Ats
<1> HIDE DEF f
<1>4. Named(f, outer, conts) /\ Suits(f, Windings(active), outer, conts)
  BY <1>1, <1>2, <1>3 DEF Named, Suits
<1>5. Leaves(f, outer) = Leaves(stack[1], outer)
  BY <1>1, <1>3 DEF Leaves
<1> QED
  BY <1>1, <1>2, <1>3, <1>4, <1>5, ReplaceStep

(* A frame that is done leaves active what suits the next.                 *)
LEMMA DoneStep ==
  ASSUME WindInv, stack # <<>>, Stays(Tail(stack), "back"), stack[1].at # "jump",
         Leaves(stack[1], outer) = Windings(active)
  PROVE  WindInv'
<1>1. /\ Goes(Tail(stack), "back") /\ active' = active /\ conses' = conses /\ base' = base
  BY DEF Stays
<1>2. /\ SuitsAt(Tail(stack), 1, Leaves(stack[1], outer), outer, conts, base)
      /\ Sound(Tail(stack), outer, conts, base) /\ Tail(stack) \in Seq(FrameType)
      /\ active \in Seq(Cell) /\ Proper(active, outer) /\ base \in Seq(Nat)
      /\ conses \in Seq(Nat)
  BY TopFrame
<1>3. Fits(Tail(stack), Windings(active), outer, conts, base)
  BY <1>2 DEF Fits
<1> QED
  BY <1>1, <1>2, <1>3, GoesStep

LEMMA AfterStep == ASSUME WindInv, AfterReturned PROVE WindInv'
<1>1. stack # <<>> /\ stack[1].at = "after" /\ Stays(Tail(stack), "back")
  BY DEF AfterReturned, Top
<1>2. Suits(stack[1], Windings(active), outer, conts)
  BY <1>1, TopFrame
<1>3. Leaves(stack[1], outer) = Windings(active)
  BY <1>1, <1>2 DEF Suits, Leaves
<1> QED
  BY <1>1, <1>3, DoneStep

(* The after thunk is called when its winding is no longer active; what    *)
(* waits for it is suited by what was active outside.                      *)
LEMMA DeactivateStep ==
  ASSUME WindInv, active # <<>>, NEW s \in Seq(FrameType), Sound(s, outer, conts, base),
         SuitsAt(s, 1, Windings(Tail(active)), outer, conts, base),
         s = <<>> \/ s[1].at # "thunk",
         deactivate_top_winding(s)
  PROVE  WindInv'
<1> DEFINE w == active[1].w
           f == Frame("after", w)
           l == Tail(active)
<1>1. /\ active' = l /\ Goes(<<f>> \o s, "run") /\ conses' = conses /\ base' = base
  BY DEF deactivate_top_winding
<1>2. /\ active \in Seq(Cell) /\ Proper(active, outer) /\ base \in Seq(Nat)
      /\ conses \in Seq(Nat)
  BY DEF WindInv, WindTypes
<1>3. /\ l \in Seq(Cell) /\ Proper(l, outer) /\ w \in Nat
      /\ w \in 1..Len(outer) /\ outer[w] = Windings(l)
  BY <1>2, ProperRest
<1>4. f \in FrameType /\ f.at = "after" /\ f.w = w
  BY <1>3, Frames DEF Ats
<1> DEFINE z == <<f>> \o s
<1>5. z \in Seq(FrameType) /\ Fits(z, Windings(l), outer, conts, base) /\ z[1] = f
  <2> HIDE DEF f, w
  <2>1. /\ Named(f, outer, conts) /\ Suits(f, Windings(l), outer, conts)
        /\ Leaves(f, outer) = Windings(l)
    BY <1>3, <1>4 DEF Named, Suits, Leaves
  <2>2. SuitsAt(s, 1, Leaves(f, outer), outer, conts, base)
    BY <2>1
  <2> HIDE DEF l
  <2> QED
    BY <1>4, <2>1, <2>2, FitsPush
<1> HIDE DEF f, w, l
<1>6. Runs(z)
  BY <1>4, <1>5 DEF Runs
<1> QED
  BY <1>1, <1>2, <1>3, <1>5, <1>6, GoesStep

(* The thunk has returned: its own winding is the first that is active.    *)
LEMMA ResultStep == ASSUME WindInv, ThunkReturned PROVE WindInv'
<1> DEFINE s == Tail(stack)
           w == stack[1].w
<1>1. stack # <<>> /\ stack[1].at = "result" /\ deactivate_top_winding(s)
  BY DEF ThunkReturned, Top
<1>2. /\ stack[1] \in FrameType /\ Named(stack[1], outer, conts)
      /\ Suits(stack[1], Windings(active), outer, conts)
      /\ SuitsAt(s, 1, Leaves(stack[1], outer), outer, conts, base)
      /\ Sound(s, outer, conts, base) /\ s \in Seq(FrameType)
      /\ active \in Seq(Cell) /\ Proper(active, outer) /\ Windings(active) \in Seq(Nat)
      /\ s = <<>> \/ s[1].at # "thunk"
  BY <1>1, TopFrame
<1>3. /\ Windings(active) = <<w>> \o outer[w] /\ Leaves(stack[1], outer) = outer[w]
      /\ w \in Nat /\ w \in 1..Len(outer)
  BY <1>1, <1>2 DEF Suits, Leaves, FrameType, Named
<1>4. outer \in Seq(Seq(Nat)) /\ outer[w] \in Seq(Nat)
  BY <1>3 DEF WindInv, WindTypes
<1> HIDE DEF s, w
<1>5. /\ (<<w>> \o outer[w])[1] = w /\ Len(<<w>> \o outer[w]) = Len(outer[w]) + 1
      /\ Len(outer[w]) \in Nat
  BY <1>3, <1>4, Cons
<1>6. Len(Windings(active)) = Len(active) /\ \A k \in 1..Len(active) : Windings(active)[k] = active[k].w
  BY <1>2, WindingsFacts
<1>7. active # <<>> /\ active[1].w = w
  <2>1. Len(active) = Len(outer[w]) + 1 /\ Len(active) \in Nat
    BY <1>2, <1>3, <1>5, <1>6
  <2>2. active # <<>> /\ 1 \in 1..Len(active)
    BY <1>2, <1>5, <2>1
  <2> QED
    BY <1>3, <1>5, <1>6, <2>2
<1>8. Windings(Tail(active)) = outer[w]
  BY <1>2, <1>7, ProperRest
<1> QED
  BY <1>1, <1>2, <1>3, <1>7, <1>8, DeactivateStep

(* An error at the empty list, or the next after thunk, after which        *)
(* pop-many takes whatever is active.                                      *)
LEMMA PopStep == ASSUME WindInv, pop_many PROVE WindInv'
<1>1. stack # <<>> /\ stack[1].at = "pop"
  BY DEF pop_many, Top
<1>2. /\ stack[1] \in FrameType /\ stack \in Seq(FrameType)
      /\ Sound(stack, outer, conts, base)
      /\ active \in Seq(Cell) /\ Proper(active, outer)
  BY <1>1, TopFrame
<1>3. CASE active = stack[1].shared
  <2>1. Stays(Tail(stack), "back")
    BY <1>3 DEF pop_many
  <2>2. Leaves(stack[1], outer) = Windings(active)
    BY <1>1, <1>3 DEF Leaves
  <2> QED
    BY <1>1, <2>1, <2>2, DoneStep
<1>4. CASE active # stack[1].shared /\ active = <<>>
  <2>1. ToTopLevel /\ UNCHANGED <<conses, conts, counts, outer>>
    BY <1>4 DEF pop_many, deactivate_top_winding
  <2> QED
    BY <2>1, TopLevelStep DEF counts
<1>5. CASE active # stack[1].shared /\ active # <<>>
  <2>1. deactivate_top_winding(stack)
    BY <1>5 DEF pop_many
  <2>2. SuitsAt(stack, 1, Windings(Tail(active)), outer, conts, base)
    <3>1. ~(1 > Len(stack))
      BY <1>1, <1>2
    <3> QED
      BY <1>1, <3>1 DEF SuitsAt, Suits
  <2> QED
    BY <1>1, <1>2, <1>5, <2>1, <2>2, DeactivateStep
<1> QED
  BY <1>3, <1>4, <1>5

(* An end of a list that is not the list is an end of its rest.            *)
LEMMA EndOfRest ==
  ASSUME NEW l \in Seq(Cell), NEW n \in 0..Len(l), list_tail(l, n) # l
  PROVE  /\ l # <<>> /\ n \in 0..Len(Tail(l))
         /\ list_tail(Tail(l), n) = list_tail(l, n)
<1>1. Len(l) \in Nat /\ n \in Nat
  OBVIOUS
<1>2. n # Len(l)
  <2>1. Len(l) - Len(l) + 1 = 1 /\ SubSeq(l, 1, Len(l)) = l
    BY <1>1, SubSeqFull
  <2> QED
    BY <2>1 DEF list_tail
<1>3. l # <<>>
  BY <1>1, <1>2
<1> DEFINE t == Tail(l)
<1>4. /\ t \in Seq(Cell) /\ Len(t) = Len(l) - 1 /\ Len(l) \in Nat \ {0}
      /\ \A j \in 1..(Len(l) - 1) : t[j] = l[j + 1]
  BY <1>3, Rest
<1> HIDE DEF t
<1>5. n \in 0..Len(t)
  BY <1>1, <1>2, <1>4
<1> DEFINE x == SubSeq(t, Len(t) - n + 1, Len(t))
           y == SubSeq(l, Len(l) - n + 1, Len(l))
           i == Len(t) - n + 1
           j == Len(l) - n + 1
<1>6. /\ i \in 1..(Len(t) + 1) /\ j \in 1..(Len(l) + 1) /\ j = i + 1
      /\ Len(t) - i + 1 = n /\ Len(l) - j + 1 = n
  BY <1>1, <1>4, <1>5
<1> HIDE DEF i, j
<1>7. /\ x \in Seq(Cell) /\ Len(x) = n
      /\ \A k \in 1..n : x[k] = t[i + k - 1]
  BY <1>4, <1>6, Slice DEF i
<1>8. /\ y \in Seq(Cell) /\ Len(y) = n
      /\ \A k \in 1..n : y[k] = l[j + k - 1]
  BY <1>6, Slice DEF j
<1>9. \A k \in 1..n : t[i + k - 1] = l[j + k - 1]
  <2> TAKE k \in 1..n
  <2>1. i + k - 1 \in 1..(Len(l) - 1) /\ (i + k - 1) + 1 = j + k - 1
    BY <1>1, <1>4, <1>5, <1>6 DEF i, j
  <2> QED
    BY <1>4, <2>1
<1> HIDE DEF x, y
<1>10. x = y
  BY <1>7, <1>8, <1>9, SeqEqual
<1> QED
  BY <1>3, <1>5, <1>10 DEF x, y, t, list_tail

(* push-many enters what is behind the first winding first.                *)
LEMMA PushStep == ASSUME WindInv, push_many PROVE WindInv'
<1> DEFINE ws == stack[1].ws
           shared == stack[1].shared
           s == Tail(stack)
           a == Windings(active)
<1>1. /\ stack # <<>> /\ stack[1].at = "push"
      /\ Stays((IF ws = shared THEN <<>>
                ELSE <<Push(Tail(ws), shared), Frame("enter", ws[1].w)>>) \o s, "back")
  BY DEF push_many, Top
<1>2. /\ stack[1] \in FrameType /\ Named(stack[1], outer, conts)
      /\ Suits(stack[1], a, outer, conts)
      /\ SuitsAt(s, 1, Leaves(stack[1], outer), outer, conts, base)
      /\ Sound(s, outer, conts, base) /\ s \in Seq(FrameType) /\ Jumps(s)
      /\ active \in Seq(Cell) /\ Proper(active, outer) /\ base \in Seq(Nat)
      /\ conses \in Seq(Nat)
      /\ s = <<>> \/ s[1].at # "thunk"
  BY <1>1, TopFrame
<1>3. /\ ws \in Seq(Cell) /\ shared \in Seq(Cell) /\ Proper(ws, outer)
      /\ a = Windings(shared) /\ Leaves(stack[1], outer) = Windings(ws)
      /\ \E n \in 0..Len(ws) : shared = list_tail(ws, n)
  BY <1>1, <1>2 DEF Named, Suits, Leaves, FrameType
<1>4. CASE ws = shared
  <2>1. Stays(s, "back")
    <3>1. <<>> \o s = s
      BY <1>2, ConcatEmptySeq
    <3> QED
      BY <1>1, <1>4, <3>1
  <2> QED
    BY <1>1, <1>3, <1>4, <2>1, DoneStep
<1>5. CASE ws # shared
  <2> DEFINE t == Tail(ws)
             w == ws[1].w
             f == Frame("enter", w)
             g == Push(t, shared)
  <2>1. /\ Stays(<<g, f>> \o s, "back")
    BY <1>1, <1>5
  <2>2. PICK n \in 0..Len(ws) : shared = list_tail(ws, n)
    BY <1>3
  <2> HIDE DEF ws, shared
  <2>3. ws # <<>> /\ n \in 0..Len(t) /\ shared = list_tail(t, n)
    BY <1>3, <1>5, <2>2, EndOfRest
  <2>4. /\ t \in Seq(Cell) /\ Proper(t, outer) /\ w \in 1..Len(outer) /\ w \in Nat
        /\ outer[w] = Windings(t) /\ Windings(ws) = <<w>> \o outer[w]
    BY <1>3, <2>3, ProperRest
  <2>5. /\ f \in FrameType /\ f.at = "enter" /\ f.w = w
        /\ g \in FrameType /\ g.at = "push" /\ g.ws = t /\ g.shared = shared
    <3> HIDE DEF t, w
    <3>1. f \in FrameType /\ f.at = "enter" /\ f.w = w
      BY <2>4, Frames DEF Ats
    <3>2. g \in FrameType /\ g.at = "push" /\ g.ws = t /\ g.shared = shared
      BY <1>3, <2>4, Frames
    <3> QED
      BY <3>1, <3>2
  <2> HIDE DEF f, g, t, w, s
  <2>6. <<g, f>> \o s = <<g>> \o (<<f>> \o s)
    <3>1. g \in FrameType /\ f \in FrameType /\ s \in Seq(FrameType)
      BY <1>2, <2>5
    <3> QED
      BY ONLY SMTT(40), <3>1, ConsTwo
  <2> DEFINE s1 == <<f>> \o s
  <2>7. /\ s1 \in Seq(FrameType) /\ Fits(s1, Windings(t), outer, conts, base) /\ Jumps(s1)
         /\ s1[1] = f
    <3>1. /\ Named(f, outer, conts) /\ Suits(f, Windings(t), outer, conts)
          /\ Leaves(f, outer) = Windings(ws)
      BY <2>4, <2>5 DEF Named, Suits, Leaves
    <3>2. SuitsAt(s, 1, Leaves(f, outer), outer, conts, base)
      BY <1>2, <1>3, <3>1
    <3> QED
      BY <1>2, <2>5, <3>1, <3>2, FitsPush
  <2> HIDE DEF s1
  <2>8. <<g>> \o s1 \in Seq(FrameType) /\ Fits(<<g>> \o s1, a, outer, conts, base)
    <3>1. /\ Named(g, outer, conts) /\ Suits(g, a, outer, conts)
          /\ Leaves(g, outer) = Windings(t)
      BY <1>3, <2>3, <2>4, <2>5 DEF Named, Suits, Leaves
    <3>2. Sound(s1, outer, conts, base) /\ SuitsAt(s1, 1, Leaves(g, outer), outer, conts, base)
      BY <2>7, <3>1 DEF Fits
    <3> QED
      BY <2>5, <2>7, <3>1, <3>2, FitsPush
  <2> DEFINE z == <<g>> \o s1
  <2>9. /\ Goes(z, "back") /\ active' = active /\ conses' = conses /\ base' = base
    BY <2>1, <2>6 DEF Stays, s1
  <2>10. z \in Seq(FrameType) /\ Fits(z, Windings(active'), outer, conts, base')
    BY <2>8, <2>9
  <2> HIDE DEF z
  <2> QED
    BY <1>2, <2>9, <2>10, GoesStep
<1> QED
  BY <1>4, <1>5

(* The continuation is resumed where its windings are active.              *)
LEMMA ArriveStep == ASSUME WindInv, Arrive PROVE WindInv'
<1> DEFINE k == stack[1].w
<1>1. /\ stack # <<>> /\ stack[1].at = "jump"
      /\ Goes(conts[k].stack, "run") /\ base' = conts[k].base
      /\ active' = active /\ conses' = conses
  BY DEF Arrive, Top
<1>2. /\ Named(stack[1], outer, conts)
      /\ Suits(stack[1], Windings(active), outer, conts)
      /\ active \in Seq(Cell) /\ Proper(active, outer)
      /\ conses \in Seq(Nat)
  BY <1>1, TopFrame
<1>3. k \in 1..Len(conts) /\ Windings(active) = Windings(conts[k].ws)
  BY <1>1, <1>2 DEF Named, Suits
<1>4. /\ conts[k].stack \in Seq(FrameType) /\ conts[k].base \in Seq(Nat)
      /\ Fits(conts[k].stack, Windings(conts[k].ws), outer, conts, conts[k].base)
      /\ Runs(conts[k].stack)
  BY <1>3, ContType DEF WindInv, WindTypes
<1> DEFINE s == conts[k].stack
<1>5. /\ s \in Seq(FrameType) /\ Fits(s, Windings(active'), outer, conts, base') /\ Runs(s)
      /\ base' \in Seq(Nat) /\ Goes(s, "run")
  BY <1>1, <1>3, <1>4
<1> HIDE DEF s
<1> QED
  BY <1>1, <1>2, <1>5, GoesStep

LEMMA ErrorStep == ASSUME WindInv, Error PROVE WindInv'
  BY TopLevelStep DEF Error

LEMMA WindStutter == ASSUME WindInv, UNCHANGED vars PROVE WindInv'
<1>1. /\ active' = active /\ conses' = conses /\ stack' = stack /\ pc' = pc
      /\ conts' = conts /\ winds' = winds /\ outer' = outer /\ base' = base
  BY DEF vars
<1> QED
  BY <1>1 DEF WindInv, WindTypes

LEMMA WindAlways == Spec => []WindInv
<1>1. ASSUME WindInv, [Next]_vars PROVE WindInv'
  <2>1. CASE dynamic_wind
    BY <1>1, <2>1, WindStep
  <2>2. CASE call_cc
    BY <1>1, <2>2, ContStep
  <2>3. CASE Return
    BY <1>1, <2>3, ReturnStep
  <2>4. CASE Error
    BY <1>1, <2>4, ErrorStep
  <2>5. ASSUME NEW k \in 1..Len(conts), CallContinuation(k) PROVE WindInv'
    BY <1>1, <2>5, CallStep
  <2>6. CASE Activate
    BY <1>1, <2>6, ActivateStep
  <2>7. CASE CallThunk
    BY <1>1, <2>7, ThunkStep
  <2>8. CASE ThunkReturned
    BY <1>1, <2>8, ResultStep
  <2>9. CASE AfterReturned
    BY <1>1, <2>9, AfterStep
  <2>10. CASE pop_many
    BY <1>1, <2>10, PopStep
  <2>11. CASE push_many
    BY <1>1, <2>11, PushStep
  <2>12. CASE Enter
    BY <1>1, <2>12, EnterStep
  <2>13. CASE Arrive
    BY <1>1, <2>13, ArriveStep
  <2>14. CASE UNCHANGED vars
    BY <1>1, <2>14, WindStutter
  <2> QED
    BY <1>1, <2>1, <2>2, <2>3, <2>4, <2>5, <2>6, <2>7, <2>8, <2>9, <2>10, <2>11,
       <2>12, <2>13, <2>14 DEF Next, Program, Library
<1> QED
  BY <1>1, InitWind, PTL DEF Spec

(* The windings of the n last frames: Around is defined by recursion on n, *)
(* and there is a function that satisfies its definition.                  *)
In(s, f) ==
  f = [n \in 0..Len(s) |->
        IF n = 0 THEN <<>>
        ELSE LET g == s[Len(s) + 1 - n]
             IN  (IF g.at = "result" THEN <<g.w>> ELSE <<>>) \o f[n - 1]]

LEMMA AroundFunction ==
  ASSUME NEW s \in Seq(FrameType)
  PROVE  \E f : In(s, f) /\ Around(s) = f[Len(s)]
<1> DEFINE L == Len(s)
           own(n) == LET g == s[L + 1 - n] IN IF g.at = "result" THEN <<g.w>> ELSE <<>>
           P(m, f) == f = [n \in 0..m |-> IF n = 0 THEN <<>> ELSE own(n) \o f[n - 1]]
           T == {m \in 0..L : \E f : P(m, f)}
<1>1. L \in Nat
  OBVIOUS
<1> HIDE DEF L
<1>2. 0 \in T
  <2> DEFINE z == [n \in 0..0 |-> <<>>]
  <2>1. z = [n \in 0..0 |-> IF n = 0 THEN <<>> ELSE own(n) \o z[n - 1]]
    OBVIOUS
  <2> HIDE DEF z, own
  <2>2. P(0, z) /\ 0 \in 0..L
    BY <1>1, <2>1
  <2> QED
    BY <2>2
<1>3. ASSUME NEW m \in 0..L, m \in T, m < L PROVE m + 1 \in T
  <2>1. PICK f : P(m, f)
    BY <1>3
  <2> HIDE DEF own
  <2> DEFINE h == [n \in 0..(m + 1) |-> IF n <= m THEN f[n] ELSE own(n) \o f[m]]
             k == [n \in 0..(m + 1) |-> IF n = 0 THEN <<>> ELSE own(n) \o h[n - 1]]
  <2>2. \A n \in 0..(m + 1) : h[n] = k[n]
    <3> TAKE n \in 0..(m + 1)
    <3>1. CASE n = 0
      <4>1. 0 \in 0..m /\ 0 <= m /\ 0 \in 0..(m + 1)
        BY <1>1
      <4>2. f[0] = <<>> /\ h[0] = f[0] /\ k[0] = <<>>
        BY <2>1, <4>1
      <4> QED
        BY <3>1, <4>2
    <3>2. CASE n \in 1..m
      <4>1. n \in 0..m /\ n - 1 \in 0..m /\ n # 0 /\ n <= m /\ n - 1 <= m /\ n - 1 \in 0..(m + 1)
        BY <1>1, <3>2
      <4>2. f[n] = own(n) \o f[n - 1]
        BY <2>1, <4>1
      <4>3. h[n] = f[n] /\ h[n - 1] = f[n - 1]
        BY <4>1
      <4>4. k[n] = own(n) \o h[n - 1]
        BY <4>1
      <4> QED
        BY <4>2, <4>3, <4>4
    <3>3. CASE n = m + 1
      <4>1. n # 0 /\ ~(n <= m) /\ n - 1 = m /\ m <= m /\ m \in 0..(m + 1)
        BY <1>1, <3>3
      <4>2. h[n] = own(n) \o f[m] /\ h[m] = f[m]
        BY <4>1
      <4>3. k[n] = own(n) \o h[n - 1]
        BY <4>1
      <4> QED
        BY <4>1, <4>2, <4>3
    <3> QED
      BY <1>1, <3>1, <3>2, <3>3
  <2>3. h = k
    <3>1. h = [n \in 0..(m + 1) |-> h[n]] /\ k = [n \in 0..(m + 1) |-> k[n]]
      OBVIOUS
    <3> HIDE DEF h, k
    <3> QED
      BY <2>2, <3>1
  <2>4. P(m + 1, h)
    BY <2>3
  <2>5. m + 1 \in 0..L
    BY <1>1, <1>3
  <2> QED
    BY <2>4, <2>5
<1>4. L \in T
  <2> HIDE DEF T
  <2>1. 0 \in Nat /\ \A c \in 0..L : c \in T /\ c < L => c + 1 \in T
    BY <1>3
  <2>2. \A c \in 0..L : c \in T
    BY <1>1, <1>2, <2>1, Upwards
  <2> QED
    BY <1>1, <2>2
<1>5. \E f : In(s, f)
  <2>1. PICK f : P(L, f)
    BY <1>4
  <2>2. In(s, f)
    BY <2>1 DEF In, L
  <2> QED
    BY <2>2
<1>6. Around(s) = (CHOOSE f : In(s, f))[Len(s)]
  BY DEF Around, In
<1> DEFINE f == CHOOSE f : In(s, f)
<1>7. In(s, f)
  BY <1>5
<1> QED
  BY <1>6, <1>7

LEMMA SameRest ==
  ASSUME NEW w \in Nat, NEW x \in Seq(Nat), NEW y \in Seq(Nat), <<w>> \o x = <<w>> \o y
  PROVE  x = y
<1>1. /\ Len(<<w>> \o x) = Len(x) + 1 /\ Len(x) \in Nat
      /\ \A j \in 1..Len(x) : (<<w>> \o x)[j + 1] = x[j]
  BY Cons
<1>2. /\ Len(<<w>> \o y) = Len(y) + 1 /\ Len(y) \in Nat
      /\ \A j \in 1..Len(y) : (<<w>> \o y)[j + 1] = y[j]
  BY Cons
<1>3. Len(x) = Len(y)
  BY <1>1, <1>2
<1>4. \A j \in 1..Len(x) : x[j] = y[j]
  BY <1>1, <1>2, <1>3
<1> QED
  BY <1>3, <1>4, SeqEqual

(* The frames of a stack on which nobody switches, from the last one up:   *)
(* what suits a frame are the windings of the thunks that wait from there  *)
(* on and then the base.                                                   *)
LEMMA AroundSuits ==
  ASSUME NEW s \in Seq(FrameType), NEW o \in Seq(Seq(Nat)), NEW c, NEW b \in Seq(Nat), NEW v,
         Fits(s, v, o, c, b), Runs(s),
         \A k \in 1..Len(s) : s[k].at \notin {"pop", "push", "jump"}
  PROVE  v = Around(s) \o b
<1> DEFINE L == Len(s)
<1>1. /\ L \in Nat
      /\ \A j \in 1..L : s[j].at \in {"before", "after", "thunk", "result", "enter"} /\ s[j].w \in Nat
  <2>1. \A j \in 1..L : s[j] \in FrameType
    BY ElementOfSeq
  <2> QED
    BY SMTT(40), <2>1 DEF FrameType, Ats
<1>2. PICK f : In(s, f) /\ Around(s) = f[L]
  BY AroundFunction
<1> HIDE DEF L
<1>3. /\ f[0] = <<>>
      /\ \A n \in 1..L : f[n] = (IF s[L + 1 - n].at = "result" THEN <<s[L + 1 - n].w>> ELSE <<>>)
                                \o f[n - 1]
  <2>1. f = [n \in 0..L |->
               IF n = 0 THEN <<>>
               ELSE (IF s[L + 1 - n].at = "result" THEN <<s[L + 1 - n].w>> ELSE <<>>) \o f[n - 1]]
    BY <1>2 DEF In, L
  <2>2. 0 \in 0..L /\ \A n \in 1..L : n \in 0..L /\ n # 0
    BY <1>1
  <2>3. f[0] = <<>>
    BY <2>1, <2>2
  <2>4. \A n \in 1..L : f[n] = (IF s[L + 1 - n].at = "result" THEN <<s[L + 1 - n].w>> ELSE <<>>)
                               \o f[n - 1]
    BY <2>1, <2>2
  <2> QED
    BY <2>3, <2>4
<1> DEFINE Behind(n) == IF n > 0 /\ s[L + 1 - n].at = "thunk" THEN <<s[L + 1 - n].w>> \o (f[n] \o b)
                        ELSE f[n] \o b
           T == {n \in 0..L : f[n] \in Seq(Nat) /\ \A u : SuitsAt(s, L + 1 - n, u, o, c, b) => u = Behind(n)}
<1>4. 0 \in T
  <2>1. <<>> \in Seq(Nat) /\ <<>> \o b = b
    BY ConcatEmptySeq
  <2>2. \A u : SuitsAt(s, L + 1 - 0, u, o, c, b) => u = b
    <3>1. L + 1 - 0 > Len(s)
      BY <1>1 DEF L
    <3> QED
      BY <3>1 DEF SuitsAt
  <2>3. Behind(0) = b /\ 0 \in 0..L
    BY <1>1, <1>3, <2>1
  <2> QED
    BY <1>3, <2>1, <2>2, <2>3
<1>5. ASSUME NEW m \in 0..L, m \in T, m < L PROVE m + 1 \in T
  <2> DEFINE j == L - m
             g == s[j]
  <2>1. /\ m \in Nat /\ j \in 1..L /\ L + 1 - (m + 1) = j /\ L + 1 - m = j + 1 /\ m + 1 \in 0..L
        /\ m + 1 \in 1..L /\ (m + 1) - 1 = m /\ m + 1 > 0
        /\ m > 0 <=> j < L
    BY <1>1, <1>5
  <2>2. f[m] \in Seq(Nat) /\ \A u : SuitsAt(s, j + 1, u, o, c, b) => u = Behind(m)
    BY <1>5, <2>1
  <2>3. f[m + 1] = (IF g.at = "result" THEN <<g.w>> ELSE <<>>) \o f[m]
    BY <1>3, <2>1
  <2>4. /\ g.at \in {"before", "after", "thunk", "result", "enter"} /\ g.w \in Nat
    BY <1>1, <2>1
  <2>5. /\ Named(g, o, c) /\ ThunkNext(s, j) /\ SuitsAt(s, j + 1, Leaves(g, o), o, c, b)
        /\ ~OnItsWay(s, j)
    <3>1. /\ Named(s[j], o, c) /\ ThunkNext(s, j)
          /\ s[j].at # "jump" => SuitsAt(s, j + 1, Leaves(s[j], o), o, c, b)
          /\ OnItsWay(s, j) => \E i \in (j + 1)..Len(s) : s[i].at = "jump"
      BY <2>1 DEF Fits, Sound, L
    <3>2. \A i \in (j + 1)..Len(s) : s[i].at # "jump"
      <4>1. \A i \in (j + 1)..Len(s) : i \in 1..Len(s)
        BY <1>1, <2>1 DEF L
      <4> QED
        BY <4>1
    <3> QED
      BY <2>4, <3>1, <3>2
  <2>6. f[m + 1] \in Seq(Nat)
    <3>1. <<g.w>> \o f[m] \in Seq(Nat) /\ <<>> \o f[m] = f[m]
      BY <2>2, <2>4, Cons, ConcatEmptySeq
    <3> QED
      BY <2>2, <2>3, <3>1
  <2>7. Leaves(g, o) = Behind(m) /\ f[m] \o b \in Seq(Nat)
    BY <2>2, <2>5, ConcatProperties
  <2>8. /\ g.w \in 1..Len(o) /\ o[g.w] \in Seq(Nat)
        /\ g.at \in {"after", "thunk", "result"} => Leaves(g, o) = o[g.w]
        /\ g.at = "before" => Leaves(g, o) = <<g.w>> \o o[g.w]
    <3>1. g.w \in 1..Len(o)
      BY <2>4, <2>5 DEF Named
    <3>2. o[g.w] \in Seq(Nat)
      BY <3>1, ElementOfSeq
    <3>3. /\ g.at \in {"after", "thunk", "result"} => Leaves(g, o) = o[g.w]
          /\ g.at = "before" => Leaves(g, o) = <<g.w>> \o o[g.w]
      BY DEF Leaves
    <3> QED
      BY <3>1, <3>2, <3>3
  <2>9. g.at # "enter"
    BY <2>5 DEF OnItsWay
  <2>10. ~(m > 0 /\ s[L + 1 - m].at = "thunk") => Behind(m) = f[m] \o b
    OBVIOUS
  <2>11. CASE g.at = "before"
    <3>1. j < L /\ s[j + 1].at = "thunk" /\ s[j + 1].w = g.w
      BY <2>5, <2>11 DEF OnItsWay, L
    <3>2. Behind(m) = <<g.w>> \o (f[m] \o b)
      BY <2>1, <3>1
    <3>3. o[g.w] = f[m] \o b
      <4> DEFINE x == o[g.w]
                 y == f[m] \o b
                 w == g.w
      <4>1. <<w>> \o x = <<w>> \o y
        BY <2>7, <2>8, <2>11, <3>2
      <4>2. x \in Seq(Nat) /\ y \in Seq(Nat) /\ w \in Nat
        BY <2>4, <2>7, <2>8
      <4> HIDE DEF x, y, w
      <4>3. x = y
        BY <4>1, <4>2, SameRest
      <4> QED
        BY <4>3 DEF x, y
    <3>4. f[m + 1] = f[m]
      BY <2>2, <2>3, <2>11, ConcatEmptySeq
    <3>5. Behind(m + 1) = f[m] \o b
      BY <2>1, <2>11, <3>4
    <3>6. \A u : SuitsAt(s, j, u, o, c, b) => u = o[g.w]
      <4>1. ~(j > Len(s))
        BY <2>1 DEF L
      <4> QED
        BY <2>11, <4>1 DEF SuitsAt, Suits
    <3> QED
      BY <2>1, <2>6, <3>3, <3>5, <3>6
  <2>12. CASE g.at \in {"after", "thunk", "result"}
    <3>1. ~(m > 0 /\ s[L + 1 - m].at = "thunk")
      BY <2>1, <2>5, <2>12 DEF ThunkNext, L
    <3>2. o[g.w] = f[m] \o b
      BY <2>7, <2>8, <2>10, <2>12, <3>1
    <3>3. ~(j > Len(s))
      BY <2>1 DEF L
    <3>4. CASE g.at = "after"
      <4>1. f[m + 1] = f[m] /\ Behind(m + 1) = f[m] \o b
        BY <2>1, <2>2, <2>3, <3>4, ConcatEmptySeq
      <4>2. \A u : SuitsAt(s, j, u, o, c, b) => u = o[g.w]
        BY <3>3, <3>4 DEF SuitsAt, Suits
      <4> QED
        BY <2>1, <2>6, <3>2, <4>1, <4>2
    <3>5. CASE g.at = "thunk"
      <4>1. f[m + 1] = f[m]
        BY <2>2, <2>3, <3>5, ConcatEmptySeq
      <4>2. Behind(m + 1) = <<g.w>> \o (f[m] \o b)
        BY <2>1, <3>5, <4>1
      <4>3. \A u : SuitsAt(s, j, u, o, c, b) => u = <<g.w>> \o o[g.w]
        BY <3>3, <3>5 DEF SuitsAt, Suits
      <4> QED
        BY <2>1, <2>6, <3>2, <4>2, <4>3
    <3>6. CASE g.at = "result"
      <4>1. f[m + 1] = <<g.w>> \o f[m]
        BY <2>3, <3>6
      <4>2. Behind(m + 1) = <<g.w>> \o (f[m] \o b)
        <5>1. (<<g.w>> \o f[m]) \o b = <<g.w>> \o (f[m] \o b)
          <6> DEFINE x == <<g.w>>
                     y == f[m]
          <6>1. x \in Seq(Nat) /\ y \in Seq(Nat) /\ b \in Seq(Nat)
            BY <2>2, <2>4
          <6> HIDE DEF x, y
          <6>2. (x \o y) \o b = x \o (y \o b)
            BY ONLY SMTT(40), <6>1, ConcatAssociative
          <6> QED
            BY <6>2 DEF x, y
        <5> QED
          BY <2>1, <3>6, <4>1, <5>1
      <4>3. \A u : SuitsAt(s, j, u, o, c, b) => u = <<g.w>> \o o[g.w]
        BY <3>3, <3>6 DEF SuitsAt, Suits
      <4> QED
        BY <2>1, <2>6, <3>2, <4>2, <4>3
    <3> QED
      BY <2>12, <3>4, <3>5, <3>6
  <2> QED
    BY <2>4, <2>9, <2>11, <2>12
<1>6. L \in T
  <2> HIDE DEF T
  <2>1. 0 \in Nat /\ \A n \in 0..L : n \in T /\ n < L => n + 1 \in T
    BY <1>5
  <2>2. \A n \in 0..L : n \in T
    BY <1>1, <1>4, <2>1, Upwards
  <2> QED
    BY <1>1, <2>2
<1>7. SuitsAt(s, L + 1 - L, v, o, c, b)
  <2>1. L + 1 - L = 1
    BY <1>1
  <2> QED
    BY <2>1 DEF Fits
<1>8. v = Behind(L)
  BY <1>6, <1>7
<1>9. ~(L > 0 /\ s[L + 1 - L].at = "thunk")
  <2>1. L + 1 - L = 1 /\ (L > 0 => s # <<>>)
    BY <1>1 DEF L
  <2> QED
    BY <2>1 DEF Runs
<1> QED
  BY <1>2, <1>8, <1>9

(* Wherever the program runs, the active windings are those for the place, *)
(* whatever continuations were called and whatever failed.                 *)
THEOREM WindingsAlwaysMatch == Spec => []WindingsMatch
<1>1. WindInv => WindingsMatch
  <2> SUFFICES ASSUME WindInv PROVE WindingsMatch
    OBVIOUS
  <2>1. ActiveMatches
    <3> SUFFICES ASSUME pc = "run", ~Switching PROVE Windings(active) = Around(stack) \o base
      BY DEF ActiveMatches
    <3>1. \A k \in 1..Len(stack) : stack[k].at \notin {"pop", "push", "jump"}
      BY DEF Switching
    <3>2. /\ stack \in Seq(FrameType) /\ outer \in Seq(Seq(Nat)) /\ base \in Seq(Nat)
          /\ Fits(stack, Windings(active), outer, conts, base) /\ Runs(stack)
      BY DEF WindInv, WindTypes
    <3> QED
      BY <3>1, <3>2, AroundSuits
  <2>2. ThunkContext
    <3> SUFFICES ASSUME stack # <<>>, stack[1].at \in {"before", "after"}
                 PROVE  Windings(active) = outer[stack[1].w]
      BY DEF ThunkContext
    <3>1. Suits(stack[1], Windings(active), outer, conts)
      BY TopFrame
    <3> QED
      BY <3>1 DEF Suits
  <2> QED
    BY <2>1, <2>2 DEF WindingsMatch
<1> QED
  BY <1>1, WindAlways, PTL

(* SharedKept: cells stand for the activations of windings.                *)
Made(l, cs) == \A j \in 1..Len(l) : l[j].id \in 1..Len(cs) /\ cs[l[j].id] = l[j].w
CellsInv ==
  /\ jumps \in Nat
  /\ Made(active, conses)
  /\ \A k \in 1..Len(conts) : Made(conts[k].ws, conses)

LEMMA CellsStep == ASSUME WindInv, CellsInv, [Next]_vars PROVE CellsInv'
<1>1. /\ active \in Seq(Cell) /\ conses \in Seq(Nat) /\ stack \in Seq(FrameType)
      /\ conts \in Seq(Continuation) /\ jumps \in Nat
  BY DEF WindInv, WindTypes, CellsInv
<1>2. ASSUME UNCHANGED <<active, conses, conts>>, jumps' = jumps \/ jumps' = jumps + 1
      PROVE  CellsInv'
  BY <1>1, <1>2 DEF CellsInv
<1>3. CASE call_cc
  <2> DEFINE c == Append(conts, [stack |-> stack, ws |-> active, base |-> base])
  <2>1. conts' = c /\ active' = active /\ conses' = conses /\ jumps' = jumps
    BY <1>3 DEF call_cc, counts
  <2>2. /\ Len(c) = Len(conts) + 1 /\ Len(conts) \in Nat /\ c[Len(conts) + 1].ws = active
        /\ \A k \in 1..Len(conts) : c[k] = conts[k]
    <3>1. [stack |-> stack, ws |-> active, base |-> base] \in Continuation
      BY <1>1 DEF Continuation, WindInv, WindTypes
    <3> QED
      BY <1>1, <3>1, AppendProperties
  <2> HIDE DEF c
  <2>3. \A k \in 1..Len(c) : Made(c[k].ws, conses)
    <3> TAKE k \in 1..Len(c)
    <3>1. k \in 1..Len(conts) \/ k = Len(conts) + 1
      BY <2>2
    <3> QED
      BY <2>2, <3>1 DEF CellsInv
  <2> QED
    BY <1>1, <2>1, <2>3 DEF CellsInv
<1>4. ASSUME active # <<>>, active' = Tail(active), conses' = conses, conts' = conts, jumps' = jumps
      PROVE  CellsInv'
  <2> DEFINE l == Tail(active)
  <2>1. /\ Len(active) \in Nat \ {0} /\ Len(l) = Len(active) - 1
        /\ \A j \in 1..(Len(active) - 1) : l[j] = active[j + 1]
    BY <1>1, <1>4, Rest
  <2> HIDE DEF l
  <2>2. Made(l, conses)
    <3> SUFFICES ASSUME NEW j \in 1..Len(l)
                 PROVE  l[j].id \in 1..Len(conses) /\ conses[l[j].id] = l[j].w
      BY DEF Made
    <3>1. j + 1 \in 1..Len(active) /\ l[j] = active[j + 1]
      BY <2>1
    <3> QED
      BY <3>1 DEF CellsInv, Made
  <2>3. Made(active', conses')
    BY <1>4, <2>2 DEF l
  <2> QED
    BY <1>1, <1>4, <2>3 DEF CellsInv
<1>5. ASSUME NEW s, deactivate_top_winding(s) PROVE CellsInv'
  <2>1. CASE active = <<>>
    BY <1>2, <1>5, <2>1 DEF deactivate_top_winding, ToTopLevel, counts
  <2>2. CASE active # <<>>
    BY <1>4, <1>5, <2>2 DEF deactivate_top_winding, Goes, counts
  <2> QED
    BY <2>1, <2>2
<1>6. CASE Activate
  <2> DEFINE w == stack[1].w
             cs == Append(conses, w)
             c == [id |-> Len(cs), w |-> w]
             l == <<c>> \o active
  <2>1. /\ conses' = cs /\ active' = l /\ conts' = conts /\ jumps' = jumps
        /\ stack # <<>>
    BY <1>6 DEF Activate, Top, Goes, counts
  <2>2. w \in Nat
    BY <2>1, TopFrame DEF FrameType
  <2>3. /\ cs \in Seq(Nat) /\ Len(cs) = Len(conses) + 1 /\ cs[Len(conses) + 1] = w
        /\ Len(conses) \in Nat
        /\ \A k \in 1..Len(conses) : cs[k] = conses[k]
    BY <1>1, <2>2, AppendProperties
  <2>4. c \in Cell /\ c.w = w /\ c.id = Len(conses) + 1
    BY <2>2, <2>3 DEF Cell
  <2> HIDE DEF w, c, cs
  <2>5. /\ Len(l) = Len(active) + 1 /\ Len(active) \in Nat /\ l[1] = c
        /\ \A j \in 2..(Len(active) + 1) : l[j] = active[j - 1]
    BY <1>1, <2>4, Cons
  <2> HIDE DEF l
  <2>6. \A x : Made(x, conses) => Made(x, cs)
    BY SMTT(40), <2>3 DEF Made
  <2>7. Made(active, cs) /\ \A k \in 1..Len(conts) : Made(conts[k].ws, cs)
    BY <2>6 DEF CellsInv
  <2>8. Made(l, cs)
    <3> SUFFICES ASSUME NEW j \in 1..Len(l)
                 PROVE  l[j].id \in 1..Len(cs) /\ cs[l[j].id] = l[j].w
      BY DEF Made
    <3>1. CASE j = 1
      BY <2>3, <2>4, <2>5, <3>1
    <3>2. CASE j # 1
      <4>1. j \in 2..(Len(active) + 1) /\ j - 1 \in 1..Len(active)
        BY <2>5, <3>2
      <4> QED
        BY <2>5, <2>7, <4>1 DEF Made
    <3> QED
      BY <3>1, <3>2
  <2> QED
    BY <1>1, <2>1, <2>7, <2>8 DEF CellsInv
<1>7. CASE dynamic_wind \/ Return \/ Error
  BY <1>2, <1>7 DEF dynamic_wind, Return, Error, ToTopLevel, counts
<1>8. ASSUME NEW k \in 1..Len(conts), CallContinuation(k) PROVE CellsInv'
  BY <1>2, <1>8 DEF CallContinuation
<1>9. ASSUME NEW s, NEW p, Stays(s, p) PROVE CellsInv'
  BY <1>2, <1>9 DEF Stays, Goes, counts
<1>10. CASE CallThunk \/ AfterReturned \/ push_many \/ Enter
  BY <1>9, <1>10 DEF CallThunk, AfterReturned, push_many, Enter
<1>11. CASE ThunkReturned \/ pop_many
  BY <1>5, <1>9, <1>11 DEF ThunkReturned, pop_many
<1>12. CASE Arrive
  BY <1>2, <1>12 DEF Arrive, Goes, counts
<1>13. CASE UNCHANGED vars
  BY <1>2, <1>13 DEF vars, counts
<1> QED
  BY <1>3, <1>6, <1>7, <1>8, <1>10, <1>11, <1>12, <1>13 DEF Next, Program, Library

(* The last n cells are the last n elements.                               *)
LEMMA TailCells ==
  ASSUME NEW S, NEW x \in Seq(S), NEW n \in 0..Len(x)
  PROVE  /\ list_tail(x, n) \in Seq(S) /\ Len(list_tail(x, n)) = n
         /\ \A i \in 1..n : list_tail(x, n)[i] = x[Len(x) - n + i]
<1> DEFINE m == Len(x) - n + 1
<1>1. Len(x) \in Nat /\ n \in Nat /\ m \in 1..(Len(x) + 1) /\ Len(x) - m + 1 = n
  OBVIOUS
<1>2. list_tail(x, n) = SubSeq(x, m, Len(x))
  BY DEF list_tail
<1>3. \A i \in 1..n : m + i - 1 = Len(x) - n + i
  BY <1>1
<1> HIDE DEF m
<1>4. /\ SubSeq(x, m, Len(x)) \in Seq(S) /\ Len(SubSeq(x, m, Len(x))) = n
      /\ \A i \in 1..n : SubSeq(x, m, Len(x))[i] = x[m + i - 1]
  BY <1>1, Slice
<1> QED
  BY <1>2, <1>3, <1>4

(* As long as no winding was activated twice, lists share the cells of the *)
(* windings that they share.                                               *)
LEMMA SameCells ==
  ASSUME NEW x \in Seq(Cell), NEW y \in Seq(Cell), NEW cs \in Seq(Nat),
         Made(x, cs), Made(y, cs), \A c, d \in 1..Len(cs) : cs[c] = cs[d] => c = d,
         NEW n \in 0..Len(x), n <= Len(y)
  PROVE  list_tail(x, n) = list_tail(y, n) <=>
           list_tail(Windings(x), n) = list_tail(Windings(y), n)
<1> DEFINE u == Windings(x)
           v == Windings(y)
<1>1. /\ u \in Seq(Nat) /\ Len(u) = Len(x) /\ Len(x) \in Nat
      /\ v \in Seq(Nat) /\ Len(v) = Len(y) /\ Len(y) \in Nat
      /\ \A k \in 1..Len(x) : u[k] = x[k].w
      /\ \A k \in 1..Len(y) : v[k] = y[k].w
  BY WindingsFacts
<1> HIDE DEF u, v
<1>2. n \in 0..Len(y) /\ n \in 0..Len(u) /\ n \in 0..Len(v) /\ n \in Nat
  BY <1>1
<1>3. /\ list_tail(x, n) \in Seq(Cell) /\ Len(list_tail(x, n)) = n
      /\ list_tail(y, n) \in Seq(Cell) /\ Len(list_tail(y, n)) = n
      /\ \A i \in 1..n : list_tail(x, n)[i] = x[Len(x) - n + i]
      /\ \A i \in 1..n : list_tail(y, n)[i] = y[Len(y) - n + i]
  BY <1>2, TailCells
<1>4. /\ list_tail(u, n) \in Seq(Nat) /\ Len(list_tail(u, n)) = n
      /\ list_tail(v, n) \in Seq(Nat) /\ Len(list_tail(v, n)) = n
      /\ \A i \in 1..n : list_tail(u, n)[i] = u[Len(x) - n + i]
      /\ \A i \in 1..n : list_tail(v, n)[i] = v[Len(y) - n + i]
  <2>1. /\ list_tail(u, n) \in Seq(Nat) /\ Len(list_tail(u, n)) = n
        /\ \A i \in 1..n : list_tail(u, n)[i] = u[Len(u) - n + i]
    <3>1. u \in Seq(Nat) /\ n \in 0..Len(u)
      BY <1>1, <1>2
    <3> QED
      BY ONLY <3>1, TailCells
  <2>2. /\ list_tail(v, n) \in Seq(Nat) /\ Len(list_tail(v, n)) = n
        /\ \A i \in 1..n : list_tail(v, n)[i] = v[Len(v) - n + i]
    <3>1. v \in Seq(Nat) /\ n \in 0..Len(v)
      BY <1>1, <1>2
    <3> QED
      BY ONLY <3>1, TailCells
  <2> QED
    BY <1>1, <2>1, <2>2
<1>5. \A i \in 1..n : Len(x) - n + i \in 1..Len(x) /\ Len(y) - n + i \in 1..Len(y)
  BY <1>1, <1>2
<1>6. \A j \in 1..Len(x), k \in 1..Len(y) : x[j].w = y[k].w <=> x[j] = y[k]
  <2> TAKE j \in 1..Len(x), k \in 1..Len(y)
  <2>1. x[j] \in Cell /\ y[k] \in Cell
    BY ElementOfSeq
  <2>2. /\ x[j].id \in 1..Len(cs) /\ cs[x[j].id] = x[j].w
        /\ y[k].id \in 1..Len(cs) /\ cs[y[k].id] = y[k].w
    BY DEF Made
  <2>3. x[j].w = y[k].w => x[j].id = y[k].id
    BY <2>2
  <2>4. \A a, b \in Cell : a.id = b.id /\ a.w = b.w => a = b
    <3>1. \A a \in Cell : a = [id |-> a.id, w |-> a.w]
      BY DEF Cell
    <3> QED
      BY <3>1
  <2> QED
    BY <2>1, <2>3, <2>4
<1>7. ASSUME list_tail(x, n) = list_tail(y, n) PROVE list_tail(u, n) = list_tail(v, n)
  <2>1. \A i \in 1..n : list_tail(u, n)[i] = list_tail(v, n)[i]
    <3> TAKE i \in 1..n
    <3>1. x[Len(x) - n + i] = y[Len(y) - n + i]
      BY <1>3, <1>7
    <3>2. u[Len(x) - n + i] = v[Len(y) - n + i]
      BY <1>1, <1>5, <3>1
    <3>3. list_tail(u, n)[i] = u[Len(x) - n + i] /\ list_tail(v, n)[i] = v[Len(y) - n + i]
      BY <1>4
    <3> QED
      BY <3>2, <3>3
  <2> QED
    BY <1>4, <2>1, SeqEqual
<1>8. ASSUME list_tail(u, n) = list_tail(v, n) PROVE list_tail(x, n) = list_tail(y, n)
  <2>1. \A i \in 1..n : list_tail(x, n)[i] = list_tail(y, n)[i]
    <3> TAKE i \in 1..n
    <3>1. u[Len(x) - n + i] = v[Len(y) - n + i]
      BY <1>4, <1>8
    <3>2. x[Len(x) - n + i].w = y[Len(y) - n + i].w
      BY <1>1, <1>5, <3>1
    <3>3. x[Len(x) - n + i] = y[Len(y) - n + i]
      BY <1>5, <1>6, <3>2
    <3>4. list_tail(x, n)[i] = x[Len(x) - n + i] /\ list_tail(y, n)[i] = y[Len(y) - n + i]
      BY <1>3
    <3> QED
      BY <3>3, <3>4
  <2> QED
    BY <1>3, <2>1, SeqEqual
<1> QED
  BY <1>7, <1>8 DEF u, v

(* What shared-tail finds is as long as what the windings have in common.  *)
LEMMA SharedIsCommon ==
  ASSUME NEW x \in Seq(Cell), NEW y \in Seq(Cell), NEW cs \in Seq(Nat),
         Made(x, cs), Made(y, cs), \A c, d \in 1..Len(cs) : cs[c] = cs[d] => c = d
  PROVE  /\ Len(shared_tail(x, y)) = CommonEnd(Windings(y), Windings(x))
         /\ Len(x) = CommonEnd(Windings(x), Windings(x))
<1> DEFINE u == Windings(x)
           v == Windings(y)
           C == {n \in 0..Len(x) : n <= Len(y) /\ list_tail(x, n) = list_tail(y, n)}
           D == {n \in 0..Len(v) : n <= Len(u) /\ list_tail(v, n) = list_tail(u, n)}
           E == {n \in 0..Len(u) : n <= Len(u) /\ list_tail(u, n) = list_tail(u, n)}
<1>1. Len(u) = Len(x) /\ Len(x) \in Nat /\ Len(v) = Len(y) /\ Len(y) \in Nat
  BY WindingsFacts
<1>2. \A n \in 0..Len(x) : n <= Len(y) =>
        (list_tail(x, n) = list_tail(y, n) <=> list_tail(u, n) = list_tail(v, n))
  BY SameCells
<1>3. C = D
  <2> HIDE DEF u, v
  <2> QED
    BY <1>1, <1>2
<1>4. shared_tail(x, y) = list_tail(x, CHOOSE n \in C : \A m \in C : m <= n)
  BY DEF shared_tail
<1>5. CommonEnd(v, u) = CHOOSE n \in D : \A m \in D : m <= n
  BY DEF CommonEnd
<1>6. CommonEnd(u, u) = CHOOSE n \in E : \A m \in E : m <= n
  BY DEF CommonEnd
<1> HIDE DEF u, v
<1>7. E = 0..Len(x)
  BY <1>1
<1>8. C \in SUBSET (0..Len(x)) /\ 0 \in C
  <2>1. \A l : Len(l) \in Nat => list_tail(l, 0) = <<>>
    <3> TAKE l
    <3>1. Len(l) \in Nat => SubSeq(l, Len(l) + 1, Len(l)) = <<>>
      BY SubSeqEmpty
    <3>2. Len(l) \in Nat => Len(l) - 0 + 1 = Len(l) + 1
      OBVIOUS
    <3> QED
      BY <3>1, <3>2 DEF list_tail
  <2> QED
    BY <1>1, <2>1
<1> HIDE DEF C, D, E
<1> DEFINE g == CHOOSE n \in C : \A m \in C : m <= n
<1>9. g \in C
  <2>1. \E n \in C : \A m \in C : m <= n
    BY <1>1, <1>8, HasGreatest
  <2> QED
    BY <2>1
<1>10. Len(list_tail(x, g)) = g
  <2> HIDE DEF g
  <2> QED
    BY <1>8, <1>9, TailCells
<1>11. (CHOOSE n \in E : \A m \in E : m <= n) = Len(x)
  <2> DEFINE h == CHOOSE n \in E : \A m \in E : m <= n
  <2>1. Len(x) \in E /\ \A m \in E : m <= Len(x)
    BY <1>1, <1>7
  <2>2. h \in E /\ \A m \in E : m <= h
    BY <2>1
  <2> HIDE DEF h
  <2>3. h = Len(x)
    BY <1>1, <1>7, <2>1, <2>2
  <2> QED
    BY <2>3 DEF h
<1> QED
  BY <1>3, <1>4, <1>5, <1>6, <1>10, <1>11 DEF u, v

(* As long as no extent was entered again, the call of a continuation      *)
(* leaves and enters those extents only that here and there do not have in *)
(* common.                                                                 *)
THEOREM SharedIsKept == Spec => SharedKept
<1>1. ASSUME WindInv, CellsInv, [Next]_vars, ~Reentered PROVE KeepsShared
  <2>1. ASSUME NEW k \in 1..Len(conts), CallContinuation(k) PROVE KeepsShared
    <3> DEFINE ws == conts[k].ws
               shared == shared_tail(ws, active)
               f == Jump(k)
               g == Push(ws, shared)
               h == Pop(shared)
    <3>1. /\ stack' = (IF ws = active THEN <<f>> ELSE <<h, g, f>>) \o stack
      BY <2>1 DEF CallContinuation
    <3>2. /\ active \in Seq(Cell) /\ stack \in Seq(FrameType) /\ ws \in Seq(Cell)
          /\ conses \in Seq(Nat) /\ k \in Nat
      <4>1. /\ conts \in Seq(Continuation) /\ active \in Seq(Cell) /\ stack \in Seq(FrameType)
            /\ conses \in Seq(Nat)
        BY <1>1 DEF WindInv, WindTypes
      <4>2. conts[k].ws \in Seq(Cell) /\ k \in Nat
        BY <4>1, ContType
      <4> QED
        BY <4>1, <4>2
    <3>3. /\ Made(active, conses) /\ Made(ws, conses)
          /\ \A c, d \in 1..Len(conses) : conses[c] = conses[d] => c = d
      <4>1. \A c, d \in 1..Len(conses) : conses[c] = conses[d] => ~(c < d) /\ ~(d < c)
        BY <1>1 DEF Reentered
      <4>2. \A c, d \in 1..Len(conses) : c \in Int /\ d \in Int
        OBVIOUS
      <4> QED
        BY <1>1, <4>1, <4>2 DEF CellsInv
    <3>4. /\ Len(shared) = CommonEnd(Windings(active), Windings(ws))
          /\ Len(ws) = CommonEnd(Windings(ws), Windings(ws))
          /\ shared \in Seq(Cell)
      <4> HIDE DEF ws
      <4> QED
        BY <3>2, <3>3, SharedIsCommon, SharedTail
    <3> HIDE DEF ws, shared
    <3>5. /\ f \in FrameType /\ f.at = "jump" /\ f.w = k
          /\ g \in FrameType
          /\ h \in FrameType /\ h.at = "pop" /\ h.shared = shared
      BY <3>2, <3>4, Frames DEF Jump, Ats
    <3> HIDE DEF f, g, h
    <3>6. CASE ws = active
      <4>1. stack'[1] = f
        <5>1. (<<f>> \o stack)[1] = f
          BY <3>2, <3>5, Cons
        <5> QED
          BY <3>1, <3>6, <5>1
      <4> QED
        BY <3>4, <3>5, <3>6, <4>1 DEF KeepsShared, ws
    <3>7. CASE ws # active
      <4>1. stack' = <<h, g, f>> \o stack
        BY <3>1, <3>7
      <4>2. <<h, g, f>> \o stack = <<h>> \o (<<g>> \o (<<f>> \o stack))
        <5>1. /\ f \in FrameType /\ g \in FrameType /\ h \in FrameType
              /\ stack \in Seq(FrameType)
          BY <3>2, <3>5
        <5> QED
          BY ONLY <5>1, ConsThree
      <4> DEFINE s1 == <<f>> \o stack
                 s2 == <<g>> \o s1
                 s3 == <<h>> \o s2
      <4>3. s1 \in Seq(FrameType) /\ s1[1] = f /\ Len(s1) = Len(stack) + 1 /\ Len(stack) \in Nat
        BY <3>2, <3>5, Cons
      <4> HIDE DEF s1
      <4>4. /\ s2 \in Seq(FrameType) /\ Len(s2) = Len(s1) + 1
            /\ \A j \in 1..Len(s1) : s2[j + 1] = s1[j]
        BY <3>5, <4>3, Cons
      <4> HIDE DEF s2
      <4>5. /\ s3[1] = h /\ \A j \in 1..Len(s2) : s3[j + 1] = s2[j]
        BY <3>5, <4>4, Cons
      <4> HIDE DEF s3
      <4>6. s3[3] = f
        <5>1. 1 \in 1..Len(s1) /\ 2 \in 1..Len(s2) /\ 1 + 1 = 2 /\ 2 + 1 = 3
          BY <4>3, <4>4
        <5> QED
          BY <4>3, <4>4, <4>5, <5>1
      <4>7. stack' = s3
        BY <4>1, <4>2 DEF s1, s2, s3
      <4>8. stack'[1].at # "jump" /\ stack'[3].w = k /\ stack'[1].shared = shared
        BY <3>5, <4>5, <4>6, <4>7
      <4> QED
        BY <3>4, <4>8 DEF KeepsShared, ws
    <3> QED
      BY <3>6, <3>7
  <2>2. ASSUME jumps' = jumps PROVE KeepsShared
    BY <1>1, <2>2 DEF KeepsShared, CellsInv
  <2>3. CASE Library \/ UNCHANGED vars
    <3>1. jumps' = jumps
      BY <2>3 DEF Library, vars, counts, Activate, CallThunk, ThunkReturned, AfterReturned,
         pop_many, push_many, Enter, Arrive, Stays, Goes, deactivate_top_winding
    <3> QED
      BY <2>2, <3>1
  <2>4. CASE dynamic_wind \/ call_cc \/ Return \/ Error
    BY <2>2, <2>4 DEF dynamic_wind, call_cc, Return, Error, counts
  <2> QED
    BY <1>1, <2>1, <2>3, <2>4 DEF Next, Program
<1>2. ASSUME WindInv, CellsInv, [Next]_vars PROVE [~Reentered => KeepsShared]_vars
  BY <1>1, <1>2
<1>3. Init => CellsInv
  <2> SUFFICES ASSUME Init PROVE CellsInv
    OBVIOUS
  <2>1. Len(<<>>) = 0
    OBVIOUS
  <2> QED
    BY <2>1 DEF Init, CellsInv, Made
<1> QED
  BY <1>2, <1>3, CellsStep, WindAlways, PTL DEF Spec, SharedKept

----------------------------------------------------------------------------
(* Built-in procedures: loops.                                             *)

(* The values of a loop that starts with a and makes n turns f[1], f[2]... *)
LoopedBy(n, a, f, at) == at = [k \in 0..n |-> IF k = 0 THEN a ELSE f[k][at[k - 1]]]

LEMMA LoopedTurns ==
  ASSUME NEW n \in Nat, NEW S, NEW a \in S, NEW f \in [1..n -> [S -> S]]
  PROVE  \E at \in [0..n -> S] : LoopedBy(n, a, f, at)
<1> DEFINE T == {m \in 0..n : \E at \in [0..m -> S] : LoopedBy(m, a, f, at)}
<1>1. 0 \in T
  <2> DEFINE z == [k \in 0..0 |-> a]
  <2>1. z \in [0..0 -> S] /\ z = [k \in 0..0 |-> IF k = 0 THEN a ELSE f[k][z[k - 1]]]
    OBVIOUS
  <2>2. LoopedBy(0, a, f, z)
    <3>1. \A k \in 0..0 : k = 0
      OBVIOUS
    <3>2. z = [k \in 0..0 |-> IF k = 0 THEN a ELSE f[k][z[k - 1]]]
      BY <3>1
    <3> HIDE DEF z
    <3> QED
      BY <3>2 DEF LoopedBy
  <2> HIDE DEF z
  <2> QED
    BY <2>1, <2>2
<1>2. ASSUME NEW m \in 0..n, m \in T /\ m < n PROVE m + 1 \in T
  <2>1. PICK g \in [0..m -> S] : LoopedBy(m, a, f, g)
    BY <1>2
  <2>2. m \in 0..m /\ g[m] \in S /\ f[m + 1][g[m]] \in S
    <3>1. m \in 0..m /\ m + 1 \in 1..n
      BY <1>2
    <3>2. g[m] \in S /\ f[m + 1] \in [S -> S]
      BY <3>1
    <3> QED
      BY <3>1, <3>2
  <2> DEFINE h == [k \in 0..(m + 1) |-> IF k <= m THEN g[k] ELSE f[m + 1][g[m]]]
  <2>3. h \in [0..(m + 1) -> S]
    BY <2>2
  <2>4. ASSUME NEW k \in 0..(m + 1)
        PROVE  h[k] = IF k = 0 THEN a ELSE f[k][h[k - 1]]
    <3>1. CASE k = 0
      <4>1. 0 \in 0..m /\ g[0] = a
        BY <2>1 DEF LoopedBy
      <4> QED
        BY <3>1, <4>1
    <3>2. CASE k \in 1..m
      <4>1. k \in 0..m /\ k - 1 \in 0..m /\ k <= m /\ k - 1 <= m /\ k # 0
        BY <3>2
      <4>2. g[k] = f[k][g[k - 1]]
        BY <2>1, <4>1 DEF LoopedBy
      <4> QED
        BY <4>1, <4>2
    <3>3. CASE k = m + 1
      <4>1. k - 1 = m /\ ~(k <= m) /\ k # 0 /\ k - 1 \in 0..(m + 1)
        BY <3>3
      <4>2. h[k] = f[m + 1][g[m]] /\ h[k - 1] = g[m]
        BY <4>1
      <4> QED
        BY <4>1, <4>2
    <3> QED
      BY <3>1, <3>2, <3>3
  <2> HIDE DEF h
  <2>5. h = [k \in 0..(m + 1) |-> IF k = 0 THEN a ELSE f[k][h[k - 1]]]
    BY <2>3, <2>4
  <2>6. LoopedBy(m + 1, a, f, h) /\ m + 1 \in 0..n
    BY <1>2, <2>5 DEF LoopedBy
  <2> QED
    BY <2>3, <2>6
<1>3. \A m \in 0..n : m \in T
  <2>1. 0 \in Nat
    OBVIOUS
  <2> HIDE DEF T
  <2> QED
    BY <1>1, <1>2, <2>1, Upwards
<1> QED
  BY <1>3

(* Every turn is a turn of f.                                              *)
Looped(n, a, f, at) == at = [k \in 0..n |-> IF k = 0 THEN a ELSE f[at[k - 1]]]

LEMMA LoopedStep ==
  ASSUME NEW n \in Nat, NEW S, NEW a \in S, NEW f \in [S -> S]
  PROVE  \E at \in [0..n -> S] : Looped(n, a, f, at)
<1> DEFINE g == [k \in 1..n |-> f]
<1>1. g \in [1..n -> [S -> S]]
  OBVIOUS
<1>2. PICK at \in [0..n -> S] : LoopedBy(n, a, g, at)
  <2> HIDE DEF g
  <2> QED
    BY <1>1, LoopedTurns
<1>3. \A k \in 0..n : k # 0 => g[k] = f
  OBVIOUS
<1> HIDE DEF g
<1>4. at = [k \in 0..n |-> IF k = 0 THEN a ELSE f[at[k - 1]]]
  BY <1>2, <1>3 DEF LoopedBy
<1> QED
  BY <1>4 DEF Looped

LEMMA TurnsFacts == Turns \in Nat \ {0} /\ Cardinality(Cells) \in Nat /\ Turns = Cardinality(Cells) + 1
                    /\ IsFiniteSet(Cells)
BY CellsAssumption, FS_CardinalityType DEF Turns

----------------------------------------------------------------------------
(* Memories.                                                               *)
Known(m) == m.used \cup Atoms
Mems == {m \in [car : [Cells -> Values], cdr : [Cells -> Values],
                used : SUBSET Cells, full : BOOLEAN] :
           /\ m.full => m.used = Cells
           /\ \A c \in m.used : m.car[c] \in Known(m) /\ m.cdr[c] \in Known(m)}

(* The cells of m that are in use, those of W excepted, are what they were.*)
Same(m, n, W) ==
  /\ n \in Mems /\ m.used \subseteq n.used
  /\ \A c \in m.used \ W : n.car[c] = m.car[c] /\ n.cdr[c] = m.cdr[c]

LEMMA MemFacts ==
  ASSUME NEW m \in Mems
  PROVE  /\ m.car \in [Cells -> Values] /\ m.cdr \in [Cells -> Values]
         /\ m.used \in SUBSET Cells /\ m.full \in BOOLEAN
         /\ m.full => m.used = Cells
         /\ \A c \in m.used : m.car[c] \in Known(m) /\ m.cdr[c] \in Known(m)
         /\ Known(m) \subseteq Values /\ Atoms \subseteq Known(m) /\ Nil \in Atoms /\ Nil \notin Cells
         /\ \A x \in Known(m) : /\ car(m, x) \in Known(m) /\ cdr(m, x) \in Known(m)
                                /\ is_pair(x) <=> x \in m.used
         /\ \A W : Same(m, m, W)
<1>1. Nil \in Atoms /\ Cells \cap Atoms = {}
  BY CellsAssumption DEF Atoms
<1> QED
  BY <1>1 DEF Mems, Known, Values, car, cdr, is_pair, Same

LEMMA SameTurns ==
  ASSUME NEW l \in Mems, NEW m \in Mems, NEW n \in Mems, NEW V, NEW W,
         Same(l, m, V), Same(m, n, W)
  PROVE  Same(l, n, V \cup W) /\ Known(l) \subseteq Known(n)
BY DEF Same, Known

LEMMA Typed ==
  ASSUME NEW c, NEW d, NEW u, NEW f
  PROVE  LET m == [car |-> c, cdr |-> d, used |-> u, full |-> f]
         IN  /\ m.car = c /\ m.cdr = d /\ m.used = u /\ m.full = f
             /\ c \in [Cells -> Values] /\ d \in [Cells -> Values]
                  /\ u \in SUBSET Cells /\ f \in BOOLEAN
                  /\ (f => u = Cells)
                  /\ (\A x \in u : c[x] \in u \cup Atoms /\ d[x] \in u \cup Atoms)
                => m \in Mems
<1> DEFINE m == [car |-> c, cdr |-> d, used |-> u, full |-> f]
<1>1. m.car = c /\ m.cdr = d /\ m.used = u /\ m.full = f
  OBVIOUS
<1>2. c \in [Cells -> Values] /\ d \in [Cells -> Values] /\ u \in SUBSET Cells /\ f \in BOOLEAN
      => m \in [car : [Cells -> Values], cdr : [Cells -> Values],
                used : SUBSET Cells, full : BOOLEAN]
  OBVIOUS
<1> HIDE DEF m
<1> QED
  BY <1>1, <1>2 DEF Mems, Known, m

LEMMA Fields ==
  ASSUME NEW m \in Mems
  PROVE  m = [car |-> m.car, cdr |-> m.cdr, used |-> m.used, full |-> m.full]
BY DEF Mems

(* A memory with one field or cell changed. *)
LEMMA Changed ==
  ASSUME NEW c, NEW d, NEW u, NEW f, NEW x, NEW y,
         NEW m, m = [car |-> c, cdr |-> d, used |-> u, full |-> f]
  PROVE  /\ [m EXCEPT !.car[x] = y] = [car |-> [c EXCEPT ![x] = y], cdr |-> d, used |-> u, full |-> f]
         /\ [m EXCEPT !.cdr[x] = y] = [car |-> c, cdr |-> [d EXCEPT ![x] = y], used |-> u, full |-> f]
         /\ [m EXCEPT !.used = y] = [car |-> c, cdr |-> d, used |-> y, full |-> f]
         /\ [m EXCEPT !.full = y] = [car |-> c, cdr |-> d, used |-> u, full |-> y]
<1>1. [m EXCEPT !.car[x] = y] = [car |-> [c EXCEPT ![x] = y], cdr |-> d, used |-> u, full |-> f]
  OBVIOUS
<1>2. [m EXCEPT !.cdr[x] = y] = [car |-> c, cdr |-> [d EXCEPT ![x] = y], used |-> u, full |-> f]
  OBVIOUS
<1>3. [m EXCEPT !.used = y] = [car |-> c, cdr |-> d, used |-> y, full |-> f]
  OBVIOUS
<1>4. [m EXCEPT !.full = y] = [car |-> c, cdr |-> d, used |-> u, full |-> y]
  OBVIOUS
<1> QED
  BY ONLY <1>1, <1>2, <1>3, <1>4

LEMMA ConsFacts ==
  ASSUME NEW m \in Mems, NEW a \in Known(m), NEW d \in Known(m)
  PROVE  LET r == cons(m, a, d)
         IN  /\ r.m \in Mems /\ r.v \in Known(r.m) /\ Same(m, r.m, {})
             /\ r.m.full => m.used = Cells /\ r.m.used = Cells /\ r.v = Nil
             /\ ~r.m.full => /\ r.v \in Cells \ m.used /\ r.m.used = m.used \cup {r.v}
                             /\ r.m.car = [m.car EXCEPT ![r.v] = a]
                             /\ r.m.cdr = [m.cdr EXCEPT ![r.v] = d]
<1> DEFINE r == cons(m, a, d)
           f == m.car
           g == m.cdr
           u == m.used
           e == m.full
<1>0. m = [car |-> f, cdr |-> g, used |-> u, full |-> e]
  BY Fields
<1>f. /\ f \in [Cells -> Values] /\ g \in [Cells -> Values] /\ u \in SUBSET Cells
      /\ (e => u = Cells) /\ e \in BOOLEAN
      /\ \A x \in u : f[x] \in u \cup Atoms /\ g[x] \in u \cup Atoms
      /\ a \in u \cup Atoms /\ d \in u \cup Atoms /\ Nil \in Atoms
  BY MemFacts DEF Known
<1>1. CASE u = Cells
  <2>1. r = [m |-> [car |-> f, cdr |-> g, used |-> u, full |-> TRUE], v |-> Nil]
    <3>1. r = [m |-> [m EXCEPT !.full = TRUE], v |-> Nil]
      BY <1>1 DEF cons
    <3> HIDE DEF f, g, u, e
    <3>2. [m EXCEPT !.full = TRUE] = [car |-> f, cdr |-> g, used |-> u, full |-> TRUE]
      <4> DEFINE yes == TRUE
      <4> HIDE DEF yes
      <4>1. [m EXCEPT !.full = yes] = [car |-> f, cdr |-> g, used |-> u, full |-> yes]
        BY <1>0, Changed
      <4> QED
        BY ONLY <4>1 DEF yes
    <3> QED
      BY <3>1, <3>2
  <2> HIDE DEF r, f, g, u, e
  <2>2. r.m = [car |-> f, cdr |-> g, used |-> u, full |-> TRUE] /\ r.v = Nil
    BY <2>1
  <2>3. /\ r.m \in Mems /\ r.m.full = TRUE /\ r.m.used = u /\ r.m.car = f /\ r.m.cdr = g
    <3> DEFINE e1 == TRUE
    <3>1. e1 \in BOOLEAN /\ (e1 => u = Cells) /\ e1 = TRUE
      BY <1>1
    <3>2. r.m = [car |-> f, cdr |-> g, used |-> u, full |-> e1]
      BY <2>2
    <3> HIDE DEF e1
    <3>3. r.m.full = e1 /\ r.m.used = u /\ r.m.car = f /\ r.m.cdr = g
      BY ONLY <3>2
    <3>4. r.m \in Mems
      <4>1. [car |-> f, cdr |-> g, used |-> u, full |-> e1] \in Mems
        BY <1>f, <3>1, Typed
      <4> QED
        BY ONLY <4>1, <3>2
    <3> QED
      BY <3>1, <3>3, <3>4
  <2> QED
    BY <1>1, <1>f, <2>2, <2>3 DEF Known, Same, r, f, g, u
<1>2. CASE u # Cells
  <2> DEFINE c == CHOOSE c \in Cells \ u : TRUE
             f1 == [f EXCEPT ![c] = a]
             g1 == [g EXCEPT ![c] = d]
             u1 == u \cup {c}
  <2>1. c \in Cells \ u
    BY <1>2, <1>f
  <2>2. r = [m |-> [m EXCEPT !.car[c] = a, !.cdr[c] = d, !.used = @ \cup {c}], v |-> c]
    BY <1>2 DEF cons
  <2>3. [m EXCEPT !.car[c] = a, !.cdr[c] = d, !.used = @ \cup {c}]
        = [car |-> f1, cdr |-> g1, used |-> u1, full |-> e]
    <3>1. [m EXCEPT !.car[c] = a, !.cdr[c] = d, !.used = @ \cup {c}]
          = [[[m EXCEPT !.car[c] = a] EXCEPT !.cdr[c] = d] EXCEPT !.used = u1]
      <4> HIDE DEF c
      <4> QED
        BY DEF u
    <3> HIDE DEF f, g, u, e, c, u1, f1, g1
    <3> DEFINE m1 == [m EXCEPT !.car[c] = a]
               m2 == [m1 EXCEPT !.cdr[c] = d]
    <3>2. m1 = [car |-> f1, cdr |-> g, used |-> u, full |-> e]
      BY <1>0, Changed DEF f1
    <3> HIDE DEF m1
    <3>3. m2 = [car |-> f1, cdr |-> g1, used |-> u, full |-> e]
      BY <3>2, Changed DEF g1
    <3> HIDE DEF m2
    <3>4. [m2 EXCEPT !.used = u1] = [car |-> f1, cdr |-> g1, used |-> u1, full |-> e]
      BY <3>3, Changed
    <3> QED
      BY <3>1, <3>4 DEF m1, m2
  <2>4. r.m = [car |-> f1, cdr |-> g1, used |-> u1, full |-> e] /\ r.v = c
    BY <2>2, <2>3
  <2> HIDE DEF c, f, g, u, e, r
  <2>5. /\ f1 \in [Cells -> Values] /\ g1 \in [Cells -> Values] /\ u1 \in SUBSET Cells
        /\ f1[c] = a /\ g1[c] = d /\ \A x \in u : f1[x] = f[x] /\ g1[x] = g[x]
    BY <1>f, <2>1 DEF Values
  <2>6. ~e
    BY <1>2, <1>f
  <2> HIDE DEF f1, g1
  <2>7. \A x \in u1 : f1[x] \in u1 \cup Atoms /\ g1[x] \in u1 \cup Atoms
    BY <1>f, <2>5
  <2>8. /\ r.m \in Mems /\ r.m.full = e /\ r.m.used = u1 /\ r.m.car = f1 /\ r.m.cdr = g1
    BY <1>f, <2>4, <2>5, <2>6, <2>7, Typed
  <2>9. Same(m, r.m, {})
    BY <2>5, <2>8 DEF Same, f, g, u
  <2> QED
    BY <2>1, <2>4, <2>6, <2>8, <2>9 DEF r, Known, f1, g1, f, g, u
<1> QED
  BY <1>1, <1>2

----------------------------------------------------------------------------
(* What can be reached.                                                    *)

LEMMA StaysIn ==
  ASSUME NEW n \in Nat, NEW S, NEW g, g[0] \in S,
         \A k \in 1..n : g[k - 1] \in S => g[k] \in S
  PROVE  \A k \in 0..n : g[k] \in S
<1> DEFINE T == {k \in 0..n : g[k] \in S}
<1>1. 0 \in T /\ 0 \in Nat
  OBVIOUS
<1>2. ASSUME NEW k \in 0..n, k \in T /\ k < n PROVE k + 1 \in T
  <2>1. k + 1 \in 1..n /\ (k + 1) - 1 = k /\ k + 1 \in 0..n
    BY <1>2
  <2> QED
    BY <1>2, <2>1
<1>3. \A k \in 0..n : k \in T
  <2> HIDE DEF T
  <2> QED
    BY <1>1, <1>2, Upwards
<1> QED
  BY <1>3

(* The sets of cells that the loop of Reach goes through. *)
Spreads(m, S, at) == /\ at[0] = S /\ Reach(m, S) = at[Turns]
                     /\ \A k \in 1..Turns : at[k] = at[k - 1] \cup Targets(m, at[k - 1])

LEMMA ReachLoop ==
  ASSUME NEW m, NEW S \in SUBSET Cells
  PROVE  \E at : Spreads(m, S, at)
<1> DEFINE at == CHOOSE at : at = [k \in 0..Turns |->
                   IF k = 0 THEN S ELSE at[k - 1] \cup Targets(m, at[k - 1])]
           U == SUBSET Cells
           f == [T \in U |-> T \cup Targets(m, T)]
<1>1. f \in [U -> U]
  BY DEF Targets
<1>2. PICK h \in [0..Turns -> U] : Looped(Turns, S, f, h)
  <2> HIDE DEF f, U
  <2>1. S \in U
    BY DEF U
  <2> QED
    BY <1>1, <2>1, LoopedStep, TurnsFacts
<1>3. h = [k \in 0..Turns |-> IF k = 0 THEN S ELSE h[k - 1] \cup Targets(m, h[k - 1])]
  <2>1. \A k \in 0..Turns : k # 0 => k - 1 \in 0..Turns
    BY TurnsFacts
  <2>2. \A k \in 0..Turns : k # 0 => f[h[k - 1]] = h[k - 1] \cup Targets(m, h[k - 1])
    BY <2>1
  <2> HIDE DEF f, U
  <2> QED
    BY <1>2, <2>2 DEF Looped
<1>4. at = [k \in 0..Turns |-> IF k = 0 THEN S ELSE at[k - 1] \cup Targets(m, at[k - 1])]
  BY <1>3
<1>5. Reach(m, S) = at[Turns]
  BY DEF Reach, Loop
<1> HIDE DEF at
<1>6. at[0] = S /\ \A k \in 1..Turns : at[k] = at[k - 1] \cup Targets(m, at[k - 1])
  <2>1. \A k \in 1..Turns : k \in 0..Turns /\ k # 0
    BY TurnsFacts
  <2>2. 0 \in 0..Turns
    BY TurnsFacts
  <2>3. \A k \in 0..Turns : at[k] = IF k = 0 THEN S ELSE at[k - 1] \cup Targets(m, at[k - 1])
    BY <1>4
  <2> QED
    BY <2>1, <2>2, <2>3
<1> QED
  BY <1>5, <1>6 DEF Spreads

LEMMA ReachFacts ==
  ASSUME NEW m, NEW S \in SUBSET Cells
  PROVE  /\ S \subseteq Reach(m, S) /\ Reach(m, S) \subseteq Cells
         /\ Targets(m, Reach(m, S)) \subseteq Reach(m, S)
         /\ \A T : S \subseteq T /\ Targets(m, T) \subseteq T => Reach(m, S) \subseteq T
<1>0. PICK at : Spreads(m, S, at)
  BY ReachLoop
<1>1. /\ at[0] = S /\ Reach(m, S) = at[Turns]
      /\ \A k \in 1..Turns : at[k] = at[k - 1] \cup Targets(m, at[k - 1])
  BY <1>0 DEF Spreads
<1>t. Turns \in 0..Turns /\ Turns \in Nat /\ Turns \in Int
  <2>1. Turns \in Nat
    BY TurnsFacts
  <2> QED
    BY <2>1
<1>2. \A k \in 0..Turns : at[k] \in {U \in SUBSET Cells : S \subseteq U}
  <2> DEFINE V == {U \in SUBSET Cells : S \subseteq U}
  <2>1. at[0] \in V /\ \A k \in 1..Turns : at[k - 1] \in V => at[k] \in V
    BY <1>1 DEF Targets
  <2> HIDE DEF V
  <2>2. \A k \in 0..Turns : at[k] \in V
    BY <1>t, <2>1, StaysIn
  <2> QED
    BY <2>2 DEF V
<1>3. Targets(m, at[Turns]) \subseteq at[Turns]
  <2> DEFINE Ready == {k \in 0..Turns : \/ Targets(m, at[k]) \subseteq at[k]
                                        \/ Cardinality(at[k]) >= k}
  <2>f. \A U \in SUBSET Cells : IsFiniteSet(U) /\ Cardinality(U) \in Nat /\ Cardinality(U) < Turns
    BY TurnsFacts, FS_Subset, FS_CardinalityType
  <2>1. 0 \in Ready
    BY <1>2, <1>t, <2>f
  <2>2. ASSUME NEW k \in 0..Turns, k \in Ready /\ k < Turns PROVE k + 1 \in Ready
    <3>1. k + 1 \in 1..Turns /\ (k + 1) - 1 = k /\ k + 1 \in 0..Turns
      BY <1>t, <2>2
    <3>2. at[k + 1] = at[k] \cup Targets(m, at[k])
      BY <1>1, <3>1
    <3>3. CASE Targets(m, at[k]) \subseteq at[k]
      <4>1. at[k + 1] = at[k]
        BY <3>2, <3>3
      <4> QED
        BY <3>1, <3>3, <4>1
    <3>4. CASE ~(Targets(m, at[k]) \subseteq at[k])
      <4>1. Cardinality(at[k]) >= k
        BY <2>2, <3>4
      <4>2. at[k] \subseteq at[k + 1] /\ at[k] # at[k + 1]
        BY <3>2, <3>4
      <4>3. Cardinality(at[k]) < Cardinality(at[k + 1])
        BY <1>2, <2>f, <3>1, <4>2, FS_Subset
      <4>4. Cardinality(at[k]) \in Nat /\ Cardinality(at[k + 1]) \in Nat
        BY <1>2, <2>f, <3>1
      <4> QED
        BY <3>1, <4>1, <4>3, <4>4
    <3> QED
      BY <3>3, <3>4
  <2>3. Turns \in Ready
    <3>1. \A k \in 0..Turns : k \in Ready
      <4> HIDE DEF Ready
      <4>1. 0 \in Nat
        OBVIOUS
      <4> QED
        BY <1>t, <2>1, <2>2, <4>1, Upwards
    <3> QED
      BY <1>t, <3>1
  <2> QED
    BY <1>2, <1>t, <2>3, <2>f
<1>4. ASSUME NEW T, S \subseteq T, Targets(m, T) \subseteq T PROVE at[Turns] \subseteq T
  <2> DEFINE V == SUBSET T
  <2>1. at[0] \in V /\ \A k \in 1..Turns : at[k - 1] \in V => at[k] \in V
    BY <1>1, <1>4 DEF Targets
  <2> HIDE DEF V
  <2>2. \A k \in 0..Turns : at[k] \in V
    BY <1>t, <2>1, StaysIn
  <2> QED
    BY <1>t, <2>2 DEF V
<1> QED
  BY <1>1, <1>2, <1>3, <1>4, <1>t

(* The pairs of a list, and those that the variables reach.                *)
LEMMA PairsFacts ==
  ASSUME NEW m \in Mems, NEW x
  PROVE  /\ Pairs(m, x) \subseteq Cells /\ (x \in Cells => x \in Pairs(m, x))
         /\ \A c \in Pairs(m, x) : m.cdr[c] \in Cells => m.cdr[c] \in Pairs(m, x)
         /\ \A T \in SUBSET Cells :
              /\ x \in Cells => x \in T
              /\ \A c \in T : m.cdr[c] \in Cells => m.cdr[c] \in T
              => Pairs(m, x) \subseteq T
<1> DEFINE z == [c \in Cells |-> Nil]
           n == [m EXCEPT !.car = z]
           S == {x} \cap Cells
<1>1. n.car = z /\ n.cdr = m.cdr
  BY DEF Mems
<1>2. Pairs(m, x) = Reach(n, S) /\ S \in SUBSET Cells
  BY DEF Pairs
<1>3. \A c \in Cells : n.car[c] \notin Cells
  BY <1>1, CellsAssumption DEF Atoms
<1> HIDE DEF n, S
<1>4. \A T \in SUBSET Cells : Targets(n, T) \subseteq T
                              <=> \A c \in T : m.cdr[c] \in Cells => m.cdr[c] \in T
  BY <1>1, <1>3 DEF Targets
<1>5. /\ S \subseteq Reach(n, S) /\ Reach(n, S) \subseteq Cells
      /\ Targets(n, Reach(n, S)) \subseteq Reach(n, S)
      /\ \A T : S \subseteq T /\ Targets(n, T) \subseteq T => Reach(n, S) \subseteq T
  BY <1>2, ReachFacts
<1>6. \A T : S \subseteq T <=> (x \in Cells => x \in T)
  BY DEF S
<1> QED
  BY <1>2, <1>4, <1>5, <1>6

LEMMA HeldFacts ==
  ASSUME NEW m \in Mems, NEW h \in [Vars -> Known(m)]
  PROVE  /\ HeldCells(m, h) \subseteq m.used
         /\ \A x \in Vars : h[x] \in Cells => h[x] \in HeldCells(m, h)
         /\ \A c \in HeldCells(m, h) :
              /\ m.car[c] \in Cells => m.car[c] \in HeldCells(m, h)
              /\ m.cdr[c] \in Cells => m.cdr[c] \in HeldCells(m, h)
         /\ \A T : /\ \A x \in Vars : h[x] \in Cells => h[x] \in T
                   /\ \A c \in T : /\ m.car[c] \in Cells => m.car[c] \in T
                                   /\ m.cdr[c] \in Cells => m.cdr[c] \in T
                   => HeldCells(m, h) \subseteq T
<1> DEFINE S == {h[x] : x \in Vars} \cap Cells
           H == HeldCells(m, h)
<1>1. H = Reach(m, S) /\ S \in SUBSET Cells
  BY DEF HeldCells
<1> HIDE DEF S, H
<1>2. /\ S \subseteq H /\ Targets(m, H) \subseteq H
      /\ \A T : S \subseteq T /\ Targets(m, T) \subseteq T => H \subseteq T
  BY <1>1, ReachFacts
<1>3. \A T : S \subseteq T <=> \A x \in Vars : h[x] \in Cells => h[x] \in T
  BY DEF S
<1>4. \A T : Targets(m, T) \subseteq T
             <=> \A c \in T : /\ m.car[c] \in Cells => m.car[c] \in T
                              /\ m.cdr[c] \in Cells => m.cdr[c] \in T
  BY DEF Targets
<1>5. H \subseteq m.used
  <2>1. \A x \in Known(m) : x \in Cells => x \in m.used
    BY MemFacts DEF is_pair
  <2>2. S \subseteq m.used
    BY <2>1 DEF S
  <2>3. Targets(m, m.used) \subseteq m.used
    BY <1>4, <2>1, MemFacts
  <2> QED
    BY <1>2, <2>2, <2>3
<1> QED
  BY <1>2, <1>3, <1>4, <1>5 DEF H
----------------------------------------------------------------------------
(* The memory after a collection.                                          *)

LEMMA CollectedFacts ==
  ASSUME NEW m \in Mems, NEW h \in [Vars -> Known(m)]
  PROVE  LET n == Collected(m, h)
         IN  /\ n \in Mems /\ n.full = FALSE /\ n.used = HeldCells(m, h)
             /\ h \in [Vars -> Known(n)]
             /\ HeldCells(n, h) \subseteq HeldCells(m, h)
             /\ \A c \in HeldCells(m, h) : n.car[c] = m.car[c] /\ n.cdr[c] = m.cdr[c]
<1> DEFINE H == HeldCells(m, h)
           f == [c \in Cells |-> IF c \in H THEN m.car[c] ELSE Nil]
           g == [c \in Cells |-> IF c \in H THEN m.cdr[c] ELSE Nil]
           no == FALSE
           n == Collected(m, h)
<1>1. n = [car |-> f, cdr |-> g, used |-> H, full |-> no]
  BY DEF Collected
<1>2. /\ H \in SUBSET Cells /\ H \subseteq m.used
      /\ \A c \in H : /\ m.car[c] \in Cells => m.car[c] \in H
                      /\ m.cdr[c] \in Cells => m.cdr[c] \in H
  BY HeldFacts, MemFacts
<1>3. \A x \in Vars : h[x] \in Cells => h[x] \in H
  BY HeldFacts
<1> HIDE DEF H, n
<1>4. /\ f \in [Cells -> Values] /\ g \in [Cells -> Values]
      /\ \A c \in H : f[c] = m.car[c] /\ g[c] = m.cdr[c]
  BY <1>2, MemFacts DEF Values
<1> HIDE DEF f, g
<1>5. \A x \in Known(m) : (x \in Cells => x \in H) => x \in H \cup Atoms
  BY MemFacts DEF Values
<1>6. \A c \in H : f[c] \in H \cup Atoms /\ g[c] \in H \cup Atoms
  BY <1>2, <1>4, <1>5, MemFacts
<1>7. no \in BOOLEAN /\ (no => H = Cells) /\ no = FALSE
  OBVIOUS
<1> HIDE DEF no
<1>8. n \in Mems
  <2>1. [car |-> f, cdr |-> g, used |-> H, full |-> no] \in Mems
    BY <1>2, <1>4, <1>6, <1>7, Typed
  <2> QED
    BY ONLY <1>1, <2>1
<1>9. n.car = f /\ n.cdr = g /\ n.used = H /\ n.full = no
  BY ONLY <1>1
<1>10. h \in [Vars -> Known(n)]
  BY <1>3, <1>5, <1>9 DEF Known
<1>11. HeldCells(n, h) \subseteq H
  <2>1. \A c \in H : /\ n.car[c] \in Cells => n.car[c] \in H
                     /\ n.cdr[c] \in Cells => n.cdr[c] \in H
    BY <1>2, <1>4, <1>9
  <2> QED
    BY <1>3, <1>8, <1>10, <2>1, HeldFacts
<1> QED
  BY <1>4, <1>7, <1>8, <1>9, <1>10, <1>11 DEF H, n

----------------------------------------------------------------------------
(* The cells that were taken since l, linked one to another: v is one of   *)
(* them or (), and none links back to itself.                              *)
Taken(l, n) == n.used \ l.used
Ranked(l, n, r) ==
  \A c \in Taken(l, n) : \/ n.cdr[c] = Nil
                         \/ n.cdr[c] \in Taken(l, n) /\ r[n.cdr[c]] < r[c]
Strand(l, n, v) ==
  /\ n \in Mems /\ Same(l, n, {})
  /\ v \in Taken(l, n) \cup {Nil}
  /\ \E r \in [Cells -> Nat] : Ranked(l, n, r)

LEMMA StrandStart ==
  ASSUME NEW m \in Mems
  PROVE  Strand(m, m, Nil)
<1>1. [c \in Cells |-> 0] \in [Cells -> Nat] /\ Taken(m, m) = {}
  BY DEF Taken
<1> QED
  BY <1>1, MemFacts DEF Strand, Ranked

LEMMA StrandCons ==
  ASSUME NEW l \in Mems, NEW n, NEW v, Strand(l, n, v), NEW a \in Known(n)
  PROVE  LET t == cons(n, a, v) IN Strand(l, t.m, t.v) /\ Same(n, t.m, {})
<1> DEFINE t == cons(n, a, v)
<1>1. n \in Mems /\ Same(l, n, {}) /\ v \in Taken(l, n) \cup {Nil} /\ v \in Known(n)
  BY MemFacts DEF Strand, Taken, Known
<1>2. /\ t.m \in Mems /\ t.v \in Known(t.m) /\ Same(n, t.m, {}) /\ t.m.full \in BOOLEAN
      /\ t.m.full => n.used = Cells /\ t.m.used = Cells /\ t.v = Nil
      /\ ~t.m.full => /\ t.v \in Cells \ n.used /\ t.m.used = n.used \cup {t.v}
                      /\ t.m.cdr = [n.cdr EXCEPT ![t.v] = v]
  BY <1>1, ConsFacts, MemFacts
<1>3. PICK r \in [Cells -> Nat] : Ranked(l, n, r)
  BY DEF Strand
<1> HIDE DEF t
<1>4. Same(l, t.m, {})
  BY <1>1, <1>2, SameTurns
<1>5. CASE t.m.full
  <2>1. Taken(l, t.m) = Taken(l, n) /\ \A c \in Taken(l, n) : t.m.cdr[c] = n.cdr[c]
    BY <1>1, <1>2, <1>5, MemFacts DEF Taken, Same
  <2>2. Ranked(l, t.m, r)
    BY <1>3, <2>1 DEF Ranked
  <2> QED
    BY <1>2, <1>4, <1>5, <2>2 DEF Strand, t
<1>6. CASE ~t.m.full
  <2> DEFINE c == t.v
             q == [r EXCEPT ![c] = IF v = Nil THEN 0 ELSE r[v] + 1]
  <2>1. c \in Cells /\ c \notin n.used /\ n.used \in SUBSET Cells /\ n.cdr \in [Cells -> Values]
    BY <1>1, <1>2, <1>6, MemFacts
  <2>2. Taken(l, t.m) = Taken(l, n) \cup {c}
    BY <1>1, <1>2, <1>6, <2>1 DEF Taken, Same
  <2>3. t.m.cdr[c] = v /\ \A d \in Taken(l, n) : d # c /\ d \in Cells /\ t.m.cdr[d] = n.cdr[d]
    BY <1>2, <1>6, <2>1 DEF Taken
  <2>4. v # Nil => v \in Cells /\ v # c /\ r[v] \in Nat
    BY <1>1, <2>1, <2>3 DEF Taken
  <2>5. q \in [Cells -> Nat] /\ \A d \in Cells : d # c => q[d] = r[d]
    BY <2>1, <2>4
  <2>6. v # Nil => q[c] = r[v] + 1 /\ q[v] = r[v]
    BY <2>1, <2>4
  <2> HIDE DEF c, q
  <2>7. \A d \in Taken(l, t.m) : \/ t.m.cdr[d] = Nil
                                 \/ t.m.cdr[d] \in Taken(l, t.m) /\ q[t.m.cdr[d]] < q[d]
    <3>1. CASE v = Nil
      BY <1>3, <2>2, <2>3, <2>5, <3>1 DEF Ranked
    <3>2. CASE v # Nil
      <4>1. q[v] < q[c] /\ v \in Taken(l, t.m)
        BY <1>1, <2>2, <2>4, <2>6, <3>2
      <4> QED
        BY <1>3, <2>2, <2>3, <2>5, <4>1 DEF Ranked
    <3> QED
      BY <3>1, <3>2
  <2>8. Ranked(l, t.m, q)
    BY <2>7 DEF Ranked
  <2> QED
    BY <1>2, <1>4, <2>2, <2>5, <2>8 DEF Strand, t, c
<1> QED
  BY <1>2, <1>5, <1>6

(* The pairs of a strand were taken since.                                 *)
LEMMA StrandPairs ==
  ASSUME NEW l \in Mems, NEW n, NEW v, Strand(l, n, v)
  PROVE  Pairs(n, v) \subseteq Taken(l, n)
<1>1. n \in Mems /\ v \in Taken(l, n) \cup {Nil} /\ Taken(l, n) \in SUBSET Cells
  BY MemFacts DEF Strand, Taken
<1>2. \A c \in Taken(l, n) : n.cdr[c] \in Cells => n.cdr[c] \in Taken(l, n)
  BY CellsAssumption DEF Strand, Ranked, Atoms
<1>3. v \in Cells => v \in Taken(l, n)
  BY <1>1, CellsAssumption DEF Atoms
<1> QED
  BY <1>1, <1>2, <1>3, PairsFacts
----------------------------------------------------------------------------
(* What the procedures do to the memory.                                   *)

LEMMA SetCdrFacts ==
  ASSUME NEW m \in Mems, NEW x \in Known(m), NEW d \in Known(m)
  PROVE  LET n == SetCdr(m, x, d)
         IN  /\ n \in Mems /\ n.used = m.used /\ n.full = m.full
             /\ n.car = m.car /\ n.cdr = [m.cdr EXCEPT ![x] = d]
             /\ \A l, W : Same(l, m, W) => Same(l, n, W \cup {x})
<1> DEFINE n == SetCdr(m, x, d)
           f == m.car
           g == m.cdr
           u == m.used
           e == m.full
           g1 == [g EXCEPT ![x] = d]
<1>1. /\ f \in [Cells -> Values] /\ g \in [Cells -> Values] /\ u \in SUBSET Cells
      /\ (e => u = Cells) /\ e \in BOOLEAN
      /\ (\A c \in u : f[c] \in u \cup Atoms /\ g[c] \in u \cup Atoms)
      /\ d \in u \cup Atoms /\ d \in Values
      /\ m = [car |-> f, cdr |-> g, used |-> u, full |-> e]
  BY MemFacts, Fields DEF Known
<1>2. n = [m EXCEPT !.cdr[x] = d]
  BY DEF SetCdr
<1> HIDE DEF n, f, g, u, e
<1>3. n = [car |-> f, cdr |-> g1, used |-> u, full |-> e]
  BY <1>1, <1>2, Changed
<1>4. g1 \in [Cells -> Values] /\ \A c \in Cells : g1[c] = IF c = x THEN d ELSE g[c]
  BY <1>1
<1> HIDE DEF g1
<1>5. \A c \in u : f[c] \in u \cup Atoms /\ g1[c] \in u \cup Atoms
  BY <1>1, <1>4
<1>6. n \in Mems /\ n.car = f /\ n.cdr = g1 /\ n.used = u /\ n.full = e
  BY <1>1, <1>3, <1>4, <1>5, Typed
<1>7. ASSUME NEW l, NEW W, Same(l, m, W) PROVE Same(l, n, W \cup {x})
  BY <1>1, <1>4, <1>6, <1>7 DEF Same, f, g, u
<1> QED
  BY <1>6, <1>7 DEF n, f, g, g1, u, e

(* States of the loops that have a value v and go along p.                 *)
Threes == {s \in [m : Mems, v : Values, p : Values] : s.v \in Known(s.m) /\ s.p \in Known(s.m)}

LEMMA ThreeIs ==
  ASSUME NEW m \in Mems, NEW v \in Known(m), NEW p \in Known(m)
  PROVE  [m |-> m, v |-> v, p |-> p] \in Threes
BY MemFacts DEF Threes

LEMMA ThreeHas ==
  ASSUME NEW s \in Threes
  PROVE  /\ s.m \in Mems /\ s.v \in Known(s.m) /\ s.p \in Known(s.m)
         /\ s = [m |-> s.m, v |-> s.v, p |-> s.p]
BY DEF Threes

LEMMA ConsTurnIn ==
  ASSUME NEW s \in Threes
  PROVE  /\ ConsTurn(s) \in Threes
         /\ s.m.full \/ s.p \notin Cells => ConsTurn(s) = s
         /\ ~s.m.full /\ s.p \in Cells =>
              LET t == cons(s.m, s.m.car[s.p], s.v)
              IN  /\ s.m.car[s.p] \in Known(s.m) /\ ConsTurn(s).m = t.m /\ ConsTurn(s).v = t.v
                  /\ ConsTurn(s).p = s.m.cdr[s.p]
<1>1. s.m \in Mems /\ s.v \in Known(s.m) /\ s.p \in Known(s.m)
  BY ThreeHas
<1>2. CASE s.m.full \/ s.p \notin Cells
  BY <1>2 DEF ConsTurn, is_pair
<1>3. CASE ~s.m.full /\ s.p \in Cells
  <2> DEFINE t == cons(s.m, s.m.car[s.p], s.v)
  <2>1. s.p \in s.m.used /\ s.m.car[s.p] \in Known(s.m) /\ s.m.cdr[s.p] \in Known(s.m)
    BY <1>1, <1>3, MemFacts DEF is_pair
  <2>2. ConsTurn(s) = [m |-> t.m, v |-> t.v, p |-> s.m.cdr[s.p]]
    BY <1>3 DEF ConsTurn, is_pair
  <2>3. t.m \in Mems /\ t.v \in Known(t.m) /\ Same(s.m, t.m, {})
    BY <1>1, <2>1, ConsFacts
  <2> HIDE DEF t
  <2>4. s.m.cdr[s.p] \in Known(t.m)
    BY <2>1, <2>3 DEF Same, Known
  <2>5. ConsTurn(s) \in Threes
    BY <2>2, <2>3, <2>4, ThreeIs
  <2> QED
    BY <1>3, <2>1, <2>2, <2>5 DEF t
<1> QED
  BY <1>2, <1>3

LEMMA ConsLoop ==
  ASSUME NEW m \in Mems, NEW v \in Known(m), NEW p \in Known(m)
  PROVE  \E at \in [0..Turns -> Threes] :
           /\ at[0] = [m |-> m, v |-> v, p |-> p] /\ ConsBackwards(m, v, p) = at[Turns]
           /\ \A k \in 1..Turns : at[k] = ConsTurn(at[k - 1])
<1> DEFINE a == [m |-> m, v |-> v, p |-> p]
           at == CHOOSE at : at = [k \in 0..Turns |-> IF k = 0 THEN a ELSE ConsTurn(at[k - 1])]
           f == [s \in Threes |-> ConsTurn(s)]
<1>0. a \in Threes
  BY ThreeIs
<1>5. ConsBackwards(m, v, p) = at[Turns]
  BY DEF ConsBackwards, Loop
<1> HIDE DEF a
<1>1. f \in [Threes -> Threes]
  BY ConsTurnIn
<1>2. PICK h \in [0..Turns -> Threes] : Looped(Turns, a, f, h)
  <2> HIDE DEF f
  <2> QED
    BY <1>0, <1>1, LoopedStep, TurnsFacts
<1>3. h = [k \in 0..Turns |-> IF k = 0 THEN a ELSE ConsTurn(h[k - 1])]
  <2>1. \A k \in 0..Turns : k # 0 => k - 1 \in 0..Turns
    BY TurnsFacts
  <2>2. \A k \in 0..Turns : k # 0 => f[h[k - 1]] = ConsTurn(h[k - 1])
    BY <2>1
  <2> HIDE DEF f
  <2> QED
    BY <1>2, <2>2 DEF Looped
<1>4. at = [k \in 0..Turns |-> IF k = 0 THEN a ELSE ConsTurn(at[k - 1])]
  BY <1>3
<1> HIDE DEF at
<1>t. 0 \in 0..Turns /\ Turns \in Nat /\ \A k \in 1..Turns : k \in 0..Turns /\ k # 0
  BY TurnsFacts
<1>6. at[0] = a /\ \A k \in 1..Turns : at[k] = ConsTurn(at[k - 1])
  <2>1. \A k \in 0..Turns : at[k] = IF k = 0 THEN a ELSE ConsTurn(at[k - 1])
    BY <1>4
  <2> QED
    BY <2>1, <1>t
<1>7. \A k \in 0..Turns : at[k] \in Threes
  <2>1. \A k \in 1..Turns : at[k - 1] \in Threes => at[k] \in Threes
    BY <1>6, ConsTurnIn
  <2> QED
    BY <1>0, <1>6, <1>t, <2>1, StaysIn
<1>8. at \in [0..Turns -> Threes]
  BY <1>4, <1>7
<1> QED
  BY <1>5, <1>6, <1>8 DEF a

LEMMA ConsBackwardsFacts ==
  ASSUME NEW l \in Mems, NEW m, NEW v, Strand(l, m, v), NEW p \in Known(m)
  PROVE  LET e == ConsBackwards(m, v, p)
         IN  e \in Threes /\ Strand(l, e.m, e.v) /\ Same(m, e.m, {})
<1>1. m \in Mems /\ v \in Known(m)
  BY MemFacts DEF Strand, Taken, Known
<1>2. PICK at \in [0..Turns -> Threes] :
        /\ at[0] = [m |-> m, v |-> v, p |-> p] /\ ConsBackwards(m, v, p) = at[Turns]
        /\ \A k \in 1..Turns : at[k] = ConsTurn(at[k - 1])
  BY <1>1, ConsLoop
<1> DEFINE S == {s \in Threes : Strand(l, s.m, s.v) /\ Same(m, s.m, {})}
<1>3. at[0] \in S
  BY <1>1, <1>2, ThreeIs, MemFacts
<1>4. ASSUME NEW k \in 1..Turns, at[k - 1] \in S PROVE at[k] \in S
  <2> DEFINE s == at[k - 1]
  <2>1. s \in Threes /\ Strand(l, s.m, s.v) /\ Same(m, s.m, {}) /\ at[k] = ConsTurn(s)
    BY <1>2, <1>4
  <2> HIDE DEF s
  <2>2. CASE s.m.full \/ s.p \notin Cells
    BY <2>1, <2>2, ConsTurnIn
  <2>3. CASE ~s.m.full /\ s.p \in Cells
    <3> DEFINE t == cons(s.m, s.m.car[s.p], s.v)
    <3>1. /\ s.m.car[s.p] \in Known(s.m) /\ ConsTurn(s) \in Threes
          /\ ConsTurn(s).m = t.m /\ ConsTurn(s).v = t.v
      BY <2>1, <2>3, ConsTurnIn
    <3>2. Strand(l, t.m, t.v) /\ Same(s.m, t.m, {})
      <4>1. Strand(l, t.m, t.v)
        BY <2>1, <3>1, StrandCons
      <4>2. Same(s.m, t.m, {})
        BY <2>1, <3>1, StrandCons
      <4> QED
        BY <4>1, <4>2
    <3>3. s.m \in Mems /\ t.m \in Mems
      BY <2>1, <3>2 DEF Strand
    <3>4. Same(m, t.m, {})
      BY <1>1, <2>1, <3>2, <3>3, SameTurns
    <3> QED
      BY <2>1, <3>1, <3>2, <3>4
  <2> QED
    BY <2>2, <2>3
<1>5. at[Turns] \in S
  <2> HIDE DEF S
  <2>1. \A k \in 0..Turns : at[k] \in S
    BY <1>3, <1>4, TurnsFacts, StaysIn
  <2> QED
    BY <2>1, TurnsFacts
<1> QED
  BY <1>2, <1>5

(* A strand is turned in place: only its cells change.                     *)
LEMMA LinkBackwardsFacts ==
  ASSUME NEW l \in Mems, NEW n, NEW p, Strand(l, n, p), NEW v \in Known(n)
  PROVE  LET e == LinkBackwards(n, v, p)
         IN  /\ e.m \in Mems /\ e.v \in Known(e.m) /\ Same(l, e.m, {})
             /\ e.m.used = n.used /\ e.m.full = n.full
<1> DEFINE a == [m |-> n, v |-> v, p |-> p]
           N == Taken(l, n)
           at == CHOOSE at : at = [k \in 0..Turns |-> IF k = 0 THEN a ELSE LinkTurn(at[k - 1])]
<1>1. /\ n \in Mems /\ Same(l, n, {}) /\ p \in N \cup {Nil} /\ N \subseteq n.used
      /\ N \in SUBSET Cells /\ N \cap l.used = {} /\ l.used \subseteq n.used
  BY MemFacts DEF Strand, Taken, Same
<1>2. PICK r \in [Cells -> Nat] : Ranked(l, n, r)
  BY DEF Strand
<1> DEFINE S == {s \in [m : Mems, v : Values, p : Values] :
                   /\ Same(l, s.m, {}) /\ s.m.used = n.used /\ s.m.full = n.full
                   /\ s.v \in Known(n) /\ s.p \in N \cup {Nil}
                   /\ s.p # Nil => \A c \in N : r[c] <= r[s.p] => s.m.cdr[c] = n.cdr[c]}
           f == [s \in S |-> LinkTurn(s)]
<1>3. a \in S
  BY <1>1, MemFacts DEF Known, Values
<1>4. \A s \in S : LinkTurn(s) \in S
  <2> SUFFICES ASSUME NEW s \in S PROVE LinkTurn(s) \in S
    OBVIOUS
  <2>1. /\ s.m \in Mems /\ s.v \in Values /\ s.p \in Values
        /\ Same(l, s.m, {}) /\ s.m.used = n.used /\ s.m.full = n.full
        /\ s.v \in Known(n) /\ s.p \in N \cup {Nil}
        /\ s.p # Nil => \A c \in N : r[c] <= r[s.p] => s.m.cdr[c] = n.cdr[c]
    OBVIOUS
  <2>2. CASE s.p = Nil
    BY <2>2 DEF LinkTurn
  <2>3. CASE s.p # Nil
    <3> DEFINE q == s.m.cdr[s.p]
               t == SetCdr(s.m, s.p, s.v)
    <3>1. LinkTurn(s) = [m |-> t, v |-> s.p, p |-> q]
      BY <2>3 DEF LinkTurn
    <3> HIDE DEF S
    <3>2. s.p \in N /\ r[s.p] \in Nat /\ s.p \in Known(n) /\ Known(s.m) = Known(n)
      BY <1>1, <2>1, <2>3 DEF Known
    <3>3. q = n.cdr[s.p] /\ (q = Nil \/ (q \in N /\ r[q] < r[s.p]))
      <4>1. q = n.cdr[s.p]
        BY <2>1, <2>3, <3>2
      <4> QED
        BY <1>2, <3>2, <4>1 DEF Ranked
    <3>4. /\ t \in Mems /\ t.used = s.m.used /\ t.full = s.m.full
          /\ t.cdr = [s.m.cdr EXCEPT ![s.p] = s.v]
          /\ \A k, W : Same(k, s.m, W) => Same(k, t, W \cup {s.p})
      BY <2>1, <3>2, SetCdrFacts
    <3> HIDE DEF t, q
    <3>5. Same(l, t, {})
      <4>1. Same(l, t, {s.p}) /\ s.p \notin l.used
        BY <1>1, <2>1, <3>2, <3>4
      <4> QED
        BY <4>1 DEF Same
    <3>6. q # Nil => \A c \in N : r[c] <= r[q] => t.cdr[c] = n.cdr[c]
      <4> SUFFICES ASSUME q # Nil, NEW c \in N, r[c] <= r[q] PROVE t.cdr[c] = n.cdr[c]
        OBVIOUS
      <4>1. r[c] \in Nat /\ r[q] \in Nat /\ r[q] < r[s.p]
        BY <1>1, <3>3
      <4>2. c # s.p /\ r[c] <= r[s.p]
        BY <3>2, <4>1
      <4>3. c \in Cells /\ s.m.cdr \in [Cells -> Values]
        BY <1>1, <2>1, MemFacts
      <4> QED
        BY <2>1, <2>3, <3>4, <4>2, <4>3
    <3>7. q \in Values
      BY <1>1, <3>3, CellsAssumption DEF Values, Atoms
    <3> DEFINE w == LinkTurn(s)
    <3>8. w.m = t /\ w.v = s.p /\ w.p = q /\ w \in [m : Mems, v : Values, p : Values]
      BY <2>1, <3>1, <3>4, <3>7
    <3> HIDE DEF w
    <3>9. w.p \in N \cup {Nil} /\ w.v \in Known(n) /\ Same(l, w.m, {})
          /\ w.m.used = n.used /\ w.m.full = n.full
      BY <2>1, <3>2, <3>3, <3>4, <3>5, <3>8
    <3>10. w.p # Nil => \A c \in N : r[c] <= r[w.p] => w.m.cdr[c] = n.cdr[c]
      BY <3>6, <3>8
    <3>11. w \in S
      BY <3>8, <3>9, <3>10 DEF S
    <3> QED
      BY <3>11 DEF w
  <2> QED
    BY <2>2, <2>3
<1>5. LinkBackwards(n, v, p) = at[Turns]
  BY DEF LinkBackwards, Loop
<1>6. PICK h \in [0..Turns -> S] : Looped(Turns, a, f, h)
  <2>1. f \in [S -> S]
    BY <1>4
  <2> HIDE DEF S, f, a
  <2> QED
    BY <1>3, <2>1, LoopedStep, TurnsFacts
<1> HIDE DEF S, a
<1>7. h = [k \in 0..Turns |-> IF k = 0 THEN a ELSE LinkTurn(h[k - 1])]
  <2>1. \A k \in 0..Turns : k # 0 => k - 1 \in 0..Turns
    BY TurnsFacts
  <2>2. \A k \in 0..Turns : k # 0 => f[h[k - 1]] = LinkTurn(h[k - 1])
    BY <2>1
  <2> HIDE DEF f
  <2> QED
    BY <1>6, <2>2 DEF Looped
<1>8. at = [k \in 0..Turns |-> IF k = 0 THEN a ELSE LinkTurn(at[k - 1])]
  BY <1>7
<1> HIDE DEF at
<1>t. 0 \in 0..Turns /\ Turns \in Nat /\ \A k \in 1..Turns : k \in 0..Turns /\ k # 0
  BY TurnsFacts
<1>9. at[0] = a /\ \A k \in 1..Turns : at[k] = LinkTurn(at[k - 1])
  <2>1. \A k \in 0..Turns : at[k] = IF k = 0 THEN a ELSE LinkTurn(at[k - 1])
    BY <1>8
  <2> QED
    BY <2>1, <1>t
<1>10. at[Turns] \in S
  <2>1. \A k \in 1..Turns : at[k - 1] \in S => at[k] \in S
    BY <1>4, <1>9
  <2>2. \A k \in 0..Turns : at[k] \in S
    BY <1>3, <1>9, <1>t, <2>1, StaysIn
  <2> QED
    BY <1>t, <2>2
<1>11. Known(at[Turns].m) = Known(n)
  BY <1>10 DEF Known, S
<1> QED
  BY <1>5, <1>10, <1>11 DEF S

(* States of the loop of list_star.                                        *)
Twos == {s \in [m : Mems, v : Values] : s.v \in Known(s.m)}

LEMMA CopyTurnFacts ==
  ASSUME NEW s \in Twos
  PROVE  /\ CopyTurn(s) \in Twos /\ Same(s.m, CopyTurn(s).m, {})
         /\ s.m.full => CopyTurn(s) = s
         /\ \/ CopyTurn(s) = s
            \/ CopyTurn(s).m.full
            \/ CopyTurn(s).v = s.v
            \/ s.v \in Cells /\ s.m.cdr[s.v] \in Cells /\ CopyTurn(s).v = s.m.cdr[s.v]
<1>1. s.m \in Mems /\ s.v \in Known(s.m)
  BY DEF Twos
<1>2. CASE s.m.full \/ cdr(s.m, cdr(s.m, s.v)) = Nil
  BY <1>1, <1>2, MemFacts DEF CopyTurn
<1>3. CASE ~(s.m.full \/ cdr(s.m, cdr(s.m, s.v)) = Nil)
  <2> DEFINE x == cdr(s.m, s.v)
             c == cons(s.m, car(s.m, s.v), x)
             w == IF cdr(c.m, cdr(c.m, s.v)) # Nil THEN cdr(c.m, c.v) ELSE s.v
  <2>1. CopyTurn(s) = [m |-> c.m, v |-> w]
    BY <1>3 DEF CopyTurn, Copied, Result
  <2>2. s.v \in Cells /\ x \in Cells /\ x = s.m.cdr[s.v] /\ car(s.m, s.v) \in Known(s.m) /\ x \in Known(s.m)
    BY <1>1, <1>3, MemFacts DEF cdr
  <2>3. /\ c.m \in Mems /\ c.v \in Known(c.m) /\ Same(s.m, c.m, {})
        /\ ~c.m.full => c.v \in Cells \ s.m.used /\ c.m.cdr = [s.m.cdr EXCEPT ![c.v] = x]
    BY <1>1, <2>2, ConsFacts
  <2> HIDE DEF x, c
  <2>4. cdr(c.m, c.v) \in Known(c.m) /\ s.v \in Known(c.m) /\ Known(c.m) \subseteq Values
    BY <1>1, <2>3, MemFacts DEF Same, Known
  <2>5. w \in Known(c.m)
    BY <2>4
  <2>6. c.m.full \/ w = s.v \/ w = x
    <3>1. ~c.m.full => cdr(c.m, c.v) = x
      BY <1>1, <2>3, MemFacts DEF cdr
    <3> QED
      BY <3>1
  <2> HIDE DEF w
  <2>7. CopyTurn(s).m = c.m /\ CopyTurn(s).v = w /\ CopyTurn(s) \in Twos
    BY <2>1, <2>3, <2>4, <2>5 DEF Twos
  <2> QED
    BY <1>3, <2>2, <2>3, <2>6, <2>7
<1> QED
  BY <1>2, <1>3

LEMMA CopyLoop ==
  ASSUME NEW a \in Twos
  PROVE  \E at \in [0..Turns -> Twos] :
           /\ at[0] = a /\ Loop(CopyTurn, a) = at[Turns]
           /\ \A k \in 1..Turns : at[k] = CopyTurn(at[k - 1])
<1> DEFINE at == CHOOSE at : at = [k \in 0..Turns |-> IF k = 0 THEN a ELSE CopyTurn(at[k - 1])]
           f == [s \in Twos |-> CopyTurn(s)]
<1>1. f \in [Twos -> Twos]
  BY CopyTurnFacts
<1>2. PICK h \in [0..Turns -> Twos] : Looped(Turns, a, f, h)
  <2> HIDE DEF f
  <2> QED
    BY <1>1, LoopedStep, TurnsFacts
<1>3. h = [k \in 0..Turns |-> IF k = 0 THEN a ELSE CopyTurn(h[k - 1])]
  <2>1. \A k \in 0..Turns : k # 0 => k - 1 \in 0..Turns
    BY TurnsFacts
  <2>2. \A k \in 0..Turns : k # 0 => f[h[k - 1]] = CopyTurn(h[k - 1])
    BY <2>1
  <2> HIDE DEF f
  <2> QED
    BY <1>2, <2>2 DEF Looped
<1>4. at = [k \in 0..Turns |-> IF k = 0 THEN a ELSE CopyTurn(at[k - 1])]
  BY <1>3
<1>5. Loop(CopyTurn, a) = at[Turns]
  BY DEF Loop
<1> HIDE DEF at
<1>t. 0 \in 0..Turns /\ Turns \in Nat /\ \A k \in 1..Turns : k \in 0..Turns /\ k # 0
  BY TurnsFacts
<1>6. at[0] = a /\ \A k \in 1..Turns : at[k] = CopyTurn(at[k - 1])
  <2>1. \A k \in 0..Turns : at[k] = IF k = 0 THEN a ELSE CopyTurn(at[k - 1])
    BY <1>4
  <2> QED
    BY <2>1, <1>t
<1>7. \A k \in 0..Turns : at[k] \in Twos
  <2>1. \A k \in 1..Turns : at[k - 1] \in Twos => at[k] \in Twos
    BY <1>6, CopyTurnFacts
  <2> QED
    BY <1>6, <1>t, <2>1, StaysIn
<1>8. at \in [0..Turns -> Twos]
  BY <1>4, <1>7
<1> QED
  BY <1>5, <1>6, <1>8

(* list_star writes into a pair of its arguments, or into its copy of the  *)
(* first, what is two steps further.                                       *)
LEMMA ListStarFacts ==
  ASSUME NEW m \in Mems, NEW d \in Known(m)
  PROVE  LET r == list_star(m, d)
         IN  /\ r.m \in Mems /\ r.v \in Known(r.m) /\ Same(m, r.m, Pairs(m, d))
             /\ \A h \in [Vars -> Known(m)] : HeldCells(r.m, h) \subseteq HeldCells(m, h)
<1> DEFINE r == list_star(m, d)
           P == Pairs(m, d)
<1>m. car(m, d) \in Known(m) /\ cdr(m, d) \in Known(m) /\ Same(m, m, {}) /\ Same(m, m, P)
  BY MemFacts
<1>1. CASE cdr(m, d) = Nil
  BY <1>1, <1>m DEF list_star, Result
<1>2. CASE cdr(m, d) # Nil
  <2> DEFINE q == cons(m, car(m, d), cdr(m, d))
             e == Loop(CopyTurn, q)
  <2>1. d \in Cells /\ cdr(m, d) = m.cdr[d]
    BY <1>2 DEF cdr
  <2>2. /\ q.m \in Mems /\ q.v \in Known(q.m) /\ Same(m, q.m, {})
        /\ ~q.m.full => q.v \in Cells \ m.used /\ q.m.cdr = [m.cdr EXCEPT ![q.v] = cdr(m, d)]
        /\ q.m.full => q.v = Nil
    BY <1>m, ConsFacts
  <2>3. q \in Twos
    <3>1. q = [m |-> q.m, v |-> q.v]
      BY DEF cons
    <3> HIDE DEF q
    <3> QED
      BY <2>2, <3>1, MemFacts DEF Twos
  <2>4. PICK at \in [0..Turns -> Twos] :
          /\ at[0] = q /\ e = at[Turns]
          /\ \A k \in 1..Turns : at[k] = CopyTurn(at[k - 1])
    <3> HIDE DEF q
    <3> QED
      BY <2>3, CopyLoop
  <2>5. r = IF e.m.full THEN e ELSE Result(SetCdr(e.m, e.v, car(e.m, cdr(e.m, e.v))), q.v)
    BY <1>2 DEF list_star, Copied
  <2> HIDE DEF q, e, r
  <2> DEFINE S == {s \in Twos : /\ Same(m, s.m, {}) /\ Same(q.m, s.m, {})
                                /\ ~s.m.full => ~q.m.full /\ (s.v = q.v \/ s.v \in P)}
  <2>6. at[0] \in S
    BY <2>2, <2>3, <2>4, MemFacts
  <2>7. ASSUME NEW k \in 1..Turns, at[k - 1] \in S PROVE at[k] \in S
    <3> DEFINE s == at[k - 1]
               t == CopyTurn(s)
    <3>1. /\ s \in Twos /\ s.m \in Mems /\ Same(m, s.m, {}) /\ Same(q.m, s.m, {})
          /\ ~s.m.full => ~q.m.full /\ (s.v = q.v \/ s.v \in P)
          /\ at[k] = t
      BY <2>4, <2>7 DEF Twos
    <3> HIDE DEF s
    <3>2. /\ t \in Twos /\ Same(s.m, t.m, {})
          /\ s.m.full => t = s
          /\ \/ t = s
             \/ t.m.full
             \/ t.v = s.v
             \/ s.v \in Cells /\ s.m.cdr[s.v] \in Cells /\ t.v = s.m.cdr[s.v]
      BY <3>1, CopyTurnFacts
    <3> HIDE DEF t
    <3>3. Same(m, t.m, {}) /\ Same(q.m, t.m, {}) /\ t.m \in Mems
      BY <2>2, <3>1, <3>2, SameTurns DEF Twos
    <3>4. ~t.m.full => ~s.m.full
      BY <3>2
    <3>5. ASSUME ~t.m.full PROVE t.v = q.v \/ t.v \in P
      <4>1. /\ ~s.m.full /\ ~q.m.full /\ (s.v = q.v \/ s.v \in P)
            /\ P \subseteq Cells /\ d \in P
            /\ \A c \in P : m.cdr[c] \in Cells => m.cdr[c] \in P
        BY <2>1, <3>1, <3>4, <3>5, PairsFacts
      <4>2. CASE s.v = q.v
        <5>1. q.v \in q.m.used /\ q.m.cdr[q.v] = m.cdr[d]
          <6>1. q.v \in Cells /\ m.cdr \in [Cells -> Values] /\ q.m.cdr = [m.cdr EXCEPT ![q.v] = m.cdr[d]]
            BY <2>1, <2>2, <4>1, MemFacts
          <6>2. q.v \in q.m.used
            BY <2>2, <6>1, MemFacts DEF is_pair
          <6> QED
            BY <6>1, <6>2
        <5>2. s.m.cdr[s.v] = m.cdr[d]
          BY <3>1, <4>2, <5>1 DEF Same
        <5> QED
          BY <3>2, <3>5, <4>1, <4>2, <5>2
      <4>3. CASE s.v \in P
        <5>1. P \subseteq m.used
          <6>1. \A x \in Known(m) : x \in Cells => x \in m.used
            BY MemFacts DEF is_pair
          <6>2. /\ d \in Cells => d \in m.used
                /\ \A c \in m.used : m.cdr[c] \in Cells => m.cdr[c] \in m.used
            BY <6>1, MemFacts
          <6> QED
            BY <6>2, MemFacts, PairsFacts
        <5>2. s.m.cdr[s.v] = m.cdr[s.v]
          BY <3>1, <4>3, <5>1 DEF Same
        <5> QED
          BY <3>2, <3>5, <4>1, <4>3, <5>2
      <4> QED
        BY <4>1, <4>2, <4>3
    <3> QED
      BY <3>1, <3>2, <3>3, <3>4, <3>5
  <2>8. e \in S
    <3> HIDE DEF S
    <3>1. \A k \in 0..Turns : at[k] \in S
      BY <2>6, <2>7, TurnsFacts, StaysIn
    <3> QED
      BY <2>4, <3>1, TurnsFacts
  <2>9. /\ e.m \in Mems /\ e.v \in Known(e.m) /\ Same(m, e.m, {}) /\ Same(q.m, e.m, {})
        /\ ~e.m.full => ~q.m.full /\ (e.v = q.v \/ e.v \in P)
    BY <2>8 DEF Twos
  <2> HIDE DEF S, P
  <2> DEFINE y == car(e.m, cdr(e.m, e.v))
             n == IF e.m.full THEN e.m ELSE SetCdr(e.m, e.v, y)
  <2>10. /\ n \in Mems /\ Same(m, n, {e.v}) /\ n.used = e.m.used /\ n.car = e.m.car
         /\ n.cdr = e.m.cdr \/ n.cdr = [e.m.cdr EXCEPT ![e.v] = y]
         /\ e.m.full => Same(m, n, {})
    <3>1. y \in Known(e.m)
      BY <2>9, MemFacts
    <3>2. CASE e.m.full
      BY <2>9, <3>2 DEF Same
    <3>3. CASE ~e.m.full
      <4>1. {} \cup {e.v} = {e.v}
        OBVIOUS
      <4> QED
        BY <2>9, <3>1, <3>3, <4>1, SetCdrFacts
    <3> QED
      BY <3>2, <3>3
  <2>11. r.m = n /\ r.v = (IF e.m.full THEN e.v ELSE q.v)
    BY <2>5 DEF Result
  <2> HIDE DEF n, y
  <2>12. r.v \in Known(r.m)
    <3>1. Known(n) = Known(e.m) /\ Known(q.m) \subseteq Known(e.m)
      BY <2>9, <2>10 DEF Same, Known
    <3> QED
      BY <2>2, <2>9, <2>11, <3>1
  <2>13. Same(m, n, P)
    <3>1. CASE e.m.full
      BY <2>10, <3>1 DEF Same
    <3>2. CASE ~e.m.full
      <4>1. e.v \notin m.used \/ e.v \in P
        BY <2>2, <2>9, <3>2
      <4> QED
        BY <2>10, <4>1 DEF Same
    <3> QED
      BY <3>1, <3>2
  <2>14. ASSUME NEW h \in [Vars -> Known(m)]
         PROVE  HeldCells(n, h) \subseteq HeldCells(m, h)
    <3> DEFINE H == HeldCells(m, h)
    <3>1. /\ H \subseteq m.used /\ m.used \subseteq Cells
          /\ \A x \in Vars : h[x] \in Cells => h[x] \in H
          /\ \A c \in H : /\ m.car[c] \in Cells => m.car[c] \in H
                          /\ m.cdr[c] \in Cells => m.cdr[c] \in H
      BY HeldFacts, MemFacts
    <3> HIDE DEF H
    <3>2. \A c \in H : /\ e.m.car[c] \in Cells => e.m.car[c] \in H
                       /\ e.m.cdr[c] \in Cells => e.m.cdr[c] \in H
      BY <2>9, <3>1 DEF Same
    <3>3. e.v \in H /\ y \in Cells => y \in H
      BY <3>1, <3>2, CellsAssumption DEF y, car, cdr, Atoms
    <3>4. \A c \in H : n.cdr[c] = e.m.cdr[c] \/ (c = e.v /\ n.cdr[c] = y)
      BY <2>9, <2>10, <3>1, MemFacts
    <3>5. \A c \in H : /\ n.car[c] \in Cells => n.car[c] \in H
                       /\ n.cdr[c] \in Cells => n.cdr[c] \in H
      BY <2>10, <3>2, <3>3, <3>4
    <3>6. h \in [Vars -> Known(n)]
      BY <2>10 DEF Same, Known
    <3> QED
      BY <2>10, <3>1, <3>5, <3>6, HeldFacts DEF H
  <2> QED
    BY <2>10, <2>11, <2>12, <2>13, <2>14 DEF r, P
<1> QED
  BY <1>1, <1>2

LEMMA RevappendFacts ==
  ASSUME NEW l \in Mems, NEW m, NEW v, Strand(l, m, v), NEW p \in Known(m)
  PROVE  LET r == revappend(m, v, p)
         IN  /\ r.m \in Mems /\ Same(m, r.m, {}) /\ Same(l, r.m, {})
             /\ r.v = "#f" \/ Strand(l, r.m, r.v)
<1> DEFINE e == ConsBackwards(m, v, p)
<1>1. e \in Threes /\ Strand(l, e.m, e.v) /\ Same(m, e.m, {})
  BY ConsBackwardsFacts
<1>2. revappend(m, v, p) = [m |-> e.m, v |-> IF e.m.full \/ e.p = Nil THEN e.v ELSE "#f"]
  BY DEF revappend, Appended, Result
<1> HIDE DEF e
<1> QED
  BY <1>1, <1>2 DEF Strand

(* What append has between two turns: it took cells only, and v is a       *)
(* strand of them.                                                         *)
Growing(l) == {s \in Threes : Same(l, s.m, {}) /\ (s.v = "#f" \/ Strand(l, s.m, s.v))}

LEMMA AppendTurnIn ==
  ASSUME NEW l \in Mems, NEW s \in Growing(l)
  PROVE  AppendTurn(s) \in Growing(l)
<1>1. /\ s.m \in Mems /\ s.p \in Known(s.m) /\ s.v \in Known(s.m) /\ Same(l, s.m, {})
      /\ s.v = "#f" \/ Strand(l, s.m, s.v)
  BY DEF Growing, Threes
<1>2. CASE s.m.full \/ s.v = "#f" \/ cdr(s.m, s.p) = Nil
  BY <1>2 DEF AppendTurn
<1>3. CASE ~(s.m.full \/ s.v = "#f" \/ cdr(s.m, s.p) = Nil)
  <2> DEFINE r == revappend(s.m, s.v, car(s.m, s.p))
             t == AppendTurn(s)
  <2>1. t = [m |-> r.m, v |-> r.v, p |-> cdr(s.m, s.p)]
    BY <1>3 DEF AppendTurn, AppendOn
  <2>2. car(s.m, s.p) \in Known(s.m) /\ cdr(s.m, s.p) \in Known(s.m)
    BY <1>1, MemFacts
  <2>3. /\ r.m \in Mems /\ Same(s.m, r.m, {}) /\ Same(l, r.m, {})
        /\ r.v = "#f" \/ Strand(l, r.m, r.v)
    BY <1>1, <1>3, <2>2, RevappendFacts
  <2> HIDE DEF r
  <2>4. cdr(s.m, s.p) \in Known(r.m) /\ r.v \in Known(r.m)
    BY <2>2, <2>3 DEF Same, Known, Strand, Taken, Atoms
  <2>5. t \in Threes
    BY <2>1, <2>3, <2>4, ThreeIs
  <2>6. t.m = r.m /\ t.v = r.v
    BY <2>1
  <2> QED
    BY <2>3, <2>5, <2>6 DEF Growing
<1> QED
  BY <1>2, <1>3

LEMMA AppendLoop ==
  ASSUME NEW l \in Mems, NEW a \in Growing(l)
  PROVE  \E at \in [0..Turns -> Growing(l)] :
           /\ at[0] = a /\ Loop(AppendTurn, a) = at[Turns]
           /\ \A k \in 1..Turns : at[k] = AppendTurn(at[k - 1])
<1> DEFINE G == Growing(l)
           at == CHOOSE at : at = [k \in 0..Turns |-> IF k = 0 THEN a ELSE AppendTurn(at[k - 1])]
           f == [s \in G |-> AppendTurn(s)]
<1>1. f \in [G -> G]
  BY AppendTurnIn
<1>2. PICK h \in [0..Turns -> G] : Looped(Turns, a, f, h)
  <2> HIDE DEF f
  <2> QED
    BY <1>1, LoopedStep, TurnsFacts
<1>3. h = [k \in 0..Turns |-> IF k = 0 THEN a ELSE AppendTurn(h[k - 1])]
  <2>1. \A k \in 0..Turns : k # 0 => k - 1 \in 0..Turns
    BY TurnsFacts
  <2>2. \A k \in 0..Turns : k # 0 => f[h[k - 1]] = AppendTurn(h[k - 1])
    BY <2>1
  <2> HIDE DEF f
  <2> QED
    BY <1>2, <2>2 DEF Looped
<1>4. at = [k \in 0..Turns |-> IF k = 0 THEN a ELSE AppendTurn(at[k - 1])]
  BY <1>3
<1>5. Loop(AppendTurn, a) = at[Turns]
  BY DEF Loop
<1> HIDE DEF at
<1>t. 0 \in 0..Turns /\ Turns \in Nat /\ \A k \in 1..Turns : k \in 0..Turns /\ k # 0
  BY TurnsFacts
<1>6. at[0] = a /\ \A k \in 1..Turns : at[k] = AppendTurn(at[k - 1])
  <2>1. \A k \in 0..Turns : at[k] = IF k = 0 THEN a ELSE AppendTurn(at[k - 1])
    BY <1>4
  <2> QED
    BY <2>1, <1>t
<1>7. \A k \in 0..Turns : at[k] \in G
  <2>1. \A k \in 1..Turns : at[k - 1] \in G => at[k] \in G
    BY <1>6, AppendTurnIn
  <2> QED
    BY <1>6, <1>t, <2>1, StaysIn
<1>8. at \in [0..Turns -> G]
  BY <1>4, <1>7
<1> QED
  BY <1>5, <1>6, <1>8

LEMMA AppendFacts ==
  ASSUME NEW m \in Mems, NEW y \in Known(m)
  PROVE  LET r == append(m, y)
         IN  /\ r.m \in Mems /\ Same(m, r.m, {})
             /\ r.v = "error" \/ r.v \in Known(r.m)
<1> DEFINE a == [m |-> m, v |-> Nil, p |-> y]
           e == Loop(AppendTurn, a)
           r == append(m, y)
<1>1. a \in Growing(m)
  <2>1. a \in Threes
    BY ThreeIs, MemFacts
  <2> QED
    BY <2>1, StrandStart, MemFacts DEF Growing
<1>2. e \in Growing(m)
  <2> HIDE DEF a
  <2>1. PICK at \in [0..Turns -> Growing(m)] : Loop(AppendTurn, a) = at[Turns]
    BY <1>1, AppendLoop
  <2> QED
    BY <2>1, TurnsFacts
<1>3. r = IF e.v = "#f" THEN Result(e.m, "error")
          ELSE IF e.m.full THEN Result(e.m, Nil)
          ELSE reverse_in_place(e.m, car(e.m, e.p), e.v)
  BY DEF append
<1> HIDE DEF a, e, r
<1>4. /\ e.m \in Mems /\ e.p \in Known(e.m) /\ Same(m, e.m, {})
      /\ e.v = "#f" \/ Strand(m, e.m, e.v)
  BY <1>2 DEF Growing, Threes
<1>5. CASE e.v = "#f" \/ e.m.full
  <2>1. r = [m |-> e.m, v |-> "error"] \/ r = [m |-> e.m, v |-> Nil]
    BY <1>3, <1>5 DEF Result
  <2>2. r.m = e.m /\ (r.v = "error" \/ r.v = Nil)
    BY <2>1
  <2> QED
    BY <1>4, <2>2, MemFacts DEF r
<1>6. CASE ~(e.v = "#f" \/ e.m.full)
  <2> DEFINE x == LinkBackwards(e.m, car(e.m, e.p), e.v)
  <2>1. car(e.m, e.p) \in Known(e.m)
    BY <1>4, MemFacts
  <2>2. x.m \in Mems /\ x.v \in Known(x.m) /\ Same(m, x.m, {})
    BY <1>4, <1>6, <2>1, LinkBackwardsFacts
  <2>3. r = [m |-> x.m, v |-> x.v]
    BY <1>3, <1>6 DEF reverse_in_place, Result
  <2> HIDE DEF x
  <2> QED
    BY <2>2, <2>3 DEF r
<1> QED
  BY <1>5, <1>6 DEF r

(* What an opcode writes into: pairs of its arguments, or the pair that    *)
(* set-cdr! was given.                                                     *)
LEMMA OpcodeFacts ==
  ASSUME NEW m \in Mems, NEW as \in Known(m), NEW f \in Procedures \ {"list", "apply"}
  PROVE  LET r == Opcode(f, m, as)
         IN  /\ r.m \in Mems /\ m.used \subseteq r.m.used
             /\ r.v = "error" \/ r.v \in Known(r.m)
             /\ f # "set-cdr!" => Same(m, r.m, Pairs(m, as))
<1> DEFINE x == car(m, as)
           y == car(m, cdr(m, as))
           r == Opcode(f, m, as)
           P == Pairs(m, as)
<1>1. /\ x \in Known(m) /\ y \in Known(m) /\ cdr(m, x) \in Known(m)
      /\ {"#t", "#f", One, Nil} \subseteq Known(m)
      /\ Same(m, m, {}) /\ Same(m, m, P)
  BY MemFacts DEF Atoms
<1>e. \A n : Same(m, n, {}) => Same(m, n, P)
  BY DEF Same
<1>2. CASE f = "cons"
  <2> DEFINE n == SetCdr(m, as, y)
  <2>1. r = [m |-> n, v |-> as]
    BY <1>2 DEF Opcode, Result
  <2>2. n \in Mems /\ n.used = m.used /\ Same(m, n, {} \cup {as})
    <3>1. n \in Mems /\ n.used = m.used /\ \A l, W : Same(l, m, W) => Same(l, n, W \cup {as})
      BY <1>1, SetCdrFacts
    <3> HIDE DEF n
    <3> QED
      BY <1>1, <3>1
  <2>3. as \in m.used => as \in P
    BY MemFacts, PairsFacts
  <2> HIDE DEF n, P
  <2>4. Same(m, n, P) /\ as \in Known(n)
    BY <2>2, <2>3 DEF Same, Known
  <2>5. r.m = n /\ r.v = as
    BY <2>1
  <2> HIDE DEF r
  <2> QED
    BY <1>2, <2>2, <2>4, <2>5 DEF P, r
<1>3. CASE f = "set-cdr!"
  <2> DEFINE n == SetCdr(m, x, y)
  <2>1. r = [m |-> n, v |-> x]
    BY <1>3 DEF Opcode, Result
  <2>2. n \in Mems /\ n.used = m.used
    BY <1>1, SetCdrFacts
  <2> HIDE DEF n, x
  <2>3. x \in Known(n)
    BY <1>1, <2>2 DEF Known
  <2>4. r.m = n /\ r.v = x
    BY <2>1
  <2> HIDE DEF r
  <2> QED
    BY <1>3, <2>2, <2>3, <2>4 DEF r
<1>4. CASE f = "reverse"
  <2> DEFINE e == ConsBackwards(m, Nil, x)
  <2>1. r = [m |-> e.m, v |-> e.v]
    BY <1>4 DEF Opcode, reverse, Result
  <2>2. e \in Threes /\ Same(m, e.m, {})
    BY <1>1, StrandStart, ConsBackwardsFacts
  <2>3. r.m = e.m /\ r.v = e.v
    BY <2>1
  <2> HIDE DEF e, r
  <2>4. r.m \in Mems /\ r.v \in Known(r.m) /\ m.used \subseteq r.m.used
    BY <2>2, <2>3 DEF Threes, Same
  <2>5. Same(m, r.m, P)
    BY <1>e, <2>2, <2>3
  <2> QED
    BY <2>4, <2>5 DEF r
<1>5. CASE f = "list*"
  <2> DEFINE l == list_star(m, as)
  <2>1. r = l
    BY <1>5 DEF Opcode
  <2>2. l.m \in Mems /\ l.v \in Known(l.m) /\ Same(m, l.m, P)
    BY ListStarFacts
  <2> HIDE DEF l, r, P
  <2>3. m.used \subseteq l.m.used
    BY <2>2 DEF Same
  <2> QED
    BY <2>1, <2>2, <2>3 DEF r, P
<1>6. CASE f = "append"
  BY <1>6, <1>e, AppendFacts DEF Opcode, Same
<1>7. CASE f \in {"cdr", "length", "list?", "+"}
  <2>1. r.m = m /\ (r.v = "error" \/ r.v \in Known(m))
    <3>1. \/ r = Result(m, cdr(m, x)) \/ r = Result(m, "error") \/ r = Result(m, One)
          \/ r = Result(m, "#t") \/ r = Result(m, "#f")
      BY <1>7 DEF Opcode
    <3> HIDE DEF r, x
    <3> QED
      BY <1>1, <3>1 DEF Result
  <2> HIDE DEF r, P
  <2> QED
    BY <1>1, <2>1 DEF r, P
<1> QED
  BY <1>2, <1>3, <1>4, <1>5, <1>6, <1>7 DEF Procedures

(* The list of arguments of a call.                                        *)
LEMMA ListOfCars ==
  ASSUME NEW m \in Mems, NEW R \in SUBSET Known(m), NEW n \in Nat, NEW s \in [1..n -> R]
  PROVE  LET r == ListOf(m, s)
         IN  Strand(m, r.m, r.v) /\ \A c \in Taken(m, r.m) : r.m.car[c] \in R
<1> DEFINE Among(n_) == \A c \in Taken(m, n_) : n_.car[c] \in R
           S == {t \in Twos : Strand(m, t.m, t.v) /\ Among(t.m)}
           a == Result(m, Nil)
           Linked(k, t) == cons(t.m, s[n + 1 - k], t.v)
           f == [k \in 1..n |-> [t \in S |-> Linked(k, t)]]
           of == CHOOSE of : of = [k \in 0..n |-> IF k = 0 THEN a ELSE Linked(k, of[k - 1])]
<1>1. a \in S /\ a.m = m /\ a.v = Nil
  BY StrandStart, MemFacts DEF Result, Twos, Taken
<1>2. ASSUME NEW k \in 1..n, NEW t \in S PROVE Linked(k, t) \in S
  <2> DEFINE b == s[n + 1 - k]
             u == Linked(k, t)
  <2>1. t.m \in Mems /\ Strand(m, t.m, t.v) /\ Same(m, t.m, {}) /\ Among(t.m) /\ t.v \in Known(t.m)
    BY DEF Twos, Strand
  <2>2. b \in R /\ b \in Known(m)
    <3>1. n + 1 - k \in 1..n
      OBVIOUS
    <3> QED
      BY <3>1
  <2>3. b \in Known(t.m)
    BY <2>1, <2>2 DEF Same, Known
  <2>4. Strand(m, u.m, u.v)
    BY <2>1, <2>3, StrandCons
  <2>5. u = [m |-> u.m, v |-> u.v]
    BY DEF cons
  <2>6. /\ u.m \in Mems /\ u.v \in Known(u.m) /\ Same(t.m, u.m, {})
        /\ u.m.full => t.m.used = Cells /\ u.m.used = Cells
        /\ ~u.m.full => /\ u.v \in Cells \ t.m.used /\ u.m.used = t.m.used \cup {u.v}
                        /\ u.m.car = [t.m.car EXCEPT ![u.v] = b]
    <3>0. u = cons(t.m, b, t.v)
      OBVIOUS
    <3> HIDE DEF u, b
    <3>1. u.m \in Mems /\ u.v \in Known(u.m) /\ Same(t.m, u.m, {})
      BY <2>1, <2>3, <3>0, ConsFacts
    <3>2. u.m.full => t.m.used = Cells /\ u.m.used = Cells
      BY <2>1, <2>3, <3>0, ConsFacts
    <3>3. ~u.m.full => u.v \in Cells \ t.m.used /\ u.m.used = t.m.used \cup {u.v}
      BY <2>1, <2>3, <3>0, ConsFacts
    <3>4. ~u.m.full => u.m.car = [t.m.car EXCEPT ![u.v] = b]
      BY <2>1, <2>3, <3>0, ConsFacts
    <3> QED
      BY <3>1, <3>2, <3>3, <3>4
  <2> HIDE DEF u, b
  <2>7. Among(u.m)
    <3> SUFFICES ASSUME NEW c \in Taken(m, u.m) PROVE u.m.car[c] \in R
      OBVIOUS
    <3>1. CASE c \in t.m.used
      <4>1. u.m.car[c] = t.m.car[c]
        BY <2>6, <3>1 DEF Same
      <4> QED
        BY <2>1, <3>1, <4>1 DEF Taken
    <3>2. CASE c \notin t.m.used
      <4>1. ~u.m.full /\ c = u.v
        BY <2>6, <3>2 DEF Taken, Mems
      <4> QED
        BY <2>1, <2>2, <2>6, <4>1, MemFacts
    <3> QED
      BY <3>1, <3>2
  <2>8. u \in Twos
    BY <2>5, <2>6, MemFacts DEF Twos
  <2> QED
    BY <2>4, <2>7, <2>8 DEF u
<1>3. Len(s) = n /\ ListOf(m, s) = of[n]
  <2>1. Len(s) = n
    BY LenProperties
  <2> QED
    BY <2>1 DEF ListOf
<1> HIDE DEF S, a, Linked
<1>4. PICK h \in [0..n -> S] : LoopedBy(n, a, f, h)
  <2>1. f \in [1..n -> [S -> S]]
    BY <1>2
  <2> HIDE DEF f
  <2> QED
    BY <1>1, <2>1, LoopedTurns
<1>5. h = [k \in 0..n |-> IF k = 0 THEN a ELSE Linked(k, h[k - 1])]
  <2>1. \A k \in 0..n : k # 0 => k \in 1..n /\ h[k - 1] \in S
    OBVIOUS
  <2>2. \A k \in 0..n : k # 0 => f[k][h[k - 1]] = Linked(k, h[k - 1])
    BY <2>1
  <2> HIDE DEF f
  <2> QED
    BY <1>4, <2>2 DEF LoopedBy
<1>6. of = [k \in 0..n |-> IF k = 0 THEN a ELSE Linked(k, of[k - 1])]
  BY <1>5
<1> HIDE DEF of
<1>7. of[0] = a /\ \A k \in 1..n : of[k] = Linked(k, of[k - 1])
  <2>1. \A k \in 0..n : of[k] = IF k = 0 THEN a ELSE Linked(k, of[k - 1])
    BY <1>6
  <2>2. 0 \in 0..n /\ \A k \in 1..n : k \in 0..n /\ k # 0
    OBVIOUS
  <2> QED
    BY <2>1, <2>2
<1>8. of[n] \in S
  <2>1. \A k \in 1..n : of[k - 1] \in S => of[k] \in S
    BY <1>2, <1>7
  <2>2. \A k \in 0..n : of[k] \in S
    BY <1>1, <1>7, <2>1, StaysIn
  <2> QED
    BY <2>2
<1> QED
  BY <1>3, <1>8 DEF S

LEMMA ListOfFacts ==
  ASSUME NEW m \in Mems, NEW n \in Nat, NEW s \in [1..n -> Known(m)]
  PROVE  LET r == ListOf(m, s) IN Strand(m, r.m, r.v)
BY ListOfCars

----------------------------------------------------------------------------
(* What is so in every state.  The program's values and the registers are  *)
(* atoms or cells in use, and so is what those hold.  The pairs of the     *)
(* argument list of a call that is not over are not the program's, or were *)
(* given to apply.                                                         *)
MemoryInv ==
  /\ mem \in Mems /\ mem.full = FALSE
  /\ held \in [Vars -> Known(mem)]
  /\ args \in Known(mem) /\ value \in Known(mem)
ArgumentsInv ==
  /\ stage \in {"program", "apply", "check", "run", "value", "stopped"}
  /\ stage \in {"check", "run"} => op \in Procedures \ {"list"}
  /\ stage \in {"apply", "check", "run"} => Pairs(mem, args) \cap HeldCells(mem, held) \subseteq given
RegistersInv == MemoryInv /\ ArgumentsInv

LEMMA RegistersInit == PrimitivesInit => RegistersInv
<1> SUFFICES ASSUME PrimitivesInit PROVE RegistersInv
  OBVIOUS
<1> DEFINE z == [c \in Cells |-> Nil]
           none == {}
           no == FALSE
<1>1. mem = [car |-> z, cdr |-> z, used |-> none, full |-> no]
  BY DEF PrimitivesInit
<1>2. z \in [Cells -> Values] /\ none \in SUBSET Cells /\ no \in BOOLEAN /\ (no => none = Cells) /\ no = FALSE
      /\ \A x \in none : z[x] \in none \cup Atoms /\ z[x] \in none \cup Atoms
  BY DEF Values, Atoms
<1> HIDE DEF z, none, no
<1>3. mem \in Mems
  <2>1. [car |-> z, cdr |-> z, used |-> none, full |-> no] \in Mems
    BY <1>2, Typed
  <2> QED
    BY ONLY <1>1, <2>1
<1>4. mem.full = FALSE
  BY <1>1, <1>2
<1>5. Nil \in Known(mem)
  BY <1>3, MemFacts
<1> QED
  BY <1>3, <1>4, <1>5 DEF PrimitivesInit, RegistersInv, MemoryInv, ArgumentsInv

(* The cells of the program that are as they were.                         *)
Untouched == \A c \in HeldCells(mem, held) :
               \/ c \notin HeldCells(mem', held')
               \/ c \in given'
               \/ mem'.car[c] = mem.car[c] /\ mem'.cdr[c] = mem.cdr[c]

LEMMA KeptStep ==
  ASSUME RegistersInv, mem' = mem, held' = held, args' = args, value' = value, given' = given,
         stage' \in {"program", "apply", "check", "run", "value", "stopped"},
         stage' \in {"check", "run"} => op' \in Procedures \ {"list"},
         stage' \in {"apply", "check", "run"} => stage \in {"apply", "check", "run"}
  PROVE  RegistersInv' /\ Untouched
BY DEF RegistersInv, MemoryInv, ArgumentsInv, Untouched

LEMMA CollectedStep ==
  ASSUME RegistersInv, held' \in [Vars -> Known(mem)], mem' = Collected(mem, held'),
         stage' = "program", args' = Nil, value' = Nil
  PROVE  RegistersInv' /\ Untouched
<1>1. mem \in Mems
  BY DEF RegistersInv, MemoryInv
<1>2. /\ mem' \in Mems /\ mem'.full = FALSE /\ held' \in [Vars -> Known(mem')]
      /\ HeldCells(mem', held') \subseteq HeldCells(mem, held')
      /\ \A c \in HeldCells(mem, held') : mem'.car[c] = mem.car[c] /\ mem'.cdr[c] = mem.cdr[c]
  BY <1>1, CollectedFacts
<1>3. Nil \in Known(mem')
  BY <1>2, MemFacts
<1> QED
  BY <1>2, <1>3 DEF RegistersInv, MemoryInv, ArgumentsInv, Untouched

LEMMA FailsStep ==
  ASSUME RegistersInv, Fails
  PROVE  RegistersInv' /\ Untouched
<1>1. held' = held /\ held' \in [Vars -> Known(mem)] /\ mem' = Collected(mem, held')
      /\ stage' = "program" /\ args' = Nil /\ value' = Nil
  BY DEF Fails, RegistersInv, MemoryInv
<1> QED
  BY <1>1, CollectedStep

LEMMA CallKeeps ==
  ASSUME RegistersInv, NEW f, NEW n \in Nat, NEW s \in [1..n -> Known(mem)], Call(f, s)
  PROVE  RegistersInv' /\ Untouched
<1> DEFINE l == ListOf(mem, s)
<1>1. /\ mem \in Mems /\ mem.full = FALSE /\ held \in [Vars -> Known(mem)]
      /\ args \in Known(mem) /\ value \in Known(mem)
  BY DEF RegistersInv, MemoryInv
<1>3. Strand(mem, l.m, l.v)
  BY <1>1, ListOfFacts
<1>4. CASE l.m.full
  <2>1. stage' = "stopped" /\ UNCHANGED <<mem, held, args, value, given>>
    BY <1>4 DEF Call
  <2> QED
    BY <2>1, KeptStep
<1>5. CASE ~l.m.full
  <2>1. stage' = "apply" /\ mem' = l.m /\ args' = l.v /\ UNCHANGED <<held, value, given>>
    BY <1>5 DEF Call
  <2> HIDE DEF l
  <2>2. /\ mem' \in Mems /\ Same(mem, mem', {}) /\ args' \in Known(mem')
        /\ Pairs(mem', args') \subseteq Taken(mem, mem')
    BY SMTT(40), <1>1, <1>3, <2>1, MemFacts, StrandPairs DEF Strand, Taken, Known
  <2>3. Known(mem) \subseteq Known(mem')
    BY <2>2 DEF Same, Known
  <2>4. held' \in [Vars -> Known(mem')] /\ value' \in Known(mem') /\ mem'.full = FALSE
    BY <1>1, <1>5, <2>1, <2>2, <2>3, MemFacts
  <2>5. HeldCells(mem', held') \subseteq HeldCells(mem, held) /\ HeldCells(mem, held) \subseteq mem.used
    <3> DEFINE H == HeldCells(mem, held)
    <3>1. /\ H \subseteq mem.used
          /\ \A x \in Vars : held[x] \in Cells => held[x] \in H
          /\ \A c \in H : /\ mem.car[c] \in Cells => mem.car[c] \in H
                          /\ mem.cdr[c] \in Cells => mem.cdr[c] \in H
      BY <1>1, HeldFacts
    <3> HIDE DEF H
    <3>2. \A c \in H : /\ mem'.car[c] \in Cells => mem'.car[c] \in H
                       /\ mem'.cdr[c] \in Cells => mem'.cdr[c] \in H
      BY <2>2, <3>1 DEF Same
    <3>3. HeldCells(mem', held') \subseteq H
      BY <2>1, <2>2, <2>4, <3>1, <3>2, HeldFacts
    <3> QED
      BY <3>1, <3>3 DEF H
  <2>6. Pairs(mem', args') \cap HeldCells(mem', held') = {}
    BY <2>2, <2>5 DEF Taken
  <2>7. Untouched
    BY <2>2, <2>5 DEF Untouched, Same
  <2> QED
    BY <2>1, <2>2, <2>4, <2>6, <2>7 DEF RegistersInv, MemoryInv, ArgumentsInv
<1> QED
  BY <1>4, <1>5

LEMMA OpcodeStep ==
  ASSUME RegistersInv, RunOpcode
  PROVE  RegistersInv' /\ (op # "set-cdr!" => Untouched)
<1> DEFINE r == Opcode(op, mem, args)
<1>1. /\ mem \in Mems /\ mem.full = FALSE /\ held \in [Vars -> Known(mem)]
      /\ args \in Known(mem) /\ value \in Known(mem)
      /\ op \in Procedures \ {"list", "apply"}
      /\ Pairs(mem, args) \cap HeldCells(mem, held) \subseteq given
  BY DEF RegistersInv, MemoryInv, ArgumentsInv, RunOpcode
<1>2. /\ r.m \in Mems /\ mem.used \subseteq r.m.used
      /\ r.v = "error" \/ r.v \in Known(r.m)
      /\ op # "set-cdr!" => Same(mem, r.m, Pairs(mem, args))
  BY <1>1, OpcodeFacts
<1>3. Returns(r)
  BY DEF RunOpcode
<1> HIDE DEF r
<1>4. CASE r.m.full
  <2>1. stage' = "stopped" /\ UNCHANGED <<mem, held, args, value, given>>
    BY <1>3, <1>4 DEF Returns
  <2> QED
    BY <2>1, KeptStep
<1>5. CASE ~r.m.full /\ r.v = "error"
  <2>1. Fails
    BY <1>3, <1>5 DEF Returns
  <2> QED
    BY <2>1, FailsStep
<1>6. CASE ~r.m.full /\ r.v # "error"
  <2>1. mem' = r.m /\ value' = r.v /\ stage' = "value" /\ UNCHANGED <<held, args, given>>
    BY <1>3, <1>6 DEF Returns
  <2>2. Known(mem) \subseteq Known(mem')
    BY <1>2, <2>1 DEF Known
  <2>3. mem'.full = FALSE
    BY <1>2, <1>6, <2>1, MemFacts
  <2>4. RegistersInv'
    BY <1>1, <1>2, <1>6, <2>1, <2>2, <2>3 DEF RegistersInv, MemoryInv, ArgumentsInv
  <2>5. op # "set-cdr!" => Untouched
    <3>1. HeldCells(mem, held) \subseteq mem.used
      BY <1>1, HeldFacts
    <3> QED
      BY <1>1, <1>2, <2>1, <3>1 DEF Untouched, Same
  <2> QED
    BY <2>4, <2>5
<1> QED
  BY <1>4, <1>5, <1>6

LEMMA PApplyStep ==
  ASSUME RegistersInv, PApply
  PROVE  RegistersInv' /\ Untouched
<1> DEFINE d == cdr(mem, args)
           l == list_star(mem, d)
<1>1. /\ mem \in Mems /\ mem.full = FALSE /\ held \in [Vars -> Known(mem)]
      /\ args \in Known(mem) /\ value \in Known(mem) /\ d \in Known(mem)
      /\ Pairs(mem, args) \cap HeldCells(mem, held) \subseteq given
  BY MemFacts DEF RegistersInv, MemoryInv, ArgumentsInv, PApply
<1>2. /\ l.m \in Mems /\ l.v \in Known(l.m) /\ Same(mem, l.m, Pairs(mem, d))
      /\ HeldCells(l.m, held) \subseteq HeldCells(mem, held)
  BY <1>1, ListStarFacts
<1>3. Pairs(mem, d) \subseteq Pairs(mem, args)
  <2> DEFINE P == Pairs(mem, args)
  <2>1. /\ P \in SUBSET Cells /\ (args \in Cells => args \in P)
        /\ \A c \in P : mem.cdr[c] \in Cells => mem.cdr[c] \in P
    BY <1>1, PairsFacts
  <2>2. d \in Cells => d \in P
    BY <2>1, CellsAssumption DEF cdr, Atoms
  <2> HIDE DEF P, d
  <2> QED
    BY <1>1, <2>1, <2>2, PairsFacts DEF P
<1>4. CASE l.m.full
  <2>1. stage' = "stopped" /\ UNCHANGED <<mem, held, args, value, given>>
    BY <1>4 DEF PApply, Returns
  <2> QED
    BY <2>1, KeptStep
<1>5. CASE ~l.m.full
  <2>1. /\ mem' = l.m /\ args' = l.v /\ stage' = "apply" /\ held' = held /\ value' = value
        /\ given' = given \cup (Pairs(l.m, l.v) \cap HeldCells(mem, held))
    BY <1>5 DEF PApply
  <2> HIDE DEF l, d
  <2>2. Known(mem) \subseteq Known(mem')
    BY <1>2, <2>1 DEF Known, Same
  <2>3. mem'.full = FALSE
    BY <1>2, <1>5, <2>1, MemFacts
  <2>4. Pairs(mem', args') \cap HeldCells(mem', held') \subseteq given'
    BY <1>2, <2>1
  <2>5. Untouched
    <3>1. HeldCells(mem, held) \subseteq mem.used
      BY <1>1, HeldFacts
    <3> QED
      BY <1>1, <1>2, <1>3, <2>1, <3>1 DEF Untouched, Same
  <2> QED
    BY <1>1, <1>2, <2>1, <2>2, <2>3, <2>4, <2>5 DEF RegistersInv, MemoryInv, ArgumentsInv
<1> QED
  BY <1>4, <1>5

LEMMA CallsStep ==
  ASSUME RegistersInv, Calls
  PROVE  RegistersInv' /\ Untouched
<1> DEFINE K == Known(mem)
<1>1. Operands \subseteq K /\ Procedures \subseteq K /\ \A y \in Vars : held[y] \in K
  BY MemFacts DEF RegistersInv, MemoryInv, Operands, Atoms
<1> HIDE DEF K
<1>2. CASE \E f \in Procedures \ {"apply"}, n \in 0 .. 3 :
             \E s \in [1 .. n -> Operands] : (n = 3 => f = "list") /\ Call(f, s)
  <2>1. PICK f \in Procedures, n \in 0 .. 3 : \E s \in [1 .. n -> Operands] : Call(f, s)
    BY <1>2
  <2>2. PICK s \in [1 .. n -> Operands] : Call(f, s)
    BY <2>1
  <2>3. s \in [1 .. n -> K] /\ n \in Nat
    BY <1>1
  <2> QED
    BY <2>2, <2>3, CallKeeps DEF K
<1>3. CASE \E g \in Procedures, x \in Operands :
             \/ Call("apply", <<g, x>>)
             \/ \E y \in Vars : Call("apply", <<g, x, held[y]>>)
  <2>1. PICK g \in Procedures, x \in Operands :
             \/ Call("apply", <<g, x>>)
             \/ \E y \in Vars : Call("apply", <<g, x, held[y]>>)
    BY <1>3
  <2>2. <<g, x>> \in [1 .. 2 -> K] /\ \A z \in K : <<g, x, z>> \in [1 .. 3 -> K]
    BY <1>1
  <2>3. CASE Call("apply", <<g, x>>)
    BY <2>2, <2>3, CallKeeps DEF K
  <2>4. CASE \E y \in Vars : Call("apply", <<g, x, held[y]>>)
    <3>1. PICK y \in Vars : Call("apply", <<g, x, held[y]>>)
      BY <2>4
    <3>2. <<g, x, held[y]>> \in [1 .. 3 -> K]
      BY <1>1, <2>2
    <3> QED
      BY <3>1, <3>2, CallKeeps DEF K
  <2> QED
    BY <2>1, <2>3, <2>4
<1> QED
  BY <1>2, <1>3 DEF Calls

LEMMA RegistersStep ==
  ASSUME RegistersInv, [PrimitivesNext]_primitivesVars
  PROVE  RegistersInv' /\ (Untouched \/ (stage = "run" /\ op = "set-cdr!"))
<1>1. CASE Calls
  BY <1>1, CallsStep
<1>2. CASE Apply
  <2>1. CASE Fails
    BY <2>1, FailsStep
  <2>2. CASE ~Fails
    <3>1. /\ UNCHANGED <<mem, held, args, given>> /\ stage = "apply"
          /\ \/ stage' = "check" /\ op' = code /\ code \in DOMAIN dispatch_table /\ value' = value
             \/ stage' = "value" /\ value' = args
      BY <1>2, <2>2 DEF Apply
    <3>2. DOMAIN dispatch_table = Procedures \ {"list"}
      BY DEF dispatch_table
    <3> QED
      BY <3>1, <3>2 DEF RegistersInv, MemoryInv, ArgumentsInv, Untouched
  <2> QED
    BY <2>1, <2>2
<1>3. CASE Check
  <2>1. CASE Fails
    BY <2>1, FailsStep
  <2>2. CASE ~Fails
    <3>1. /\ UNCHANGED <<mem, held, args, value, op, given>>
          /\ stage = "check" /\ stage' = "run"
      BY <1>3, <2>2 DEF Check
    <3> QED
      BY <3>1, KeptStep DEF RegistersInv, ArgumentsInv
  <2> QED
    BY <2>1, <2>2
<1>4. CASE RunOpcode
  BY <1>4, OpcodeStep DEF RunOpcode
<1>5. CASE PApply
  BY <1>5, PApplyStep
<1>6. CASE Drop
  BY <1>6, FailsStep DEF Drop
<1>7. ASSUME NEW x \in Vars, Store(x) PROVE RegistersInv' /\ Untouched
  <2>1. /\ held' = [held EXCEPT ![x] = value] /\ mem' = Collected(mem, held')
        /\ stage' = "program" /\ args' = Nil /\ value' = Nil
    BY <1>7 DEF Store
  <2>2. held' \in [Vars -> Known(mem)]
    BY <2>1 DEF RegistersInv, MemoryInv
  <2> QED
    BY <2>1, <2>2, CollectedStep
<1>8. CASE UNCHANGED primitivesVars
  <2>1. UNCHANGED <<mem, held, stage, op, args, value, given>>
    BY <1>8 DEF primitivesVars
  <2> QED
    BY <2>1, KeptStep DEF RegistersInv, ArgumentsInv
<1> QED
  BY <1>1, <1>2, <1>3, <1>4, <1>5, <1>6, <1>7, <1>8 DEF PrimitivesNext

(* No register, variable or pair in use holds a cell that was taken back,  *)
(* and an argument list shares with the program only the pairs that apply  *)
(* gave: every call and every collection of src/scheme.c modelled here     *)
(* leaves it so.                                                           *)
THEOREM RegistersAlways == PrimitivesSpec => []RegistersInv
<1>1. RegistersInv /\ [PrimitivesNext]_primitivesVars => RegistersInv'
  BY RegistersStep
<1> QED
  BY RegistersInit, <1>1, PTL DEF PrimitivesSpec

(* What the program can reach changes by set-cdr! only, or if apply gave   *)
(* the procedure the very list it is in: property HeldKept.                *)
THEOREM CellsAreKept == PrimitivesSpec => HeldKept
<1>1. RegistersInv /\ [PrimitivesNext]_primitivesVars => RegistersInv'
  BY RegistersStep
<1>2. RegistersInv /\ [PrimitivesNext]_primitivesVars
        => [\A c \in HeldCells(mem, held) :
              \/ stage = "run" /\ op = "set-cdr!"
              \/ c \notin HeldCells(mem', held')
              \/ c \in given'
              \/ <<mem'.car[c], mem'.cdr[c]>> = <<mem.car[c], mem.cdr[c]>>]_primitivesVars
  BY RegistersStep DEF Untouched
<1> QED
  BY RegistersInit, <1>1, <1>2, PTL DEF PrimitivesSpec, HeldKept
----------------------------------------------------------------------------
(* Lists by their cdrs, and the two pointers.                              *)

(* What comes when one follows the cdrs of v: w[k] after k steps.          *)
Walk(m, v, n, w) == /\ w \in [0..n -> Values] /\ w[0] = v
                    /\ \A k \in 1..n : w[k] = Onward(m, w[k - 1])

LEMMA OnwardFacts ==
  ASSUME NEW m \in Mems, NEW x \in Values
  PROVE  /\ Onward(m, x) \in Values
         /\ x \in Cells => Onward(m, x) = m.cdr[x] /\ cdr(m, x) = m.cdr[x]
         /\ x \notin Cells => Onward(m, x) = x
BY MemFacts DEF Onward, cdr, is_pair

LEMMA WalkExists ==
  ASSUME NEW m \in Mems, NEW v \in Values, NEW n \in Nat
  PROVE  \E w : Walk(m, v, n, w)
<1> DEFINE f == [x \in Values |-> Onward(m, x)]
<1>1. f \in [Values -> Values]
  BY OnwardFacts
<1>2. PICK w \in [0..n -> Values] : Looped(n, v, f, w)
  <2> HIDE DEF f
  <2> QED
    BY <1>1, LoopedStep
<1>3. w = [k \in 0..n |-> IF k = 0 THEN v ELSE f[w[k - 1]]]
  BY <1>2 DEF Looped
<1>4. w[0] = v /\ \A k \in 1..n : w[k] = f[w[k - 1]]
  <2>1. \A k \in 0..n : w[k] = IF k = 0 THEN v ELSE f[w[k - 1]]
    BY <1>3
  <2>2. 0 \in 0..n /\ \A k \in 1..n : k \in 0..n /\ k # 0
    OBVIOUS
  <2> HIDE DEF f
  <2> QED
    BY <2>1, <2>2
<1>5. \A k \in 1..n : w[k - 1] \in Values /\ w[k] = Onward(m, w[k - 1])
  <2>1. \A k \in 1..n : k - 1 \in 0..n
    OBVIOUS
  <2> QED
    BY <1>4, <2>1
<1> QED
  BY <1>4, <1>5 DEF Walk

LEMMA WalkEnds ==
  ASSUME NEW m \in Mems, NEW v, NEW n \in Nat, NEW w, Walk(m, v, n, w),
         NEW k \in 0..n, w[k] \notin Cells
  PROVE  \A j \in k..n : w[j] = w[k]
<1> DEFINE T == {j \in k..n : w[j] = w[k]}
<1>1. k \in T
  OBVIOUS
<1>2. ASSUME NEW j \in k..n, j \in T /\ j < n PROVE j + 1 \in T
  <2>1. j + 1 \in 1..n /\ (j + 1) - 1 = j /\ j \in 0..n /\ j + 1 \in k..n
    BY <1>2
  <2>2. w[j] = w[k] /\ w[j] \in Values /\ w[j + 1] = Onward(m, w[j])
    BY <1>2, <2>1 DEF Walk
  <2> QED
    BY <2>1, <2>2, OnwardFacts
<1>3. \A j \in k..n : j \in T
  <2>1. k \in Nat
    OBVIOUS
  <2> HIDE DEF T
  <2> QED
    BY <1>1, <1>2, <2>1, Upwards
<1> QED
  BY <1>3

(* A walk that comes back to where it was goes round for ever.             *)
LEMMA WalkRepeats ==
  ASSUME NEW m \in Mems, NEW v, NEW n \in Nat, NEW w, Walk(m, v, n, w),
         NEW i \in 0..n, NEW j \in 0..n, i < j, w[i] = w[j],
         \A l \in 0..(j - 1) : w[l] \in Cells
  PROVE  /\ \A k \in i..(n - (j - i)) : w[k + (j - i)] = w[k]
         /\ \A k \in 0..n : w[k] \in Cells
<1> DEFINE p == j - i
<1>p. p \in Nat /\ p >= 1 /\ j = i + p /\ n - p \in Nat /\ i <= n - p
  OBVIOUS
<1> HIDE DEF p
<1>1. \A k \in i..(n - p) : w[k + p] = w[k]
  <2> DEFINE T == {k \in i..(n - p) : w[k + p] = w[k]}
  <2>1. i \in T
    BY <1>p
  <2>2. ASSUME NEW k \in i..(n - p), k \in T /\ k < n - p PROVE k + 1 \in T
    <3>1. /\ k + 1 \in i..(n - p) /\ k + 1 \in 1..n /\ (k + 1) - 1 = k
          /\ (k + 1) + p \in 1..n /\ ((k + 1) + p) - 1 = k + p
      BY <1>p, <2>2
    <3>2. w[k + 1] = Onward(m, w[k]) /\ w[(k + 1) + p] = Onward(m, w[k + p])
      BY <3>1 DEF Walk
    <3> QED
      BY <2>2, <3>1, <3>2
  <2>3. \A k \in i..(n - p) : k \in T
    <3> DEFINE y == n - p
    <3>1. i \in Nat /\ y \in Nat
      BY <1>p
    <3>2. i \in T /\ \A k \in i..y : k \in T /\ k < y => k + 1 \in T
      BY <2>1, <2>2
    <3> HIDE DEF T, y
    <3>3. \A k \in i..y : k \in T
      BY <3>1, <3>2, Upwards
    <3> QED
      BY <3>3 DEF y
  <2> QED
    BY <2>3
<1>2. \A k \in 0..n : w[k] \in Cells
  <2> DEFINE T == {k \in 0..n : \A l \in 0..k : w[l] \in Cells}
  <2>1. 0 \in T
    BY <1>p
  <2>2. ASSUME NEW k \in 0..n, k \in T /\ k < n PROVE k + 1 \in T
    <3>1. k + 1 \in 0..n /\ \A l \in 0..(k + 1) : l \in 0..k \/ l = k + 1
      BY <2>2
    <3>2. w[k + 1] \in Cells
      <4>1. CASE k + 1 <= j - 1
        BY <3>1, <4>1
      <4>2. CASE k + 1 > j - 1
        <5>1. (k + 1) - p \in i..(n - p) /\ (k + 1) - p \in 0..k /\ ((k + 1) - p) + p = k + 1
          BY <1>p, <2>2, <4>2
        <5>2. w[k + 1] = w[(k + 1) - p]
          BY <1>1, <5>1
        <5> QED
          BY <2>2, <5>1, <5>2
      <4> QED
        BY <3>1, <4>1, <4>2
    <3> QED
      BY <2>2, <3>1, <3>2
  <2>3. \A k \in 0..n : k \in T
    <3> HIDE DEF T
    <3>1. 0 \in Nat
      OBVIOUS
    <3> QED
      BY <2>1, <2>2, <3>1, Upwards
  <2>4. \A k \in 0..n : k \in 0..k
    OBVIOUS
  <2> QED
    BY <2>3, <2>4
<1> QED
  BY <1>1, <1>2 DEF p

(* A walk that is in cells for as many steps as there are cells: one of    *)
(* the first of these is met again after as many steps more.               *)
LEMMA WalkMeets ==
  ASSUME NEW m \in Mems, NEW v, NEW n \in Nat, NEW w, Walk(m, v, n, w),
         2 * Turns <= n, w[Cardinality(Cells)] \in Cells
  PROVE  /\ \A k \in 0..n : w[k] \in Cells
         /\ \E s \in 1..Cardinality(Cells) : w[2 * s] = w[s]
<1> DEFINE C == Cardinality(Cells)
<1>c. C \in Nat /\ Turns = C + 1 /\ IsFiniteSet(Cells)
  BY TurnsFacts
<1> HIDE DEF C
<1>1. \A k \in 0..C : w[k] \in Cells
  <2> SUFFICES ASSUME NEW k \in 0..C, w[k] \notin Cells PROVE FALSE
    OBVIOUS
  <2>1. k \in 0..n /\ C \in k..n
    BY <1>c
  <2>2. w[C] = w[k]
    BY <2>1, WalkEnds
  <2> QED
    BY <2>2 DEF C
<1>2. PICK i \in 0..C, j \in 0..C : i < j /\ w[i] = w[j]
  <2> DEFINE f == [k \in 0..C |-> w[k]]
  <2>1. f \in [0..C -> Cells]
    BY <1>1
  <2>2. IsFiniteSet(0..C) /\ Cardinality(0..C) = C + 1
    <3>1. 0 \in Int /\ C \in Int /\ ~(0 > C) /\ C - 0 + 1 = C + 1
      BY <1>c
    <3> QED
      BY <3>1, FS_Interval
  <2>3. Cardinality(0..C) > Cardinality(Cells)
    BY <1>c, <2>2 DEF C
  <2> HIDE DEF f
  <2>4. PICK x \in 0..C, y \in 0..C : x # y /\ f[x] = f[y]
    BY <1>c, <2>1, <2>2, <2>3, FS_PigeonHole
  <2>5. w[x] = w[y] /\ (x < y \/ y < x)
    BY <2>4 DEF f
  <2> QED
    BY <2>5
<1>3. /\ \A k \in i..(n - (j - i)) : w[k + (j - i)] = w[k]
      /\ \A k \in 0..n : w[k] \in Cells
  <2>1. i \in 0..n /\ j \in 0..n /\ \A l \in 0..(j - 1) : w[l] \in Cells
    BY <1>1, <1>c
  <2> QED
    BY <1>2, <2>1, WalkRepeats
<1> DEFINE p == j - i
           q == j \div p
           s == p * q
<1>4. p \in Nat /\ p >= 1 /\ p <= j
  BY <1>2
<1>5. q \in Nat /\ j = p * q + (j % p) /\ j % p \in Nat /\ j % p < p /\ p * q \in Nat
  <2> HIDE DEF p
  <2> QED
    BY <1>4
<1>6. s \in Nat /\ s > i /\ s <= j
  <2>1. s = j - (j % p) /\ j % p < j - i
    BY <1>5
  <2> HIDE DEF s
  <2> QED
    BY <1>2, <1>5, <2>1
<1> DEFINE T == {r \in 0..q : w[s + p * r] = w[s]}
<1>7. \A r \in 0..q : r \in T
  <2> HIDE DEF q, p
  <2>1. 0 \in T
    <3>1. p * 0 = 0 /\ s + 0 = s
      BY <1>4, <1>6
    <3> QED
      BY <1>5, <3>1
  <2>2. ASSUME NEW r \in 0..q, r \in T /\ r < q PROVE r + 1 \in T
    <3>1. p * (r + 1) = p * r + p /\ p * r \in Nat /\ r \in Nat /\ r + 1 \in 0..q
      BY <1>4, <1>5, <2>2
    <3>2. p * (r + 1) <= p * q
      <4>1. r + 1 <= q /\ r + 1 \in Nat
        BY <1>5, <2>2
      <4> QED
        BY <1>4, <1>5, <4>1
    <3>3. p * (r + 1) <= s
      BY <3>2
    <3> HIDE DEF s
    <3>4. s + p * r \in i..(n - p) /\ (s + p * r) + p = s + p * (r + 1)
      BY <1>2, <1>4, <1>6, <1>c, <3>1, <3>3
    <3>5. w[(s + p * r) + p] = w[s + p * r]
      BY <1>3, <3>4 DEF p
    <3> QED
      BY <2>2, <3>1, <3>4, <3>5
  <2>3. 0 \in Nat
    OBVIOUS
  <2> HIDE DEF T
  <2> QED
    BY <1>5, <2>1, <2>2, <2>3, Upwards
<1>8. w[2 * s] = w[s]
  <2>1. q \in 0..q
    BY <1>5
  <2>2. w[s + p * q] = w[s]
    BY <1>7, <2>1
  <2>3. s + p * q = 2 * s
    <3> HIDE DEF p, q
    <3> QED
      BY <1>5
  <2> QED
    BY <2>2, <2>3
<1>9. s \in 1..C
  <2> HIDE DEF s
  <2> QED
    BY <1>2, <1>6, <1>c
<1> QED
  BY <1>3, <1>8, <1>9 DEF C

(* How many pairs before the walk is out of cells. *)
First(n, w, l) == l \in 0..n /\ w[l] \notin Cells /\ \A j \in 0..(l - 1) : w[j] \in Cells

(* The cdrs of v are those of the walk, and where it ends says its shape.  *)
Along(m, v, n, w) ==
  /\ \A k \in 0..Cardinality(Cells) : Cdrs(m, v)[k] = w[k]
  /\ Circular(m, v) <=> w[Cardinality(Cells)] \in Cells
  /\ Circular(m, v) => \A k \in 0..n : w[k] \in Cells
  /\ \A l : First(n, w, l) => /\ ~Circular(m, v) /\ End(m, v) = w[l] /\ Length(m, v) = l
                              /\ l \in 0..Cardinality(Cells)

LEMMA CdrsFacts ==
  ASSUME NEW m \in Mems, NEW v, NEW n \in Nat, NEW w, Walk(m, v, n, w), 2 * Turns <= n
  PROVE  Along(m, v, n, w)
<1> DEFINE C == Cardinality(Cells)
<1>c. C \in Nat /\ Turns = C + 1 /\ C \in 0..C /\ C \in 0..n
  BY TurnsFacts
<1> HIDE DEF C
<1>1. \A k \in 0..C : Cdrs(m, v)[k] = w[k]
  <2> DEFINE d == CHOOSE d : d = [k \in 0..C |-> IF k = 0 THEN v ELSE Onward(m, d[k - 1])]
             z == [k \in 0..C |-> w[k]]
  <2>1. Cdrs(m, v) = d
    BY DEF Cdrs, C
  <2>2. z = [k \in 0..C |-> IF k = 0 THEN v ELSE Onward(m, z[k - 1])]
    <3>1. \A k \in 0..C : w[k] = IF k = 0 THEN v ELSE Onward(m, z[k - 1])
      <4>1. \A k \in 0..C : k # 0 => k \in 1..n /\ k - 1 \in 0..C /\ z[k - 1] = w[k - 1]
        BY <1>c
      <4> HIDE DEF z
      <4> QED
        BY <4>1 DEF Walk
    <3> QED
      BY <3>1
  <2>3. d = [k \in 0..C |-> IF k = 0 THEN v ELSE Onward(m, d[k - 1])]
    <3> HIDE DEF z
    <3> QED
      BY <2>2
  <2> HIDE DEF d
  <2> DEFINE T == {k \in 0..C : d[k] = w[k]}
  <2>4. 0 \in T
    <3>1. 0 \in 0..C
      BY <1>c
    <3>2. d[0] = v
      BY <2>3, <3>1
    <3> QED
      BY <3>1, <3>2 DEF Walk
  <2>5. ASSUME NEW k \in 0..C, k \in T /\ k < C PROVE k + 1 \in T
    <3>1. k + 1 \in 0..C /\ k + 1 # 0 /\ (k + 1) - 1 = k /\ k + 1 \in 1..n
      BY <1>c, <2>5
    <3>2. d[k + 1] = Onward(m, d[k])
      BY <2>3, <3>1
    <3> QED
      BY <2>5, <3>1, <3>2 DEF Walk
  <2>6. \A k \in 0..C : k \in T
    <3> HIDE DEF T
    <3>1. 0 \in Nat
      OBVIOUS
    <3> QED
      BY <1>c, <2>4, <2>5, <3>1, Upwards
  <2> QED
    BY <2>1, <2>6
<1>2. End(m, v) = w[C] /\ (Circular(m, v) <=> w[C] \in Cells)
  BY <1>1, <1>c DEF End, Circular, is_pair, C
<1>3. w[C] \in Cells => \A k \in 0..n : w[k] \in Cells
  BY WalkMeets DEF C
<1>4. ASSUME NEW l, First(n, w, l)
      PROVE  /\ ~Circular(m, v) /\ End(m, v) = w[l] /\ Length(m, v) = l /\ l \in 0..C
  <2>1. l \in 0..n /\ w[l] \notin Cells /\ \A j \in 0..(l - 1) : w[j] \in Cells
    BY <1>4 DEF First
  <2>2. w[C] \notin Cells
    BY <1>3, <2>1
  <2>3. l \in 0..C
    BY <1>c, <2>1, <2>2
  <2>4. End(m, v) = w[l]
    <3>1. C \in l..n
      BY <1>c, <2>3
    <3> QED
      BY <1>2, <2>1, <3>1, WalkEnds
  <2>5. Length(m, v) = l
    <3> DEFINE P(k) == /\ ~is_pair(Cdrs(m, v)[k])
                       /\ \A j \in 0 .. k - 1 : is_pair(Cdrs(m, v)[j])
    <3>1. Length(m, v) = CHOOSE k \in 0..C : P(k)
      BY <1>2, <2>2 DEF Length, C
    <3>2. P(l)
      <4>1. \A j \in 0..(l - 1) : j \in 0..C
        BY <1>c, <2>3
      <4> QED
        BY <1>1, <2>1, <2>3, <4>1 DEF is_pair
    <3>3. \A k \in 0..C : P(k) => k = l
      <4> SUFFICES ASSUME NEW k \in 0..C, P(k), k # l PROVE FALSE
        OBVIOUS
      <4>1. CASE k < l
        <5>1. k \in 0..(l - 1)
          BY <2>3, <4>1
        <5> QED
          BY <1>1, <2>1, <5>1 DEF is_pair
      <4>2. CASE l < k
        <5>1. l \in 0..(k - 1)
          BY <2>3, <4>2
        <5> QED
          BY <1>1, <2>1, <2>3, <5>1 DEF is_pair
      <4> QED
        BY <2>3, <4>1, <4>2
    <3> HIDE DEF P
    <3> QED
      BY <2>3, <3>1, <3>2, <3>3
  <2> QED
    BY <1>2, <2>2, <2>3, <2>4, <2>5
<1> QED
  BY <1>1, <1>2, <1>3, <1>4 DEF Along, C

(* A walk that is out of cells is so for the first time somewhere.         *)
LEMMA FirstExists ==
  ASSUME NEW n \in Nat, NEW w, NEW k \in 0..n, w[k] \notin Cells
  PROVE  \E l \in 0..k : First(n, w, l)
<1> DEFINE B == {j \in 0..k : w[j] \notin Cells}
<1>1. k \in B /\ B \in SUBSET Nat
  OBVIOUS
<1> HIDE DEF B
<1>2. PICK l \in B : \A x \in B : l <= x
  BY <1>1, HasLeast
<1>3. l \in 0..k /\ l \in 0..n /\ w[l] \notin Cells
  BY <1>2 DEF B
<1>4. ASSUME NEW j \in 0..(l - 1), w[j] \notin Cells PROVE FALSE
  <2>1. j \in 0..k /\ j < l /\ j \in Nat
    BY <1>3
  <2>2. j \in B
    BY <1>4, <2>1 DEF B
  <2>3. l <= j
    BY <1>2, <2>2
  <2> QED
    BY <1>3, <2>1, <2>3
<1> QED
  BY <1>3, <1>4 DEF First

(* list_length.                                                            *)
Pointers == [slow : Values, fast : Values, i : Int, over : BOOLEAN]

LEMMA OverFacts ==
  ASSUME NEW s \in Pointers, NEW x \in Int
  PROVE  Over(s, x) \in Pointers /\ Over(s, x).i = x /\ Over(s, x).over = TRUE
BY DEF Pointers, Over

(* A turn: where the two pointers were and where they are. *)
LEMMA TwoPointersTurn ==
  ASSUME NEW m \in Mems, NEW s \in Pointers
  PROVE  LET t == TwoPointers(m, s)
             b == cdr(m, s.fast)
             c == cdr(m, b)
             d == cdr(m, s.slow)
         IN  /\ t \in Pointers
             /\ s.over => t = s
             /\ ~s.over /\ s.fast \notin Cells =>
                  t.over /\ t.i = IF s.fast = Nil THEN s.i ELSE -2 - s.i
             /\ ~s.over /\ s.fast \in Cells /\ b \notin Cells =>
                  t.over /\ t.i = IF b = Nil THEN s.i + 1 ELSE -2 - (s.i + 1)
             /\ ~s.over /\ s.fast \in Cells /\ b \in Cells /\ c = d => t.over /\ t.i = -1
             /\ ~s.over /\ s.fast \in Cells /\ b \in Cells /\ c # d =>
                  t = [slow |-> d, fast |-> c, i |-> s.i + 2, over |-> FALSE]
<1> DEFINE b == cdr(m, s.fast)
           c == cdr(m, b)
           d == cdr(m, s.slow)
           u == [slow |-> d, fast |-> c, i |-> s.i + 2, over |-> FALSE]
<1>1. /\ \A x \in Values : cdr(m, x) \in Values
      /\ s.i \in Int /\ s.over \in BOOLEAN /\ s.fast \in Values /\ s.slow \in Values
      /\ Nil \notin Cells
  BY MemFacts DEF cdr, Values, Pointers
<1>2. /\ s.i + 1 \in Int /\ s.i + 2 \in Int /\ -2 - s.i \in Int /\ -2 - (s.i + 1) \in Int /\ -1 \in Int
  BY <1>1
<1>3. u \in Pointers
  <2>1. d \in Values /\ c \in Values
    BY <1>1
  <2> HIDE DEF d, c
  <2> QED
    BY <1>2, <2>1 DEF Pointers
<1>4. TwoPointers(m, s) = IF s.over THEN s
        ELSE IF s.fast = Nil THEN Over(s, s.i)
        ELSE IF s.fast \notin Cells THEN Over(s, -2 - s.i)
        ELSE IF b = Nil THEN Over(s, s.i + 1)
        ELSE IF b \notin Cells THEN Over(s, -2 - (s.i + 1))
        ELSE IF c = d THEN Over(s, -1) ELSE u
  BY DEF TwoPointers, is_pair
<1> HIDE DEF u, b, c, d
<1>5. \A x \in Int : Over(s, x) \in Pointers /\ Over(s, x).i = x /\ Over(s, x).over = TRUE
  BY OverFacts
<1>6. /\ TwoPointers(m, s) \in Pointers
      /\ s.over => TwoPointers(m, s) = s
  BY <1>1, <1>2, <1>3, <1>4, <1>5
<1>7. ~s.over /\ s.fast \notin Cells =>
        TwoPointers(m, s).over /\ TwoPointers(m, s).i = IF s.fast = Nil THEN s.i ELSE -2 - s.i
  BY <1>1, <1>2, <1>4, <1>5
<1>8. ~s.over /\ s.fast \in Cells /\ b \notin Cells =>
        TwoPointers(m, s).over /\ TwoPointers(m, s).i = IF b = Nil THEN s.i + 1 ELSE -2 - (s.i + 1)
  BY <1>1, <1>2, <1>4, <1>5
<1>9. ~s.over /\ s.fast \in Cells /\ b \in Cells /\ c = d =>
        TwoPointers(m, s).over /\ TwoPointers(m, s).i = -1
  BY <1>1, <1>2, <1>4, <1>5
<1>10. ~s.over /\ s.fast \in Cells /\ b \in Cells /\ c # d => TwoPointers(m, s) = u
  BY <1>1, <1>4
<1> QED
  BY <1>6, <1>7, <1>8, <1>9, <1>10 DEF u, b, c, d

LEMMA LengthLoop ==
  ASSUME NEW m \in Mems, NEW v \in Values
  PROVE  \E at \in [0..Turns -> Pointers] :
           /\ at[0] = [slow |-> v, fast |-> v, i |-> 0, over |-> FALSE]
           /\ list_length(m, v) = at[Turns].i
           /\ \A k \in 1..Turns : at[k] = TwoPointers(m, at[k - 1])
<1> DEFINE a == [slow |-> v, fast |-> v, i |-> 0, over |-> FALSE]
           at == CHOOSE at : at = [k \in 0..Turns |-> IF k = 0 THEN a ELSE TwoPointers(m, at[k - 1])]
           f == [s \in Pointers |-> TwoPointers(m, s)]
<1>0. a \in Pointers
  BY DEF Pointers
<1>5. list_length(m, v) = at[Turns].i
  BY DEF list_length, Loop
<1> HIDE DEF a
<1>1. f \in [Pointers -> Pointers]
  BY TwoPointersTurn
<1>2. PICK h \in [0..Turns -> Pointers] : Looped(Turns, a, f, h)
  <2> HIDE DEF f
  <2> QED
    BY <1>0, <1>1, LoopedStep, TurnsFacts
<1>3. h = [k \in 0..Turns |-> IF k = 0 THEN a ELSE TwoPointers(m, h[k - 1])]
  <2>1. \A k \in 0..Turns : k # 0 => k - 1 \in 0..Turns
    BY TurnsFacts
  <2>2. \A k \in 0..Turns : k # 0 => f[h[k - 1]] = TwoPointers(m, h[k - 1])
    BY <2>1
  <2> HIDE DEF f
  <2> QED
    BY <1>2, <2>2 DEF Looped
<1>4. at = [k \in 0..Turns |-> IF k = 0 THEN a ELSE TwoPointers(m, at[k - 1])]
  BY <1>3
<1> HIDE DEF at
<1>t. 0 \in 0..Turns /\ Turns \in Nat /\ \A k \in 1..Turns : k \in 0..Turns /\ k # 0
  BY TurnsFacts
<1>6. at[0] = a /\ \A k \in 1..Turns : at[k] = TwoPointers(m, at[k - 1])
  <2>1. \A k \in 0..Turns : at[k] = IF k = 0 THEN a ELSE TwoPointers(m, at[k - 1])
    BY <1>4
  <2> QED
    BY <2>1, <1>t
<1>7. \A k \in 0..Turns : at[k] \in Pointers
  <2>1. \A k \in 1..Turns : at[k - 1] \in Pointers => at[k] \in Pointers
    BY <1>6, TwoPointersTurn
  <2> QED
    BY <1>0, <1>6, <1>t, <2>1, StaysIn
<1>8. at \in [0..Turns -> Pointers]
  BY <1>4, <1>7
<1> QED
  BY <1>5, <1>6, <1>8 DEF a

(* The answers of list_length.                                             *)
Answer(n, w, r) ==
  \/ \E l \in 0..n : First(n, w, l) /\ r = IF w[l] = Nil THEN l ELSE -2 - l
  \/ r = -1 /\ \A k \in 0..n : w[k] \in Cells

LEMMA LengthAnswers ==
  ASSUME NEW m \in Mems, NEW v \in Values, NEW n \in Nat, NEW w, Walk(m, v, n, w), 2 * Turns <= n
  PROVE  Answer(n, w, list_length(m, v))
<1>1. PICK at \in [0..Turns -> Pointers] :
           /\ at[0] = [slow |-> v, fast |-> v, i |-> 0, over |-> FALSE]
           /\ list_length(m, v) = at[Turns].i
           /\ \A k \in 1..Turns : at[k] = TwoPointers(m, at[k - 1])
  BY LengthLoop
<1>t. Turns \in Nat /\ Turns >= 1 /\ Turns \in 0..Turns /\ 0 \in 0..Turns /\ Cardinality(Cells) \in Nat
      /\ Turns = Cardinality(Cells) + 1
  BY TurnsFacts
<1>w. /\ \A k \in 0..n : w[k] \in Values
      /\ w[0] = v /\ \A k \in 1..n : w[k] = Onward(m, w[k - 1])
  BY DEF Walk
<1> DEFINE Here(k) == /\ at[k].slow = w[k] /\ at[k].fast = w[2 * k] /\ at[k].i = 2 * k
                      /\ \A j \in 0..(2 * k - 1) : w[j] \in Cells
                      /\ \A s \in 1..k : w[2 * s] # w[s]
           T == {k \in 0..Turns : IF at[k].over THEN Answer(n, w, at[k].i) ELSE Here(k)}
<1>2. 0 \in T
  <2>1. at[0].slow = w[0] /\ at[0].fast = w[0] /\ at[0].i = 0 /\ at[0].over = FALSE
    BY <1>1, <1>w
  <2>2. 2 * 0 = 0 /\ \A j \in 0..(0 - 1) : w[j] \in Cells
    OBVIOUS
  <2>3. \A s \in 1..0 : w[2 * s] # w[s]
    OBVIOUS
  <2> QED
    BY <1>t, <2>1, <2>2, <2>3
<1>3. ASSUME NEW k \in 0..Turns, k \in T /\ k < Turns PROVE k + 1 \in T
  <2> DEFINE s == at[k]
             t == TwoPointers(m, s)
             a == w[2 * k]
             b == w[2 * k + 1]
             c == w[2 * k + 2]
  <2>1. k + 1 \in 0..Turns /\ at[k + 1] = t /\ s \in Pointers
    <3>1. k \in 0..Turns /\ k < Turns
      BY <1>3
    <3>2. k + 1 \in 0..Turns /\ k + 1 \in 1..Turns /\ (k + 1) - 1 = k
      BY <1>t, <3>1
    <3>3. at[k + 1] = TwoPointers(m, at[(k + 1) - 1])
      BY <1>1, <3>2
    <3> QED
      BY <3>1, <3>2, <3>3
  <2>i. /\ k \in 0..n /\ 2 * k \in 0..n /\ 2 * k + 1 \in 1..n /\ 2 * k + 2 \in 1..n /\ k + 1 \in 1..n
        /\ 2 * k + 1 \in 0..n /\ (2 * k + 2) - 1 = 2 * k + 1 /\ (2 * k + 1) - 1 = 2 * k
        /\ (k + 1) - 1 = k /\ 2 * (k + 1) = 2 * k + 2 /\ k \in Nat /\ 2 * k \in Nat
    <3>1. k < Turns
      BY <1>3
    <3> QED
      BY <1>t, <3>1
  <2> DEFINE bb == cdr(m, s.fast)
             cc == cdr(m, bb)
             dd == cdr(m, s.slow)
  <2>t. /\ t \in Pointers
        /\ s.over => t = s
        /\ ~s.over /\ s.fast \notin Cells =>
             t.over /\ t.i = IF s.fast = Nil THEN s.i ELSE -2 - s.i
        /\ ~s.over /\ s.fast \in Cells /\ bb \notin Cells =>
             t.over /\ t.i = IF bb = Nil THEN s.i + 1 ELSE -2 - (s.i + 1)
        /\ ~s.over /\ s.fast \in Cells /\ bb \in Cells /\ cc = dd => t.over /\ t.i = -1
        /\ ~s.over /\ s.fast \in Cells /\ bb \in Cells /\ cc # dd =>
             t = [slow |-> dd, fast |-> cc, i |-> s.i + 2, over |-> FALSE]
    BY <2>1, TwoPointersTurn
  <2>u. IF s.over THEN Answer(n, w, s.i) ELSE Here(k)
    BY <1>3
  <2>v. k + 1 \in 0..Turns /\ (IF t.over THEN Answer(n, w, t.i) ELSE Here(k + 1)) => k + 1 \in T
    BY <2>1
  <2>b. a \in Cells => cdr(m, a) = b /\ b \in Values
    <3>1. a \in Values /\ b \in Values /\ b = Onward(m, a)
      BY <1>w, <2>i
    <3> QED
      BY <3>1, OnwardFacts
  <2>c. b \in Cells => cdr(m, b) = c
    <3>1. b \in Values /\ c = Onward(m, b)
      BY <1>w, <2>i
    <3> QED
      BY <3>1, OnwardFacts
  <2>d. w[k] \in Cells => cdr(m, w[k]) = w[k + 1]
    <3>1. w[k] \in Values /\ w[k + 1] = Onward(m, w[k])
      BY <1>w, <2>i
    <3> QED
      BY <3>1, OnwardFacts
  <2> HIDE DEF T, t, a, b, c
  <2>2. CASE s.over
    <3>1. t = s /\ Answer(n, w, t.i)
      BY <2>2, <2>t, <2>u
    <3> QED
      BY <2>1, <2>2, <2>v, <3>1
  <2>3. CASE ~s.over
    <3>1. /\ s.slow = w[k] /\ s.fast = a /\ s.i = 2 * k
          /\ \A j \in 0..(2 * k - 1) : w[j] \in Cells
          /\ \A q \in 1..k : w[2 * q] # w[q]
      BY <2>3, <2>u DEF a
    <3> HIDE DEF s
    <3>2. CASE a \notin Cells
      <4>1. First(n, w, 2 * k)
        BY <2>i, <3>1, <3>2 DEF First, a
      <4>2. t.over /\ t.i = IF a = Nil THEN 2 * k ELSE -2 - 2 * k
        BY <2>3, <2>t, <3>1, <3>2
      <4>3. Answer(n, w, t.i)
        BY <2>i, <4>1, <4>2 DEF Answer, a
      <4> QED
        BY <2>1, <2>v, <4>2, <4>3
    <3>3. CASE a \in Cells
      <4>1. bb = b
        BY <2>b, <3>1, <3>3
      <4>a. \A j \in 0..(2 * k) : w[j] \in Cells
        <5>1. \A j \in 0..(2 * k) : j \in 0..(2 * k - 1) \/ j = 2 * k
          BY <2>i
        <5> QED
          BY <3>1, <3>3, <5>1 DEF a
      <4>2. CASE b \notin Cells
        <5>1. First(n, w, 2 * k + 1)
          BY <2>i, <4>2, <4>a DEF First, b
        <5>2. t.over /\ t.i = IF b = Nil THEN 2 * k + 1 ELSE -2 - (2 * k + 1)
          BY <2>3, <2>t, <3>1, <3>3, <4>1, <4>2
        <5>3. Answer(n, w, t.i)
          BY <2>i, <5>1, <5>2 DEF Answer, b
        <5> QED
          BY <2>1, <2>v, <5>2, <5>3
      <4>3. CASE b \in Cells
        <5>1. cc = c /\ dd = w[k + 1]
          <6>1. w[k] \in Cells
            BY <2>i, <4>a
          <6> QED
            BY <2>c, <2>d, <3>1, <4>1, <4>3, <6>1
        <5>a. \A j \in 0..(2 * k + 1) : w[j] \in Cells
          <6>1. \A j \in 0..(2 * k + 1) : j \in 0..(2 * k) \/ j = 2 * k + 1
            BY <2>i
          <6> QED
            BY <4>3, <4>a, <6>1 DEF b
        <5> HIDE DEF bb, cc, dd
        <5>2. CASE c = w[k + 1]
          <6>1. t.over /\ t.i = -1
            BY <2>3, <2>t, <3>1, <3>3, <4>1, <4>3, <5>1, <5>2
          <6>2. \A l \in 0..n : w[l] \in Cells
            <7>1. k + 1 \in 0..n /\ 2 * k + 2 \in 0..n /\ k + 1 < 2 * k + 2
              BY <2>i
            <7>2. w[2 * k + 2] = w[k + 1] /\ \A l \in 0..((2 * k + 2) - 1) : w[l] \in Cells
              BY <2>i, <5>2, <5>a DEF c
            <7> QED
              BY <7>1, <7>2, WalkRepeats
          <6>3. Answer(n, w, t.i)
            BY <6>1, <6>2 DEF Answer
          <6> QED
            BY <2>1, <2>v, <6>1, <6>3
        <5>3. CASE c # w[k + 1]
          <6>1. t = [slow |-> w[k + 1], fast |-> c, i |-> 2 * k + 2, over |-> FALSE]
            BY <2>3, <2>t, <3>1, <3>3, <4>1, <4>3, <5>1, <5>3
          <6>2. t.slow = w[k + 1] /\ t.fast = c /\ t.i = 2 * k + 2 /\ t.over = FALSE
            BY ONLY <6>1
          <6>3. \A q \in 1..(k + 1) : w[2 * q] # w[q]
            <7>1. \A q \in 1..(k + 1) : q \in 1..k \/ q = k + 1
              BY <2>i
            <7>2. w[2 * (k + 1)] # w[k + 1]
              BY <2>i, <5>3 DEF c
            <7> QED
              BY <3>1, <7>1, <7>2
          <6>4. 2 * (k + 1) - 1 = 2 * k + 1
            BY <2>i
          <6>5. Here(k + 1)
            BY <2>1, <2>i, <5>a, <6>2, <6>3, <6>4 DEF c
          <6> QED
            BY <2>1, <2>v, <6>2, <6>5
        <5> QED
          BY <5>2, <5>3
      <4> QED
        BY <4>2, <4>3
    <3> QED
      BY <3>2, <3>3
  <2> QED
    BY <2>2, <2>3
<1>4. Turns \in T
  <2>1. \A k \in 0..Turns : k \in T
    <3> HIDE DEF T
    <3>1. 0 \in Nat
      OBVIOUS
    <3> QED
      BY <1>2, <1>3, <1>t, <3>1, Upwards
  <2> QED
    BY <1>t, <2>1
<1>5. at[Turns].over
  <2> SUFFICES ASSUME ~at[Turns].over PROVE FALSE
    OBVIOUS
  <2>1. /\ \A j \in 0..(2 * Turns - 1) : w[j] \in Cells
        /\ \A s \in 1..Turns : w[2 * s] # w[s]
    BY <1>4
  <2>2. Cardinality(Cells) \in 0..(2 * Turns - 1)
        /\ \A s \in 1..Cardinality(Cells) : s \in 1..Turns
    BY <1>t
  <2>3. w[Cardinality(Cells)] \in Cells
    BY <2>1, <2>2
  <2> HIDE DEF T
  <2>4. PICK s \in 1..Cardinality(Cells) : w[2 * s] = w[s]
    BY <2>3, WalkMeets
  <2> QED
    BY <2>1, <2>2, <2>4
<1> QED
  BY <1>1, <1>4, <1>5

LEMMA LengthFacts ==
  ASSUME NEW m \in Mems, NEW v \in Values
  PROVE  /\ list_length(m, v) \in Int
         /\ list_length(m, v) >= 0 <=> ProperList(m, v)
         /\ ProperList(m, v) => list_length(m, v) = Length(m, v)
         /\ Length(m, v) \in 0..Cardinality(Cells)
<1> DEFINE n == 2 * Turns
           r == list_length(m, v)
<1>t. n \in Nat /\ 2 * Turns <= n /\ Cardinality(Cells) \in Nat /\ Cardinality(Cells) \in 0..n
  BY TurnsFacts
<1> HIDE DEF n
<1>1. PICK w : Walk(m, v, n, w)
  BY <1>t, WalkExists
<1>2. /\ Answer(n, w, r)
      /\ Circular(m, v) <=> w[Cardinality(Cells)] \in Cells
      /\ \A l : First(n, w, l) => /\ ~Circular(m, v) /\ End(m, v) = w[l] /\ Length(m, v) = l
                                  /\ l \in 0..Cardinality(Cells)
  <2>1. Along(m, v, n, w)
    BY <1>1, <1>t, CdrsFacts
  <2>2. Answer(n, w, r)
    BY <1>1, <1>t, LengthAnswers
  <2> QED
    BY <2>1, <2>2 DEF Along
<1>3. CASE \E l \in 0..n : First(n, w, l) /\ r = IF w[l] = Nil THEN l ELSE -2 - l
  BY <1>2, <1>3, <1>t DEF ProperList
<1>4. CASE r = -1 /\ \A k \in 0..n : w[k] \in Cells
  <2>1. Circular(m, v) /\ Length(m, v) = 0
    BY <1>2, <1>4, <1>t DEF Length
  <2> QED
    BY <1>4, <1>t, <2>1 DEF ProperList
<1> QED
  BY <1>2, <1>3, <1>4 DEF Answer
(* A proper list, walked along: its pairs, one after the other. *)
LEMMA ProperWalk ==
  ASSUME NEW m \in Mems, NEW v \in Values, ProperList(m, v)
  PROVE  \E N \in Nat : \E w :
           /\ Walk(m, v, N, w) /\ Turns <= N
           /\ \A j \in 0..(Length(m, v) - 1) : w[j] \in Cells
           /\ \A j \in 1..Length(m, v) : Items(m, v)[j] = m.car[w[j - 1]]
<1> DEFINE N == 2 * Turns
           C == Cardinality(Cells)
<1>t. N \in Nat /\ 2 * Turns <= N /\ C \in Nat /\ C \in 0..N /\ Turns \in Nat /\ Turns <= N
  BY TurnsFacts
<1> HIDE DEF N
<1>1. PICK w : Walk(m, v, N, w)
  BY <1>t, WalkExists
<1>2. /\ \A k \in 0..C : Cdrs(m, v)[k] = w[k]
      /\ Circular(m, v) <=> w[C] \in Cells
      /\ \A l : First(N, w, l) => /\ ~Circular(m, v) /\ End(m, v) = w[l] /\ Length(m, v) = l
                                  /\ l \in 0..C
  <2>1. Along(m, v, N, w)
    BY <1>1, <1>t, CdrsFacts
  <2> QED
    BY <2>1 DEF Along
<1>3. w[C] \notin Cells
  BY <1>2 DEF ProperList
<1>4. PICK l \in 0..C : First(N, w, l)
  BY <1>3, <1>t, FirstExists
<1>5. Length(m, v) = l /\ \A j \in 0..(l - 1) : w[j] \in Cells
  BY <1>2, <1>4 DEF First
<1>6. \A j \in 1..l : Items(m, v)[j] = m.car[w[j - 1]]
  <2> SUFFICES ASSUME NEW j \in 1..l PROVE Items(m, v)[j] = m.car[w[j - 1]]
    OBVIOUS
  <2>1. j - 1 \in 0..C
    BY <1>t
  <2>2. Cdrs(m, v)[j - 1] = w[j - 1]
    BY <1>2, <2>1
  <2> QED
    BY <1>5, <2>2 DEF Items
<1> QED
  BY <1>1, <1>5, <1>6, <1>t

----------------------------------------------------------------------------
(* The tests of the arguments. *)
Kinds == {"any", "pair", "list", "number"}
TestStates == [tests : Seq(Kinds), as : Values, i : Int, over : BOOLEAN]
TestFor(ts, k) == ts[IF k <= Len(ts) THEN k ELSE Len(ts)]

(* A turn of the loop that tests the arguments. *)
LEMMA TestTurnFacts ==
  ASSUME NEW m \in Mems, NEW n \in Int, NEW s \in TestStates, s.tests # <<>>
  PROVE  LET t == TestTurn(m, n, s)
             ok == Satisfies(Head(s.tests), car(m, s.as))
         IN  /\ t \in TestStates /\ t.tests # <<>>
             /\ s.over => t = s
             /\ ~s.over /\ ~ok => t.over /\ t.i = s.i
             /\ ~s.over /\ ok /\ ~(s.i + 1 < n) => t.over /\ t.i = s.i + 1
             /\ ~s.over /\ ok /\ s.i + 1 < n =>
                  /\ ~t.over /\ t.i = s.i + 1 /\ t.as = cdr(m, s.as)
                  /\ t.tests = IF Len(s.tests) > 1 THEN Tail(s.tests) ELSE s.tests
<1> DEFINE ok == Satisfies(Head(s.tests), car(m, s.as))
           ts == IF Len(s.tests) > 1 THEN Tail(s.tests) ELSE s.tests
           d == cdr(m, s.as)
           j == s.i + 1
           u == [tests |-> ts, as |-> d, i |-> j, over |-> FALSE]
<1>1. s.i \in Int /\ s.over \in BOOLEAN /\ s.as \in Values /\ s.tests \in Seq(Kinds)
  BY DEF TestStates
<1>2. ts \in Seq(Kinds) /\ ts # <<>>
  <2>1. Len(s.tests) > 1 => Tail(s.tests) \in Seq(Kinds) /\ Len(Tail(s.tests)) = Len(s.tests) - 1
    BY <1>1, HeadTailProperties
  <2>2. CASE Len(s.tests) > 1
    <3>1. Len(Tail(s.tests)) > 0 /\ Tail(s.tests) \in Seq(Kinds)
      BY <1>1, <2>1, <2>2
    <3>2. Tail(s.tests) # <<>>
      <4> DEFINE q == Tail(s.tests)
      <4>1. Len(q) > 0 /\ Len(<<>>) = 0
        BY <3>1
      <4> HIDE DEF q
      <4>2. q = <<>> => Len(q) = Len(<<>>)
        OBVIOUS
      <4>3. q # <<>>
        BY <4>1, <4>2
      <4> QED
        BY <4>3 DEF q
    <3>3. ts = Tail(s.tests)
      BY <2>2
    <3> HIDE DEF ts
    <3> QED
      BY <3>1, <3>2, <3>3
  <2>3. CASE ~(Len(s.tests) > 1)
    <3>1. ts = s.tests
      BY <2>3
    <3> HIDE DEF ts
    <3> QED
      BY <1>1, <3>1
  <2> QED
    BY <2>2, <2>3
<1>3. d \in Values /\ j \in Int
  BY <1>1, MemFacts DEF cdr, Values
<1>4. TestTurn(m, n, s) = IF s.over THEN s ELSE IF ~ok THEN Over(s, s.i)
                          ELSE IF s.i + 1 < n THEN u ELSE Over(s, s.i + 1)
  BY DEF TestTurn
<1> HIDE DEF ok, ts, d, j
<1>5. u \in TestStates /\ u.tests = ts /\ u.as = d /\ u.i = j /\ u.over = FALSE
  BY <1>2, <1>3 DEF TestStates
<1>6. \A x \in Int : /\ Over(s, x) \in TestStates /\ Over(s, x).i = x
                     /\ Over(s, x).over = TRUE /\ Over(s, x).tests = s.tests
  BY DEF Over, TestStates
<1> HIDE DEF u
<1>7. s.i + 1 \in Int
  BY <1>1
<1>8. CASE s.over
  BY <1>4, <1>8
<1>9. CASE ~s.over /\ ~ok
  BY <1>1, <1>4, <1>6, <1>9 DEF ok
<1>10. CASE ~s.over /\ ok /\ ~(s.i + 1 < n)
  <2>1. TestTurn(m, n, s) = Over(s, s.i + 1)
    BY <1>4, <1>10
  <2> QED
    BY <1>6, <1>7, <1>10, <2>1 DEF ok
<1>11. CASE ~s.over /\ ok /\ s.i + 1 < n
  <2>1. TestTurn(m, n, s) = u
    BY <1>4, <1>11
  <2> QED
    BY <1>2, <1>5, <1>11, <2>1 DEF ok, ts, d, j
<1> QED
  BY <1>8, <1>9, <1>10, <1>11 DEF ok

LEMMA TestLoop ==
  ASSUME NEW m \in Mems, NEW v \in Values, NEW n \in Int, NEW ts \in Seq(Kinds), ts # <<>>
  PROVE  \E at \in [0..Turns -> {s \in TestStates : s.tests # <<>>}] :
           /\ at[0] = [tests |-> ts, as |-> v, i |-> 0, over |-> FALSE]
           /\ Passed(m, ts, v, n) = at[Turns].i
           /\ \A k \in 1..Turns : at[k] = TestTurn(m, n, at[k - 1])
<1> DEFINE S == {s \in TestStates : s.tests # <<>>}
           a == [tests |-> ts, as |-> v, i |-> 0, over |-> FALSE]
           at == CHOOSE at : at = [k \in 0..Turns |-> IF k = 0 THEN a ELSE TestTurn(m, n, at[k - 1])]
           f == [s \in S |-> TestTurn(m, n, s)]
<1>0. a \in S
  BY DEF TestStates
<1>5. Passed(m, ts, v, n) = at[Turns].i
  BY DEF Passed, Loop
<1> HIDE DEF a
<1>e. \A s \in S : TestTurn(m, n, s) \in S
  BY TestTurnFacts
<1> HIDE DEF S
<1>1. f \in [S -> S]
  BY <1>e
<1>2. PICK h \in [0..Turns -> S] : Looped(Turns, a, f, h)
  <2> HIDE DEF f
  <2> QED
    BY <1>0, <1>1, LoopedStep, TurnsFacts
<1>3. h = [k \in 0..Turns |-> IF k = 0 THEN a ELSE TestTurn(m, n, h[k - 1])]
  <2>1. \A k \in 0..Turns : k # 0 => k - 1 \in 0..Turns
    BY TurnsFacts
  <2>2. \A k \in 0..Turns : k # 0 => f[h[k - 1]] = TestTurn(m, n, h[k - 1])
    BY <2>1
  <2> HIDE DEF f
  <2> QED
    BY <1>2, <2>2 DEF Looped
<1>4. at = [k \in 0..Turns |-> IF k = 0 THEN a ELSE TestTurn(m, n, at[k - 1])]
  BY <1>3
<1> HIDE DEF at
<1>t. 0 \in 0..Turns /\ Turns \in Nat /\ \A k \in 1..Turns : k \in 0..Turns /\ k # 0
  BY TurnsFacts
<1>6. at[0] = a /\ \A k \in 1..Turns : at[k] = TestTurn(m, n, at[k - 1])
  <2>1. \A k \in 0..Turns : at[k] = IF k = 0 THEN a ELSE TestTurn(m, n, at[k - 1])
    BY <1>4
  <2> QED
    BY <2>1, <1>t
<1>7. \A k \in 0..Turns : at[k] \in S
  <2>1. \A k \in 1..Turns : at[k - 1] \in S => at[k] \in S
    BY <1>6, <1>e
  <2> QED
    BY <1>0, <1>6, <1>t, <2>1, StaysIn
<1>8. at \in [0..Turns -> S]
  BY <1>4, <1>7
<1> QED
  BY <1>5, <1>6, <1>8 DEF a, S
(* How many tests are left, of l, for the arguments from the k-th on. *)
TestsLeft(l, k) == IF k < l THEN l - k ELSE 1

LEMMA TestsLeftFacts ==
  ASSUME NEW l \in Nat, l >= 1, NEW k \in Nat
  PROVE  /\ TestsLeft(l, k) \in Nat /\ TestsLeft(l, k) >= 1
         /\ TestsLeft(l, 0) = l
         /\ (l - TestsLeft(l, k)) + 1 = IF k + 1 <= l THEN k + 1 ELSE l
         /\ k + 1 < l => TestsLeft(l, k + 1) = TestsLeft(l, k) - 1 /\ TestsLeft(l, k) > 1
         /\ ~(k + 1 < l) => TestsLeft(l, k) = 1 /\ TestsLeft(l, k + 1) = 1
<1>1. CASE k < l
  BY <1>1 DEF TestsLeft
<1>2. CASE ~(k < l)
  BY <1>2 DEF TestsLeft
<1> QED
  BY <1>1, <1>2

(* The arguments of a proper list all pass if and only if each of them     *)
(* passes its test, also when there is none.                               *)
LEMMA PassedFacts ==
  ASSUME NEW m \in Mems, NEW v \in Values, ProperList(m, v), NEW ts \in Seq(Kinds), ts # <<>>
  PROVE  Passed(m, ts, v, Length(m, v)) >= Length(m, v)
           <=> \A j \in 1..Length(m, v) : Satisfies(TestFor(ts, j), Items(m, v)[j])
<1> DEFINE n == Length(m, v)
           Ok(j) == Satisfies(TestFor(ts, j), Items(m, v)[j])
<1>n. n \in 0..Cardinality(Cells)
  BY LengthFacts
<1>N. PICK N \in Nat : \E w :
           /\ Walk(m, v, N, w) /\ Turns <= N
           /\ \A j \in 0..(n - 1) : w[j] \in Cells
           /\ \A j \in 1..n : Items(m, v)[j] = m.car[w[j - 1]]
  BY ProperWalk
<1>w. PICK w : /\ Walk(m, v, N, w) /\ Turns <= N
               /\ \A j \in 0..(n - 1) : w[j] \in Cells
               /\ \A j \in 1..n : Items(m, v)[j] = m.car[w[j - 1]]
  BY <1>N
<1> HIDE DEF n
<1>t. Turns \in Nat /\ Turns >= 1 /\ Turns \in 0..Turns /\ 0 \in 0..Turns /\ n \in Nat /\ n < Turns /\ n \in Int
  BY TurnsFacts, <1>n
<1>1. PICK at \in [0..Turns -> {s \in TestStates : s.tests # <<>>}] :
           /\ at[0] = [tests |-> ts, as |-> v, i |-> 0, over |-> FALSE]
           /\ Passed(m, ts, v, n) = at[Turns].i
           /\ \A k \in 1..Turns : at[k] = TestTurn(m, n, at[k - 1])
  BY <1>t, TestLoop
<1>l. Len(ts) \in Nat /\ Len(ts) >= 1
  OBVIOUS
<1> DEFINE Left(k) == TestsLeft(Len(ts), k)
           Here(k) == /\ at[k].as = w[k] /\ at[k].i = k /\ (k = 0 \/ k < n)
                      /\ Len(at[k].tests) = Left(k)
                      /\ \A j \in 1..Left(k) : at[k].tests[j] = ts[(Len(ts) - Left(k)) + j]
                      /\ \A j \in 1..k : Ok(j)
           Done(k) == at[k].i >= n <=> \A j \in 1..n : Ok(j)
           T == {k \in 0..Turns : IF at[k].over THEN Done(k) ELSE Here(k)}
<1> HIDE DEF Ok
<1>2. 0 \in T
  <2>1. at[0].as = v /\ at[0].i = 0 /\ at[0].tests = ts /\ at[0].over = FALSE
    BY <1>1
  <2>2. w[0] = v
    BY <1>w DEF Walk
  <2>3. Left(0) = Len(ts) /\ \A j \in 1..Len(ts) : (Len(ts) - Len(ts)) + j = j
    BY <1>l, <1>t, TestsLeftFacts
  <2> HIDE DEF Left
  <2>4. \A j \in 1..0 : Ok(j)
    OBVIOUS
  <2> QED
    BY <1>t, <2>1, <2>2, <2>3, <2>4
<1>3. ASSUME NEW k \in 0..Turns, k \in T /\ k < Turns PROVE k + 1 \in T
  <2> DEFINE s == at[k]
             t == at[k + 1]
             ok == Satisfies(Head(s.tests), car(m, s.as))
  <2>i. k \in Nat /\ k < Turns /\ k + 1 \in 0..Turns /\ k + 1 \in 1..Turns /\ (k + 1) - 1 = k
    BY <1>t, <1>3
  <2>s. s \in TestStates /\ s.tests # <<>>
    BY <2>i
  <2>t. /\ s.over => t = s
        /\ ~s.over /\ ~ok => t.over /\ t.i = s.i
        /\ ~s.over /\ ok /\ ~(s.i + 1 < n) => t.over /\ t.i = s.i + 1
        /\ ~s.over /\ ok /\ s.i + 1 < n =>
             /\ ~t.over /\ t.i = s.i + 1 /\ t.as = cdr(m, s.as)
             /\ t.tests = IF Len(s.tests) > 1 THEN Tail(s.tests) ELSE s.tests
    <3>1. t = TestTurn(m, n, s)
      <4>1. at[k + 1] = TestTurn(m, n, at[(k + 1) - 1])
        BY <1>1, <2>i
      <4> QED
        BY <2>i, <4>1
    <3> HIDE DEF s, t
    <3> QED
      BY <1>t, <2>s, <3>1, TestTurnFacts
  <2>u. IF s.over THEN Done(k) ELSE Here(k)
    BY <1>3
  <2>v. (IF t.over THEN Done(k + 1) ELSE Here(k + 1)) => k + 1 \in T
    BY <2>i
  <2>1. CASE s.over
    <3>1. t = s /\ t.over /\ Done(k)
      BY <2>1, <2>t, <2>u
    <3>2. Done(k + 1)
      BY <3>1
    <3> HIDE DEF T, Done, t
    <3> QED
      BY <2>v, <3>1, <3>2
  <2>2. CASE ~s.over
    <3>1. Here(k)
      BY <2>2, <2>u
    <3>2. Head(s.tests) = TestFor(ts, k + 1)
      <4>1. Left(k) \in Nat /\ Left(k) >= 1 /\ (Len(ts) - Left(k)) + 1 = IF k + 1 <= Len(ts) THEN k + 1 ELSE Len(ts)
        BY <1>l, <2>i, TestsLeftFacts
      <4>2. Head(s.tests) = s.tests[1]
        BY <2>s DEF TestStates
      <4> HIDE DEF Left
      <4>3. 1 \in 1..Left(k)
        BY <4>1
      <4>4. s.tests[1] = ts[(Len(ts) - Left(k)) + 1]
        BY <3>1, <4>3
      <4> QED
        BY <4>1, <4>2, <4>4 DEF TestFor
    <3>3. k < n => (ok <=> Ok(k + 1))
      <4> SUFFICES ASSUME k < n PROVE ok <=> Ok(k + 1)
        OBVIOUS
      <4>1. k \in 0..(n - 1) /\ k + 1 \in 1..n
        BY <1>t, <2>i
      <4>2. w[k] \in Cells /\ Items(m, v)[k + 1] = m.car[w[k]]
        BY <1>w, <2>i, <4>1
      <4>3. car(m, s.as) = m.car[w[k]]
        BY <3>1, <4>2 DEF car
      <4> QED
        BY <3>2, <4>2, <4>3 DEF Ok
    <3>a. s.i = k /\ (k = 0 \/ k < n) /\ \A j \in 1..k : Ok(j)
      BY <3>1
    <3>n. \A j \in 1..(k + 1) : j \in 1..k \/ j = k + 1
      BY <2>i
    <3>4. CASE ~ok
      <4>1. t.over /\ t.i = k
        BY <2>2, <2>t, <3>1, <3>4
      <4>2. Done(k + 1)
        <5>1. CASE n = 0
          <6>1. \A j \in 1..n : Ok(j)
            BY <5>1
          <6>2. k >= n
            BY <2>i, <5>1
          <6> QED
            BY <4>1, <6>1, <6>2
        <5>2. CASE n # 0
          <6>1. k < n /\ k + 1 \in 1..n /\ ~(k >= n)
            BY <1>t, <2>i, <3>a, <5>2
          <6>2. ~Ok(k + 1)
            BY <3>3, <3>4, <6>1
          <6> QED
            BY <4>1, <6>1, <6>2
        <5> QED
          BY <5>1, <5>2
      <4> HIDE DEF T, Done, t
      <4> QED
        BY <2>v, <4>1, <4>2
    <3>5. CASE ok /\ ~(k + 1 < n)
      <4>1. t.over /\ t.i = k + 1
        BY <2>2, <2>t, <3>a, <3>5
      <4>2. k + 1 >= n
        BY <1>t, <2>i, <3>5
      <4>3. \A j \in 1..n : Ok(j)
        <5>1. CASE n = 0
          BY <5>1
        <5>2. CASE n # 0
          <6>1. k < n /\ n = k + 1
            BY <1>t, <2>i, <3>a, <3>5, <5>2
          <6> QED
            BY <3>3, <3>5, <3>a, <3>n, <6>1
        <5> QED
          BY <5>1, <5>2
      <4>4. Done(k + 1)
        BY <4>1, <4>2, <4>3
      <4> HIDE DEF T, Done, t
      <4> QED
        BY <2>v, <4>1, <4>4
    <3>6. CASE ok /\ k + 1 < n
      <4>1. /\ ~t.over /\ t.i = k + 1 /\ t.as = cdr(m, s.as)
            /\ t.tests = IF Len(s.tests) > 1 THEN Tail(s.tests) ELSE s.tests
        BY <2>2, <2>t, <3>a, <3>6
      <4>2. cdr(m, s.as) = w[k + 1]
        <5>1. k \in 0..(n - 1) /\ k + 1 \in 1..N
          BY <1>t, <1>w, <2>i, <3>6
        <5>2. w[k] \in Cells /\ w[k + 1] = Onward(m, w[k])
          BY <1>w, <2>i, <5>1 DEF Walk
        <5>3. s.as = w[k] /\ w[k] \in Values
          BY <3>1, <5>2 DEF Values
        <5> QED
          BY <5>2, <5>3, OnwardFacts
      <4>3. /\ Len(t.tests) = Left(k + 1)
            /\ \A j \in 1..Left(k + 1) : t.tests[j] = ts[(Len(ts) - Left(k + 1)) + j]
        <5>0. /\ s.tests \in Seq(Kinds) /\ Len(s.tests) = Left(k) /\ k \in Nat
              /\ \A j \in 1..Left(k) : s.tests[j] = ts[(Len(ts) - Left(k)) + j]
          BY <2>i, <2>s, <3>1 DEF TestStates
        <5> HIDE DEF s, t
        <5>1. CASE k + 1 < Len(ts)
          <6>1. Left(k + 1) = Left(k) - 1 /\ Left(k) > 1
            BY <1>l, <5>0, <5>1, TestsLeftFacts
          <6>2. Left(k) \in Nat
            BY <5>0
          <6> HIDE DEF Left
          <6>3. t.tests = Tail(s.tests)
            BY <4>1, <5>0, <6>1
          <6>4. Len(t.tests) = Left(k + 1) /\ \A j \in 1..Len(t.tests) : t.tests[j] = s.tests[j + 1]
            BY <2>s, <5>0, <6>1, <6>3, HeadTailProperties
          <6>5. \A j \in 1..Left(k + 1) : /\ j + 1 \in 1..Left(k)
                                          /\ (Len(ts) - Left(k)) + (j + 1) = (Len(ts) - Left(k + 1)) + j
            <7> DEFINE l == Len(ts)
                       r == Left(k)
                       q == Left(k + 1)
            <7>1. l \in Nat /\ r \in Nat /\ q = r - 1
              BY <1>l, <6>1, <6>2
            <7> HIDE DEF l, r, q
            <7>2. \A j \in 1..q : j + 1 \in 1..r /\ (l - r) + (j + 1) = (l - q) + j
              BY <7>1
            <7> QED
              BY <7>2 DEF l, r, q
          <6> QED
            BY <5>0, <6>4, <6>5
        <5>2. CASE ~(k + 1 < Len(ts))
          <6>1. Left(k) = 1 /\ Left(k + 1) = 1
            BY <1>l, <5>0, <5>2, TestsLeftFacts
          <6> HIDE DEF Left
          <6>2. t.tests = s.tests
            BY <4>1, <5>0, <6>1
          <6> QED
            BY <5>0, <6>1, <6>2
        <5> QED
          BY <5>1, <5>2
      <4>4. \A j \in 1..(k + 1) : Ok(j)
        <5>1. k < n
          BY <1>t, <2>i, <3>6
        <5> QED
          BY <3>3, <3>6, <3>a, <3>n, <5>1
      <4>5. Here(k + 1)
        <5> HIDE DEF Left, s
        <5> QED
          BY <3>6, <4>1, <4>2, <4>3, <4>4
      <4> HIDE DEF T, Here, Done, t
      <4> QED
        BY <2>v, <4>1, <4>5
    <3> QED
      BY <3>4, <3>5, <3>6
  <2> QED
    BY <2>1, <2>2
<1>4. Turns \in T
  <2>1. \A k \in 0..Turns : k \in T
    <3> HIDE DEF T
    <3>1. 0 \in Nat
      OBVIOUS
    <3> QED
      BY <1>2, <1>3, <1>t, <3>1, Upwards
  <2> QED
    BY <1>t, <2>1
<1>5. at[Turns].over
  <2> SUFFICES ASSUME ~at[Turns].over PROVE FALSE
    OBVIOUS
  <2>1. Turns = 0 \/ Turns < n
    <3> HIDE DEF Left
    <3> QED
      BY <1>4
  <2> QED
    BY <1>t, <2>1
<1>6. Done(Turns)
  <2> HIDE DEF Here, Done
  <2> QED
    BY <1>4, <1>5
<1> QED
  BY <1>1, <1>6 DEF Ok, n
LEMMA RowFacts ==
  ASSUME NEW f \in Procedures \ {"list"}
  PROVE  /\ dispatch_table[f].min \in Nat /\ dispatch_table[f].max \in Nat
         /\ dispatch_table[f].tests \in Seq(Kinds)
<1> DEFINE tests == {<<>>, <<"pair">>, <<"pair", "any">>, <<"list">>, <<"any">>, <<"number">>}
           rows == [min : Nat, max : Nat, tests : tests]
<1>1. tests \subseteq Seq(Kinds)
  <2>1. \A a \in Kinds, b \in Kinds : <<a>> \in Seq(Kinds) /\ <<a, b>> \in Seq(Kinds)
    OBVIOUS
  <2>2. <<>> \in Seq(Kinds)
    OBVIOUS
  <2>3. "pair" \in Kinds /\ "any" \in Kinds /\ "list" \in Kinds /\ "number" \in Kinds
    BY DEF Kinds
  <2> QED
    BY <2>1, <2>2, <2>3
<1>2. Many \in Nat
  BY DEF Many
<1> HIDE DEF tests
<1>3. \A lo \in Nat, hi \in Nat, ts \in tests : Row(lo, hi, ts) \in rows
  BY DEF Row
<1>4. {<<>>, <<"pair">>, <<"pair", "any">>, <<"list">>, <<"any">>, <<"number">>} \subseteq tests
  BY DEF tests
<1> HIDE DEF rows
<1>5. dispatch_table[f] = CASE f = "cons" -> Row(2, 2, <<>>)
      [] f = "cdr" -> Row(1, 1, <<"pair">>)
      [] f = "set-cdr!" -> Row(2, 2, <<"pair", "any">>)
      [] f \in {"reverse", "length"} -> Row(1, 1, <<"list">>)
      [] f = "list?" -> Row(1, 1, <<"any">>)
      [] f \in {"list*", "apply"} -> Row(1, Many, <<>>)
      [] f = "append" -> Row(0, Many, <<>>)
      [] f = "+" -> Row(0, Many, <<"number">>)
  BY DEF dispatch_table
<1>6. dispatch_table[f] \in rows
  <2>0. 0 \in Nat /\ 1 \in Nat /\ 2 \in Nat
    OBVIOUS
  <2>1. CASE f = "cons"
    BY <1>2, <1>3, <1>4, <1>5, <2>0, <2>1
  <2>2. CASE f = "cdr"
    BY <1>2, <1>3, <1>4, <1>5, <2>0, <2>2
  <2>3. CASE f = "set-cdr!"
    BY <1>2, <1>3, <1>4, <1>5, <2>0, <2>3
  <2>4. CASE f \in {"reverse", "length"}
    BY <1>2, <1>3, <1>4, <1>5, <2>0, <2>4
  <2>5. CASE f = "list?"
    BY <1>2, <1>3, <1>4, <1>5, <2>0, <2>5
  <2>6. CASE f \in {"list*", "apply"}
    BY <1>2, <1>3, <1>4, <1>5, <2>0, <2>6
  <2>7. CASE f = "append"
    BY <1>2, <1>3, <1>4, <1>5, <2>0, <2>7
  <2>8. CASE f = "+"
    BY <1>2, <1>3, <1>4, <1>5, <2>0, <2>8
  <2> QED
    BY <2>1, <2>2, <2>3, <2>4, <2>5, <2>6, <2>7, <2>8 DEF Procedures
<1> QED
  BY <1>1, <1>6 DEF rows

(* The loop that checks the arguments of an opcode checks what it should.  *)
LEMMA CheckFacts ==
  ASSUME NEW m \in Mems, NEW as \in Values, NEW f \in Procedures \ {"list"}
  PROVE  ArgumentsOK(m, f, as) <=> Suitable(f, m, as)
<1> DEFINE n == list_length(m, as)
           lo == dispatch_table[f].min
           hi == dispatch_table[f].max
           ts == dispatch_table[f].tests
           l == Length(m, as)
           s == Items(m, as)
           each == \A k \in 1..l : Satisfies(TestFor(ts, k), s[k])
<1>1. /\ n \in Int
      /\ n >= 0 <=> ProperList(m, as)
      /\ ProperList(m, as) => n = l
      /\ l \in 0..Cardinality(Cells)
  BY LengthFacts
<1>2. lo \in Nat /\ hi \in Nat /\ ts \in Seq(Kinds)
  BY RowFacts
<1>3. ArgumentsOK(m, f, as) <=> /\ n >= lo /\ n <= hi
                                /\ ts = <<>> \/ Passed(m, ts, as, n) >= n
  BY DEF ArgumentsOK
<1>4. l \in Nat /\ DOMAIN s = 1..l /\ Len(s) = l
  <2> HIDE DEF l
  <2>0. Cardinality(Cells) \in Nat /\ l \in 0..Cardinality(Cells)
    BY <1>1, TurnsFacts
  <2>1. l \in Nat
    BY <2>0
  <2>2. s = [k \in 1..l |-> m.car[Cdrs(m, as)[k - 1]]]
    BY DEF Items, l
  <2> QED
    BY <2>1, <2>2
<1>5. Suitable(f, m, as) <=> /\ ProperList(m, as) /\ Len(s) \in lo..hi
                             /\ ts # <<>> => each
  BY <1>4 DEF Suitable, TestFor
<1>6. ProperList(m, as) /\ ts # <<>> => (Passed(m, ts, as, l) >= l <=> each)
  BY <1>2, PassedFacts
<1> HIDE DEF n, lo, hi, ts, l, s, each
<1>7. CASE ~ProperList(m, as)
  <2>1. n \in Int /\ lo \in Nat /\ ~(n >= 0)
    BY <1>1, <1>2, <1>7
  <2>2. ~(n >= lo)
    BY <2>1
  <2> QED
    BY <1>3, <1>5, <1>7, <2>2
<1>8. CASE ProperList(m, as)
  <2>1. n = l
    BY <1>1, <1>8
  <2>2. (n >= lo /\ n <= hi) <=> Len(s) \in lo..hi
    BY <1>2, <1>4, <2>1
  <2> QED
    BY <1>3, <1>5, <1>6, <1>8, <2>1, <2>2
<1> QED
  BY <1>7, <1>8

(* No opcode is entered with arguments it was not declared for, and none   *)
(* that was given such arguments is kept from running: the argument check  *)
(* of Eval_Cycle, with the two pointers of list_length and the tests that  *)
(* are repeated, against what the table says.                              *)
THEOREM ArgumentsAreChecked == PrimitivesSpec => EntersChecked
<1>1. RegistersInv /\ [PrimitivesNext]_primitivesVars => RegistersInv'
  BY RegistersStep
<1>2. RegistersInv /\ [PrimitivesNext]_primitivesVars
        => [stage = "check" => ((stage' = "run") <=> Suitable(op, mem, args))]_primitivesVars
  <2> SUFFICES ASSUME RegistersInv, PrimitivesNext, stage = "check"
               PROVE  (stage' = "run") <=> Suitable(op, mem, args)
    OBVIOUS
  <2>1. ArgumentsOK(mem, op, args) <=> Suitable(op, mem, args)
    <3>1. mem \in Mems /\ args \in Values /\ op \in Procedures \ {"list"}
      BY MemFacts DEF RegistersInv, MemoryInv, ArgumentsInv
    <3> QED
      BY <3>1, CheckFacts
  <2>2. Check
    BY DEF PrimitivesNext, Calls, Call, Apply, RunOpcode, PApply, Drop, Store
  <2>3. (stage' = "run") <=> ArgumentsOK(mem, op, args)
    BY <2>2 DEF Check, Fails
  <2> QED
    BY <2>1, <2>3
<1> QED
  BY RegistersInit, <1>1, <1>2, PTL DEF PrimitivesSpec, EntersChecked

----------------------------------------------------------------------------
(* Sequences backwards.                                                    *)

LEMMA BackwardsFacts ==
  ASSUME NEW s \in Seq(Values)
  PROVE  /\ Backwards(s) \in Seq(Values) /\ Len(Backwards(s)) = Len(s)
         /\ \A k \in 1..Len(s) : Backwards(s)[k] = s[Len(s) + 1 - k]
         /\ Backwards(Backwards(s)) = s
<1>1. /\ Len(s) \in Nat /\ DOMAIN s = 1..Len(s)
      /\ \A k \in 1..Len(s) : s[k] \in Values /\ Len(s) + 1 - k \in 1..Len(s)
  BY LenProperties, ElementOfSeq
<1>2. ASSUME NEW t \in Seq(Values)
      PROVE  /\ Backwards(t) \in Seq(Values) /\ Len(Backwards(t)) = Len(t)
             /\ \A k \in 1..Len(t) : Backwards(t)[k] = t[Len(t) + 1 - k]
  <2>1. /\ Len(t) \in Nat /\ DOMAIN t = 1..Len(t)
        /\ \A k \in 1..Len(t) : Len(t) + 1 - k \in 1..Len(t)
    BY LenProperties
  <2>2. \A k \in 1..Len(t) : t[Len(t) + 1 - k] \in Values
    BY <2>1, ElementOfSeq
  <2>3. Backwards(t) = [k \in 1..Len(t) |-> t[Len(t) + 1 - k]]
    BY <2>1 DEF Backwards
  <2> DEFINE n == Len(t)
  <2>4. Backwards(t) \in [1..n -> Values]
    BY <2>2, <2>3
  <2>5. Backwards(t) \in Seq(Values) /\ Len(Backwards(t)) = n
    <3> HIDE DEF n
    <3>1. n \in Nat
      BY <2>1 DEF n
    <3> QED
      BY <2>4, <3>1
  <2> QED
    BY <2>3, <2>5
<1> DEFINE b == Backwards(s)
<1>3. b \in Seq(Values) /\ Len(b) = Len(s) /\ \A k \in 1..Len(s) : b[k] = s[Len(s) + 1 - k]
  BY <1>2
<1> HIDE DEF b
<1>4. /\ Backwards(b) \in Seq(Values) /\ Len(Backwards(b)) = Len(s)
      /\ \A k \in 1..Len(s) : Backwards(b)[k] = b[Len(s) + 1 - k]
  BY <1>2, <1>3
<1>5. \A k \in 1..Len(s) : Backwards(b)[k] = s[k]
  <2> SUFFICES ASSUME NEW k \in 1..Len(s) PROVE Backwards(b)[k] = s[k]
    OBVIOUS
  <2>1. Len(s) + 1 - k \in 1..Len(s) /\ Len(s) + 1 - (Len(s) + 1 - k) = k
    BY <1>1
  <2> QED
    BY <1>3, <1>4, <2>1
<1>6. Backwards(b) = s
  BY <1>4, <1>5, SeqEqual
<1> QED
  BY <1>3, <1>6 DEF b

LEMMA BackwardsConcat ==
  ASSUME NEW s \in Seq(Values), NEW t \in Seq(Values)
  PROVE  Backwards(s \o t) = Backwards(t) \o Backwards(s)
<1> DEFINE a == s \o t
           b == Backwards(a)
           u == Backwards(t)
           v == Backwards(s)
           c == u \o v
           i == Len(s)
           j == Len(t)
<1>1. i \in Nat /\ j \in Nat
  BY LenProperties
<1>2. /\ a \in Seq(Values) /\ Len(a) = i + j
      /\ \A k \in 1..(i + j) : a[k] = IF k <= i THEN s[k] ELSE t[k - i]
  BY ConcatProperties
<1>3. /\ u \in Seq(Values) /\ Len(u) = j /\ \A k \in 1..j : u[k] = t[j + 1 - k]
      /\ v \in Seq(Values) /\ Len(v) = i /\ \A k \in 1..i : v[k] = s[i + 1 - k]
  BY BackwardsFacts
<1> HIDE DEF a, u, v, i, j
<1>4. b \in Seq(Values) /\ Len(b) = i + j /\ \A k \in 1..(i + j) : b[k] = a[i + j + 1 - k]
  BY <1>2, BackwardsFacts
<1>5. /\ c \in Seq(Values) /\ Len(c) = j + i
      /\ \A k \in 1..(j + i) : c[k] = IF k <= j THEN u[k] ELSE v[k - j]
  <2>0. u \in Seq(Values) /\ v \in Seq(Values)
    BY <1>3
  <2>1. /\ c \in Seq(Values) /\ Len(c) = Len(u) + Len(v)
        /\ \A k \in 1..(Len(u) + Len(v)) : c[k] = IF k <= Len(u) THEN u[k] ELSE v[k - Len(u)]
    BY ONLY <2>0, ConcatProperties
  <2>2. Len(u) = j /\ Len(v) = i
    BY <1>3
  <2> HIDE DEF c
  <2> QED
    BY <2>1, <2>2
<1> HIDE DEF b, c
<1>6. \A k \in 1..(i + j) : b[k] = c[k]
  <2> SUFFICES ASSUME NEW k \in 1..(i + j) PROVE b[k] = c[k]
    OBVIOUS
  <2>1. i + j + 1 - k \in 1..(i + j)
    BY <1>1
  <2>2. CASE k <= j
    <3>1. k \in 1..j /\ ~(i + j + 1 - k <= i) /\ (i + j + 1 - k) - i = j + 1 - k
      BY <1>1, <2>2
    <3>2. b[k] = t[(i + j + 1 - k) - i]
      BY <1>2, <1>4, <2>1, <3>1
    <3>3. c[k] = u[k] /\ u[k] = t[j + 1 - k]
      BY <1>1, <1>3, <1>5, <2>2, <3>1
    <3> QED
      BY <3>1, <3>2, <3>3
  <2>3. CASE ~(k <= j)
    <3>1. k - j \in 1..i /\ i + j + 1 - k <= i /\ i + 1 - (k - j) = i + j + 1 - k
      BY <1>1, <2>3
    <3>2. b[k] = s[i + j + 1 - k]
      BY <1>2, <1>4, <2>1, <3>1
    <3>3. c[k] = v[k - j] /\ v[k - j] = s[i + 1 - (k - j)]
      BY <1>1, <1>3, <1>5, <2>3, <3>1
    <3> QED
      BY <3>1, <3>2, <3>3
  <2> QED
    BY <2>2, <2>3
<1>7. b = c
  <2>1. Len(b) = Len(c) /\ \A k \in 1..Len(b) : b[k] = c[k]
    BY <1>1, <1>4, <1>5, <1>6
  <2> QED
    BY <1>4, <1>5, <2>1, SeqEqual
<1> QED
  BY <1>7 DEF a, b, c, u, v

----------------------------------------------------------------------------
(* The elements of a list.                                                 *)

LEMMA ItemsFacts ==
  ASSUME NEW m \in Mems, NEW v \in Values
  PROVE  /\ Items(m, v) \in Seq(Values) /\ Len(Items(m, v)) = Length(m, v)
         /\ Length(m, v) \in 0..Cardinality(Cells) /\ Length(m, v) \in Nat
         /\ \A k \in 1..Length(m, v) : /\ Items(m, v)[k] = m.car[Cdrs(m, v)[k - 1]]
                                       /\ Cdrs(m, v)[k - 1] \in Cells
<1> DEFINE n == 2 * Turns
           C == Cardinality(Cells)
           l == Length(m, v)
<1>t. n \in Nat /\ 2 * Turns <= n /\ C \in Nat /\ C \in 0..n
  BY TurnsFacts
<1> HIDE DEF n
<1>1. PICK w : Walk(m, v, n, w)
  BY <1>t, WalkExists
<1>2. Along(m, v, n, w)
  BY <1>1, <1>t, CdrsFacts
<1>3. l \in 0..C
  BY LengthFacts
<1>4. \A k \in 1..l : Cdrs(m, v)[k - 1] \in Cells
  <2>1. CASE Circular(m, v)
    <3>1. l = 0
      BY <2>1 DEF Length
    <3> QED
      BY <3>1
  <2>2. CASE ~Circular(m, v)
    <3>1. w[C] \notin Cells
      BY <1>2, <2>2 DEF Along
    <3>2. PICK j \in 0..C : First(n, w, j)
      BY <1>t, <3>1, FirstExists
    <3>3. l = j
      BY <1>2, <3>2 DEF Along
    <3>4. \A k \in 1..l : k - 1 \in 0..C /\ k - 1 \in 0..(j - 1)
      BY <1>t, <3>3
    <3> QED
      BY <1>2, <3>2, <3>4 DEF First, Along
  <2> QED
    BY <2>1, <2>2
<1>5. Items(m, v) = [k \in 1..l |-> m.car[Cdrs(m, v)[k - 1]]]
  BY DEF Items
<1> HIDE DEF l
<1>6. Items(m, v) \in [1..l -> Values] /\ l \in Nat
  BY <1>t, <1>3, <1>4, <1>5, MemFacts
<1>7. Items(m, v) \in Seq(Values) /\ Len(Items(m, v)) = l
  <2> DEFINE s == Items(m, v)
  <2> HIDE DEF s
  <2>1. s \in [1..l -> Values]
    BY <1>6 DEF s
  <2>2. s \in Seq(Values) /\ Len(s) = l
    BY <1>6, <2>1
  <2> QED
    BY <2>2 DEF s
<1> QED
  BY <1>3, <1>4, <1>5, <1>6, <1>7 DEF l

----------------------------------------------------------------------------
(* The pairs from v on, all of them in U, hold s; what follows is e.       *)
Chain(m, U, w, s, e) ==
  /\ w \in [0..Len(s) -> Values] /\ w[Len(s)] = e
  /\ \A k \in 1..Len(s) : /\ w[k - 1] \in Cells /\ w[k - 1] \in U
                          /\ m.car[w[k - 1]] = s[k] /\ m.cdr[w[k - 1]] = w[k]
Spells(m, U, v, s, e) == s \in Seq(Values) /\ \E w : w[0] = v /\ Chain(m, U, w, s, e)

LEMMA SpellsNone ==
  ASSUME NEW m, NEW U, NEW v \in Values
  PROVE  Spells(m, U, v, <<>>, v)
<1> DEFINE w == [k \in 0..0 |-> v]
<1>1. w \in [0..0 -> Values] /\ w[0] = v /\ Len(<<>>) = 0 /\ <<>> \in Seq(Values)
  OBVIOUS
<1>2. Chain(m, U, w, <<>>, v)
  <2> HIDE DEF w
  <2>1. \A k \in 1..Len(<<>>) : FALSE
    BY <1>1
  <2> QED
    BY <1>1, <2>1 DEF Chain
<1> QED
  BY <1>1, <1>2 DEF Spells

(* Nothing is spelled by what is no pair. *)
LEMMA SpellsEnd ==
  ASSUME NEW m, NEW U, NEW v, NEW s, NEW e, Spells(m, U, v, s, e)
  PROVE  /\ s \in Seq(Values) /\ Len(s) \in Nat /\ v \in Values /\ e \in Values
         /\ v \notin Cells => s = <<>> /\ v = e
         /\ v \in Cells => v \in U \/ v = e
<1>1. PICK w : w[0] = v /\ Chain(m, U, w, s, e)
  BY DEF Spells
<1>2. s \in Seq(Values) /\ Len(s) \in Nat
  BY LenProperties DEF Spells
<1>3. 0 \in 0..Len(s) /\ Len(s) \in 0..Len(s)
  BY <1>2
<1>4. CASE Len(s) = 0
  <2>1. s = <<>>
    BY <1>2, <1>4, EmptySeq
  <2> QED
    BY <1>1, <1>2, <1>3, <1>4, <2>1 DEF Chain
<1>5. CASE Len(s) # 0
  <2>1. 1 \in 1..Len(s)
    BY <1>2, <1>5
  <2>2. w[1 - 1] \in Cells /\ w[1 - 1] \in U
    BY <1>1, <2>1 DEF Chain
  <2> QED
    BY <1>1, <1>2, <1>3, <2>2 DEF Chain
<1> QED
  BY <1>4, <1>5

(* A sequence with one more element before it. *)
Before(x, s) == <<x>> \o s

LEMMA SpellsMore ==
  ASSUME NEW m \in Mems, NEW U, NEW c \in Cells, c \in U, NEW v, NEW s, NEW e,
         Spells(m, U, v, s, e), m.cdr[c] = v
  PROVE  Spells(m, U, c, Before(m.car[c], s), e)
<1> DEFINE x == m.car[c]
           t == <<x>> \o s
           n == Len(s)
<1>1. PICK w : w[0] = v /\ Chain(m, U, w, s, e)
  BY DEF Spells
<1>2. s \in Seq(Values) /\ n \in Nat /\ x \in Values /\ <<x>> \in Seq(Values) /\ Len(<<x>>) = 1
  <2>1. x \in Values
    BY MemFacts
  <2> HIDE DEF x
  <2> QED
    BY <2>1, LenProperties DEF Spells
<1>3. /\ t \in Seq(Values) /\ Len(t) = n + 1
      /\ \A k \in 1..(n + 1) : t[k] = IF k = 1 THEN x ELSE s[k - 1]
  <2>1. /\ t \in Seq(Values) /\ Len(t) = 1 + n
        /\ \A k \in 1..(1 + n) : t[k] = IF k <= 1 THEN <<x>>[k] ELSE s[k - 1]
    BY <1>2, ConcatProperties
  <2> HIDE DEF t, n, x
  <2> QED
    BY <1>2, <2>1
<1> DEFINE u == [k \in 0..(n + 1) |-> IF k = 0 THEN c ELSE w[k - 1]]
<1>4. /\ w \in [0..n -> Values] /\ w[n] = e
      /\ \A k \in 1..n : /\ w[k - 1] \in Cells /\ w[k - 1] \in U
                         /\ m.car[w[k - 1]] = s[k] /\ m.cdr[w[k - 1]] = w[k]
  BY <1>1 DEF Chain
<1> HIDE DEF t, n, x
<1>5. /\ u \in [0..(n + 1) -> Values] /\ u[0] = c
      /\ \A k \in 1..(n + 1) : u[k] = w[k - 1]
  BY <1>2, <1>4 DEF Values
<1> HIDE DEF u
<1>6. u[n + 1] = e
  <2>1. n + 1 \in 1..(n + 1) /\ (n + 1) - 1 = n
    BY <1>2
  <2> QED
    BY <1>4, <1>5, <2>1
<1>7. ASSUME NEW k \in 1..(n + 1)
      PROVE  /\ u[k - 1] \in Cells /\ u[k - 1] \in U
             /\ m.car[u[k - 1]] = t[k] /\ m.cdr[u[k - 1]] = u[k]
  <2>1. CASE k = 1
    <3>1. u[k - 1] = c /\ u[k] = w[0] /\ t[k] = x
      BY <1>2, <1>3, <1>5, <2>1
    <3> QED
      BY <1>1, <3>1 DEF x
  <2>2. CASE k # 1
    <3>1. k - 1 \in 1..n /\ k - 1 \in 1..(n + 1)
      BY <1>2, <2>2
    <3>2. u[k - 1] = w[(k - 1) - 1] /\ u[k] = w[k - 1] /\ t[k] = s[k - 1]
      BY <1>3, <1>5, <2>2, <3>1
    <3> QED
      BY <1>4, <3>1, <3>2
  <2> QED
    BY <2>1, <2>2
<1>8. Chain(m, U, u, t, e)
  BY <1>3, <1>5, <1>6, <1>7 DEF Chain
<1> QED
  BY <1>3, <1>5, <1>8 DEF Spells, Before, t, x

(* The pairs still spell what they did if none of them has changed. *)
LEMMA SpellsStill ==
  ASSUME NEW m, NEW n, NEW U, NEW V, NEW v, NEW s, NEW e, Spells(m, U, v, s, e),
         \A c \in U : c \in Cells => c \in V /\ n.car[c] = m.car[c] /\ n.cdr[c] = m.cdr[c]
  PROVE  Spells(n, V, v, s, e)
<1>1. PICK w : w[0] = v /\ Chain(m, U, w, s, e)
  BY DEF Spells
<1>2. Chain(n, V, w, s, e)
  BY <1>1 DEF Chain
<1> QED
  BY <1>1, <1>2 DEF Spells

(* What is spelled from v on are the elements of the list v, up to those   *)
(* of e: K holds the pairs that follow e.                                  *)
LEMMA SpellsItems ==
  ASSUME NEW m \in Mems, NEW n \in Mems, NEW U, NEW K, NEW v, NEW s, NEW e,
         Spells(n, U, v, s, e), e \in Cells => e \in K,
         \A c \in K : c \in Cells => /\ n.car[c] = m.car[c] /\ n.cdr[c] = m.cdr[c]
                                     /\ m.cdr[c] \in Cells => m.cdr[c] \in K
  PROVE  /\ Circular(m, e) => Circular(n, v)
         /\ ~Circular(m, e) => /\ ~Circular(n, v) /\ Items(n, v) = s \o Items(m, e)
                               /\ End(n, v) = End(m, e)
<1> DEFINE N == 2 * Turns
           C == Cardinality(Cells)
           L == Len(s)
           M == L + N
<1>s. s \in Seq(Values) /\ L \in Nat /\ v \in Values /\ e \in Values
  BY SpellsEnd
<1>t. N \in Nat /\ 2 * Turns <= N /\ C \in Nat /\ C \in 0..N /\ C + 1 <= N
  BY TurnsFacts
<1>1. PICK w : w[0] = v /\ Chain(n, U, w, s, e)
  BY DEF Spells
<1> HIDE DEF N, L
<1>2. /\ w \in [0..L -> Values] /\ w[L] = e
      /\ \A k \in 1..L : /\ w[k - 1] \in Cells
                         /\ n.car[w[k - 1]] = s[k] /\ n.cdr[w[k - 1]] = w[k]
  BY <1>1 DEF Chain, L
<1>3. PICK u : Walk(m, e, N, u)
  BY <1>s, <1>t, WalkExists
<1>4. u \in [0..N -> Values] /\ u[0] = e /\ \A k \in 1..N : u[k] = Onward(m, u[k - 1])
  BY <1>3 DEF Walk
<1>5. \A k \in 0..N : u[k] \in Cells => u[k] \in K
  <2> DEFINE T == {x \in Values : x \in Cells => x \in K}
  <2>1. u[0] \in T
    BY <1>4, <1>s
  <2>2. ASSUME NEW k \in 1..N, u[k - 1] \in T PROVE u[k] \in T
    <3>1. u[k - 1] \in Values /\ u[k] \in Values /\ u[k] = Onward(m, u[k - 1])
      BY <1>4, <2>2
    <3> QED
      BY <2>2, <3>1, OnwardFacts
  <2>3. \A k \in 0..N : u[k] \in T
    <3> HIDE DEF T
    <3> QED
      BY <1>t, <2>1, <2>2, StaysIn
  <2> QED
    BY <2>3
<1> DEFINE z == [k \in 0..M |-> IF k <= L THEN w[k] ELSE u[k - L]]
<1>6. /\ M \in Nat /\ 2 * Turns <= M /\ z \in [0..M -> Values]
      /\ \A k \in 0..L : z[k] = w[k] /\ k \in 0..M
      /\ \A k \in 0..N : z[L + k] = u[k] /\ L + k \in 0..M
  <2>1. M \in Nat /\ 2 * Turns <= M
    BY <1>s, <1>t, TurnsFacts
  <2>2. \A k \in 0..M : IF k <= L THEN k \in 0..L ELSE k - L \in 0..N
    BY <1>s, <1>t
  <2>3. z \in [0..M -> Values]
    BY <1>2, <1>4, <2>2
  <2>4. \A k \in 0..L : z[k] = w[k] /\ k \in 0..M
    BY <1>s, <1>t
  <2>5. ASSUME NEW k \in 0..N PROVE z[L + k] = u[k] /\ L + k \in 0..M
    <3>1. L + k \in 0..M /\ (L + k) - L = k
      BY <1>s, <1>t
    <3>2. CASE k = 0
      <4>1. L + k = L /\ L \in 0..L
        BY <1>s, <3>2
      <4> QED
        BY <1>2, <1>4, <2>4, <3>1, <3>2, <4>1
    <3>3. CASE k # 0
      <4>1. ~(L + k <= L)
        BY <1>s, <3>3
      <4> QED
        BY <3>1, <4>1
    <3> QED
      BY <3>2, <3>3
  <2> QED
    BY <2>1, <2>3, <2>4, <2>5
<1> HIDE DEF z, M
<1>7. Walk(n, v, M, z)
  <2>1. z[0] = v
    <3>1. 0 \in 0..L
      BY <1>s
    <3> QED
      BY <1>1, <1>6, <3>1
  <2>2. ASSUME NEW k \in 1..M PROVE z[k] = Onward(n, z[k - 1])
    <3>1. CASE k <= L
      <4>1. k \in 1..L /\ k \in 0..L /\ k - 1 \in 0..L
        BY <1>s, <3>1
      <4> QED
        BY <1>2, <1>6, <4>1 DEF Onward, is_pair
    <3>2. CASE ~(k <= L)
      <4> DEFINE j == k - L
      <4>1. j \in 1..N /\ j \in 0..N /\ j - 1 \in 0..N /\ k = L + j /\ k - 1 = L + (j - 1)
        BY <1>s, <1>t, <3>2 DEF M
      <4>2. z[k] = Onward(m, u[j - 1]) /\ z[k - 1] = u[j - 1] /\ u[j - 1] \in Values
        BY <1>4, <1>6, <4>1
      <4>3. Onward(m, u[j - 1]) = Onward(n, u[j - 1])
        BY <1>5, <4>1, <4>2, OnwardFacts
      <4> QED
        BY <4>2, <4>3
    <3> QED
      BY <3>1, <3>2
  <2> QED
    BY <1>6, <2>1, <2>2 DEF Walk
<1>8. Along(m, e, N, u) /\ Along(n, v, M, z)
  BY <1>3, <1>6, <1>7, <1>t, CdrsFacts
<1>9. ASSUME Circular(m, e) PROVE Circular(n, v)
  <2>1. \A k \in 0..N : u[k] \in Cells
    BY <1>8, <1>9 DEF Along
  <2>2. C \in 0..M /\ z[C] \in Cells
    <3>1. CASE C < L
      <4>1. C \in 0..L /\ C + 1 \in 1..L /\ (C + 1) - 1 = C
        BY <1>s, <1>t, <3>1
      <4> QED
        BY <1>2, <1>6, <4>1
    <3>2. CASE ~(C < L)
      <4>1. C - L \in 0..N /\ L + (C - L) = C
        BY <1>s, <1>t, <3>2
      <4> QED
        BY <1>6, <2>1, <4>1
    <3> QED
      BY <3>1, <3>2
  <2> QED
    BY <1>8, <2>2 DEF Along
<1>10. ASSUME ~Circular(m, e)
       PROVE  ~Circular(n, v) /\ Items(n, v) = s \o Items(m, e) /\ End(n, v) = End(m, e)
  <2>1. u[C] \notin Cells
    BY <1>8, <1>10 DEF Along
  <2>2. PICK l \in 0..C : First(N, u, l)
    BY <1>t, <2>1, FirstExists
  <2>3. l \in 0..N /\ u[l] \notin Cells /\ \A j \in 0..(l - 1) : u[j] \in Cells
    BY <2>2 DEF First
  <2>4. First(M, z, L + l)
    <3>1. L + l \in 0..M /\ z[L + l] \notin Cells
      BY <1>6, <2>3
    <3>2. ASSUME NEW j \in 0..(L + l - 1) PROVE z[j] \in Cells
      <4>1. CASE j < L
        <5>1. j \in 0..L /\ j + 1 \in 1..L /\ (j + 1) - 1 = j
          BY <1>s, <4>1
        <5> QED
          BY <1>2, <1>6, <5>1
      <4>2. CASE ~(j < L)
        <5>1. j - L \in 0..(l - 1) /\ j - L \in 0..N /\ L + (j - L) = j
          BY <1>s, <1>t, <4>2
        <5> QED
          BY <1>6, <2>3, <5>1
      <4> QED
        BY <4>1, <4>2
    <3>3. \A j \in 0..(L + l - 1) : z[j] \in Cells
      BY <3>2
    <3> DEFINE x == L + l
    <3>4. x \in 0..M /\ z[x] \notin Cells /\ \A j \in 0..(x - 1) : z[j] \in Cells
      BY <1>s, <1>t, <2>3, <3>1, <3>3
    <3> QED
      BY <3>4 DEF First
  <2>5. /\ ~Circular(n, v) /\ End(n, v) = z[L + l] /\ Length(n, v) = L + l /\ L + l \in 0..C
        /\ End(m, e) = u[l] /\ Length(m, e) = l
    BY <1>8, <2>2, <2>4 DEF Along
  <2> DEFINE a == Items(n, v)
             b == Items(m, e)
  <2>6. /\ a \in Seq(Values) /\ Len(a) = L + l /\ b \in Seq(Values) /\ Len(b) = l
        /\ \A k \in 1..(L + l) : a[k] = n.car[Cdrs(n, v)[k - 1]]
        /\ \A k \in 1..l : b[k] = m.car[Cdrs(m, e)[k - 1]]
    BY <1>s, <2>5, ItemsFacts
  <2> HIDE DEF a, b
  <2>7. /\ \A k \in 0..C : Cdrs(n, v)[k] = z[k]
        /\ \A k \in 0..C : Cdrs(m, e)[k] = u[k]
    BY <1>8 DEF Along
  <2>8. /\ s \o b \in Seq(Values) /\ Len(s \o b) = L + l
        /\ \A k \in 1..(L + l) : (s \o b)[k] = IF k <= L THEN s[k] ELSE b[k - L]
    BY <1>s, <2>6, ConcatProperties DEF L
  <2>9. ASSUME NEW k \in 1..(L + l) PROVE a[k] = (s \o b)[k]
    <3>1. k - 1 \in 0..C /\ a[k] = n.car[z[k - 1]]
      <4>1. k - 1 \in 0..C
        BY <1>s, <1>t, <2>3, <2>5
      <4> QED
        BY <2>6, <2>7, <4>1
    <3>2. CASE k <= L
      <4>1. k \in 1..L /\ k - 1 \in 0..L
        BY <1>s, <3>2
      <4> QED
        BY <1>2, <1>6, <2>8, <3>1, <3>2, <4>1
    <3>3. CASE ~(k <= L)
      <4> DEFINE j == k - L
      <4>1. j \in 1..l /\ j - 1 \in 0..C /\ j - 1 \in 0..N /\ k - 1 = L + (j - 1) /\ j - 1 \in 0..(l - 1)
        BY <1>s, <1>t, <3>3
      <4>2. a[k] = n.car[u[j - 1]] /\ u[j - 1] \in Cells /\ u[j - 1] \in K
        BY <1>5, <1>6, <2>3, <3>1, <4>1
      <4>3. b[j] = m.car[u[j - 1]]
        BY <2>6, <2>7, <4>1
      <4>4. (s \o b)[k] = b[j]
        BY <2>8, <3>3
      <4> QED
        BY <4>2, <4>3, <4>4
    <3> QED
      BY <3>2, <3>3
  <2>10. a = s \o b
    BY <2>6, <2>8, <2>9, SeqEqual
  <2>11. z[L + l] = u[l]
    BY <1>6, <2>3
  <2> QED
    BY <2>5, <2>10, <2>11 DEF a, b
<1> QED
  BY <1>9, <1>10

----------------------------------------------------------------------------
(* reverse and revappend.                                                  *)

LEMMA SameItems ==
  ASSUME NEW m \in Mems, NEW n, Same(m, n, {}), NEW v \in Known(m)
  PROVE  /\ Circular(n, v) <=> Circular(m, v)
         /\ ~Circular(m, v) => Items(n, v) = Items(m, v) /\ End(n, v) = End(m, v)
<1>1. n \in Mems /\ v \in Values
  BY MemFacts DEF Same
<1>2. Spells(n, {}, v, <<>>, v) /\ Spells(m, {}, v, <<>>, v)
  BY <1>1, SpellsNone
<1>3. /\ v \in Cells => v \in m.used
      /\ \A c \in m.used : c \in Cells =>
           /\ n.car[c] = m.car[c] /\ n.cdr[c] = m.cdr[c]
           /\ m.cdr[c] \in Cells => m.cdr[c] \in m.used
  BY MemFacts DEF Same, Known, is_pair
<1>4. /\ Circular(m, v) => Circular(n, v)
      /\ ~Circular(m, v) => /\ ~Circular(n, v) /\ Items(n, v) = <<>> \o Items(m, v)
                            /\ End(n, v) = End(m, v)
  BY <1>1, <1>2, <1>3, SpellsItems
<1>5. <<>> \o Items(m, v) = Items(m, v)
  BY <1>1, ItemsFacts, ConcatEmptySeq
<1> QED
  BY <1>4, <1>5

LEMMA KnownWalk ==
  ASSUME NEW m \in Mems, NEW v \in Known(m), NEW n \in Nat, NEW w, Walk(m, v, n, w)
  PROVE  \A k \in 0..n : w[k] \in Known(m)
<1> DEFINE T == Known(m)
<1>1. w[0] \in T
  BY DEF Walk
<1>2. ASSUME NEW k \in 1..n, w[k - 1] \in T PROVE w[k] \in T
  <2>1. w[k] = Onward(m, w[k - 1])
    BY DEF Walk
  <2>2. w[k - 1] \notin Cells \/ m.cdr[w[k - 1]] \in T
    BY <1>2, MemFacts DEF is_pair
  <2> QED
    BY <1>2, <2>1, <2>2 DEF Onward, is_pair
<1> QED
  BY <1>1, <1>2, StaysIn

(* The first j elements of the list that u walks along, the last first.    *)
Onwards(u, j) == \A i \in 0..(j - 1) : u[i] \in Cells
Behind(m, u, j) == [i \in 1..j |-> m.car[u[j - i]]]

LEMMA BehindFacts ==
  ASSUME NEW m \in Mems, NEW v, NEW n \in Nat, NEW u, Walk(m, v, n, u),
         NEW j \in 0..n, Onwards(u, j)
  PROVE  /\ Behind(m, u, j) \in Seq(Values) /\ Len(Behind(m, u, j)) = j
         /\ j = 0 => Behind(m, u, j) = <<>>
<1> DEFINE b == Behind(m, u, j)
<1>1. u \in [0..n -> Values] /\ m.car \in [Cells -> Values] /\ j \in Nat
      /\ \A i \in 0..(j - 1) : u[i] \in Cells
  BY MemFacts DEF Walk, Onwards
<1>2. \A i \in 1..j : j - i \in 0..(j - 1)
  OBVIOUS
<1>3. b \in [1..j -> Values]
  BY <1>1, <1>2 DEF Behind
<1> HIDE DEF b
<1>4. b \in Seq(Values) /\ Len(b) = j
  BY <1>1, <1>3
<1>5. j = 0 => b = <<>>
  BY <1>4, EmptySeq
<1> QED
  BY <1>4, <1>5 DEF b

LEMMA BehindMore ==
  ASSUME NEW m \in Mems, NEW v, NEW n \in Nat, NEW u, Walk(m, v, n, u),
         NEW j \in 0..n, Onwards(u, j), j < n, u[j] \in Cells
  PROVE  /\ j + 1 \in 0..n /\ Onwards(u, j + 1)
         /\ Behind(m, u, j + 1) = Before(m.car[u[j]], Behind(m, u, j))
<1> DEFINE b == Behind(m, u, j)
           c == Behind(m, u, j + 1)
           x == m.car[u[j]]
           d == <<x>> \o b
<1>1. u \in [0..n -> Values] /\ m.car \in [Cells -> Values] /\ j \in Nat
      /\ \A i \in 0..(j - 1) : u[i] \in Cells
  BY MemFacts DEF Walk, Onwards
<1>2. j + 1 \in 0..n /\ Onwards(u, j + 1)
  <2>1. \A i \in 0..((j + 1) - 1) : i = j \/ i \in 0..(j - 1)
    BY <1>1
  <2> QED
    BY <1>1, <2>1 DEF Onwards
<1>3. b \in Seq(Values) /\ Len(b) = j
  BY BehindFacts
<1>4. c \in Seq(Values) /\ Len(c) = j + 1
  BY <1>2, BehindFacts
<1>5. x \in Values
  BY <1>1
<1>6. \A i \in 1..(j + 1) : c[i] = m.car[u[(j + 1) - i]]
  BY DEF Behind
<1>7. \A i \in 1..j : b[i] = m.car[u[j - i]]
  BY DEF Behind
<1> HIDE DEF b, c, x
<1>8. <<x>> \in Seq(Values) /\ Len(<<x>>) = 1 /\ <<x>>[1] = x
  BY <1>5
<1>9. /\ d \in Seq(Values) /\ Len(d) = 1 + j
      /\ \A i \in 1..(1 + j) : d[i] = IF i <= 1 THEN <<x>>[i] ELSE b[i - 1]
  BY <1>3, <1>8, ConcatProperties
<1> HIDE DEF d
<1>10. ASSUME NEW i \in 1..(j + 1) PROVE c[i] = d[i]
  <2>1. CASE i = 1
    <3>1. c[i] = m.car[u[j]] /\ d[i] = x
      BY <1>1, <1>6, <1>8, <1>9, <2>1
    <3> QED
      BY <3>1 DEF x
  <2>2. CASE i # 1
    <3>1. i - 1 \in 1..j /\ j - (i - 1) = (j + 1) - i
      BY <1>1, <2>2
    <3>2. d[i] = b[i - 1] /\ b[i - 1] = m.car[u[j - (i - 1)]]
      BY <1>1, <1>7, <1>9, <2>2, <3>1
    <3> QED
      BY <1>6, <3>1, <3>2
  <2> QED
    BY <2>1, <2>2
<1>11. c = d
  BY <1>1, <1>4, <1>9, <1>10, SeqEqual
<1> QED
  BY <1>2, <1>11 DEF Before, b, c, d, x

(* The whole of a list that ends, the last first. *)
LEMMA BehindAll ==
  ASSUME NEW m \in Mems, NEW v \in Known(m), NEW n \in Nat, NEW u, Walk(m, v, n, u),
         2 * Turns <= n, NEW l, First(n, u, l)
  PROVE  /\ ~Circular(m, v) /\ End(m, v) = u[l] /\ Length(m, v) = l /\ l \in 0..Cardinality(Cells)
         /\ \A k \in 1..l : Items(m, v)[k] = m.car[u[k - 1]]
         /\ Behind(m, u, l) = Backwards(Items(m, v))
<1> DEFINE C == Cardinality(Cells)
           s == Items(m, v)
           b == Behind(m, u, l)
           r == Backwards(s)
<1>1. Along(m, v, n, u)
  BY CdrsFacts
<1>2. ~Circular(m, v) /\ End(m, v) = u[l] /\ Length(m, v) = l /\ l \in 0..C
  BY <1>1 DEF Along
<1>3. v \in Values /\ C \in Nat /\ l \in Nat
  BY <1>2, MemFacts, TurnsFacts
<1>4. /\ s \in Seq(Values) /\ Len(s) = l
      /\ \A k \in 1..l : s[k] = m.car[Cdrs(m, v)[k - 1]]
  BY <1>2, <1>3, ItemsFacts
<1> HIDE DEF s
<1>5. \A k \in 1..l : s[k] = m.car[u[k - 1]]
  <2>1. \A k \in 1..l : k - 1 \in 0..C
    BY <1>2, <1>3
  <2> QED
    BY <1>1, <1>4, <2>1 DEF Along
<1>6. b \in Seq(Values) /\ Len(b) = l
  <2>1. l \in 0..n /\ Onwards(u, l)
    BY DEF First, Onwards
  <2> QED
    BY <2>1, BehindFacts
<1>7. \A k \in 1..l : b[k] = m.car[u[l - k]]
  BY DEF Behind
<1>8. r \in Seq(Values) /\ Len(r) = l /\ \A k \in 1..l : r[k] = s[l + 1 - k]
  BY <1>4, BackwardsFacts
<1> HIDE DEF b, r
<1>9. ASSUME NEW k \in 1..l PROVE b[k] = r[k]
  <2>1. l + 1 - k \in 1..l /\ (l + 1 - k) - 1 = l - k
    BY <1>3
  <2>2. s[l + 1 - k] = m.car[u[(l + 1 - k) - 1]]
    BY <1>5, <2>1
  <2> QED
    BY <1>7, <1>8, <2>1, <2>2
<1>10. b = r
  BY <1>6, <1>8, <1>9, SeqEqual
<1> QED
  BY <1>2, <1>5, <1>10 DEF b, r, s

(* Where the loop of reverse is: j pairs from p on, their elements before  *)
(* what was there.                                                         *)
Reversed(l, m, u, S, z, s, j) ==
  /\ s.p = u[j] /\ Onwards(u, j) /\ Same(m, s.m, {})
  /\ Cardinality(s.m.used) >= j
  /\ Spells(s.m, Taken(l, s.m), s.v, Behind(m, u, j) \o S, z)

LEMMA UsedFacts ==
  ASSUME NEW m \in Mems
  PROVE  /\ IsFiniteSet(m.used) /\ Cardinality(m.used) \in 0..Cardinality(Cells)
         /\ \A c : c \notin m.used => Cardinality(m.used \cup {c}) = Cardinality(m.used) + 1
<1>1. m.used \subseteq Cells /\ IsFiniteSet(Cells) /\ Cardinality(Cells) \in Nat
  BY MemFacts, TurnsFacts
<1>2. IsFiniteSet(m.used) /\ Cardinality(m.used) <= Cardinality(Cells)
  BY <1>1, FS_Subset
<1>3. Cardinality(m.used) \in Nat
  BY <1>2, FS_CardinalityType
<1> QED
  BY <1>1, <1>2, <1>3, FS_AddElement

LEMMA ReversedTurn ==
  ASSUME NEW l \in Mems, NEW m \in Mems, NEW p \in Known(m), l.used \subseteq m.used,
         NEW n \in Nat, NEW u, Walk(m, p, n, u), NEW S \in Seq(Values), NEW z,
         NEW s \in Threes, NEW j \in 0..n, j < n, u[j] \in Cells, ~s.m.full,
         Reversed(l, m, u, S, z, s, j)
  PROVE  LET t == ConsTurn(s) IN ~t.m.full => Reversed(l, m, u, S, z, t, j + 1)
<1> DEFINE t == ConsTurn(s)
           x == s.m.car[s.p]
           y == cons(s.m, x, s.v)
           B == Behind(m, u, j)
           T == Taken(l, s.m)
<1>1. /\ s.p = u[j] /\ Onwards(u, j) /\ Same(m, s.m, {}) /\ Cardinality(s.m.used) >= j
      /\ Spells(s.m, T, s.v, B \o S, z)
      /\ s.m \in Mems /\ s.v \in Known(s.m) /\ s.p \in Known(s.m)
  BY ThreeHas DEF Reversed
<1>2. x \in Known(s.m) /\ t.m = y.m /\ t.v = y.v /\ t.p = s.m.cdr[s.p]
  BY <1>1, ConsTurnIn
<1> SUFFICES ASSUME ~t.m.full PROVE Reversed(l, m, u, S, z, t, j + 1)
  OBVIOUS
<1>3. /\ y.m \in Mems /\ Same(s.m, y.m, {}) /\ y.v \in Cells \ s.m.used
      /\ y.m.used = s.m.used \cup {y.v}
      /\ y.m.car = [s.m.car EXCEPT ![y.v] = x] /\ y.m.cdr = [s.m.cdr EXCEPT ![y.v] = s.v]
  <2>1. ~y.m.full
    BY <1>2
  <2> HIDE DEF t, x, B, T
  <2>2. y.m \in Mems /\ Same(s.m, y.m, {})
    BY <1>1, <1>2, ConsFacts
  <2>3. y.v \in Cells \ s.m.used /\ y.m.used = s.m.used \cup {y.v}
    BY <1>1, <1>2, <2>1, ConsFacts
  <2>4. y.m.car = [s.m.car EXCEPT ![y.v] = x]
    BY <1>1, <1>2, <2>1, ConsFacts
  <2>5. y.m.cdr = [s.m.cdr EXCEPT ![y.v] = s.v]
    BY <1>1, <1>2, <2>1, ConsFacts
  <2> QED
    BY <2>2, <2>3, <2>4, <2>5
<1>4. y.m.car[y.v] = x /\ y.m.cdr[y.v] = s.v
  <2>1. s.m.car \in [Cells -> Values] /\ s.m.cdr \in [Cells -> Values]
    BY <1>1, MemFacts
  <2> HIDE DEF y, x
  <2> QED
    BY <1>3, <2>1
<1> HIDE DEF t, y, x
<1>5. u[j] \in m.used
  <2>1. u[j] \in Known(m)
    BY KnownWalk
  <2> QED
    BY <2>1, MemFacts DEF is_pair
<1>6. x = m.car[u[j]] /\ s.m.cdr[s.p] = m.cdr[u[j]]
  BY <1>1, <1>5 DEF Same, x
<1>7. t.p = u[j + 1]
  <2>1. j + 1 \in 1..n /\ (j + 1) - 1 = j
    OBVIOUS
  <2>2. u[j + 1] = Onward(m, u[j])
    BY <2>1 DEF Walk
  <2> QED
    BY <1>2, <1>6, <2>2 DEF Onward, is_pair
<1>8. /\ Onwards(u, j + 1) /\ Behind(m, u, j + 1) = Before(x, B)
      /\ B \in Seq(Values) /\ x \in Values
  <2>1. B \in Seq(Values)
    BY <1>1, BehindFacts
  <2>2. Onwards(u, j + 1) /\ Behind(m, u, j + 1) = Before(m.car[u[j]], B)
    <3>1. Onwards(u, j)
      BY <1>1
    <3>2. Onwards(u, j + 1)
      BY <3>1, BehindMore
    <3>3. Behind(m, u, j + 1) = Before(m.car[u[j]], Behind(m, u, j))
      <4> HIDE DEF B, T
      <4>1. Walk(m, p, n, u) /\ j < n /\ u[j] \in Cells
        OBVIOUS
      <4> QED
        BY <3>1, <4>1, BehindMore, SMT
    <3> QED
      BY <3>2, <3>3
  <2>3. x \in Values
    BY <1>1, <1>2, MemFacts
  <2> QED
    BY <1>6, <2>1, <2>2, <2>3
<1> HIDE DEF B
<1>9. Same(m, y.m, {})
  BY <1>1, <1>3, SameTurns
<1>10. Cardinality(y.m.used) >= j + 1
  <2>1. Cardinality(s.m.used \cup {y.v}) = Cardinality(s.m.used) + 1 /\ Cardinality(s.m.used) \in 0..Cardinality(Cells)
    BY <1>1, <1>3, UsedFacts
  <2> QED
    BY <1>1, <1>3, <2>1, TurnsFacts
<1>11. Spells(y.m, Taken(l, y.m), y.v, Behind(m, u, j + 1) \o S, z)
  <2> DEFINE V == Taken(l, y.m)
  <2>1. y.v \in V /\ l.used \subseteq s.m.used
    BY <1>1, <1>3 DEF Taken, Same
  <2>2. \A c \in T : c \in Cells => c \in V /\ y.m.car[c] = s.m.car[c] /\ y.m.cdr[c] = s.m.cdr[c]
    BY <1>3 DEF Taken, Same
  <2> HIDE DEF V, T
  <2>3. Spells(y.m, V, s.v, B \o S, z)
    BY <1>1, <2>2, SpellsStill
  <2>4. Spells(y.m, V, y.v, Before(x, B \o S), z)
    BY <1>3, <1>4, <2>1, <2>3, SpellsMore
  <2>5. Before(x, B \o S) = Before(x, B) \o S
    <3> DEFINE X == <<x>>
    <3>1. X \in Seq(Values) /\ B \in Seq(Values) /\ S \in Seq(Values)
      BY <1>8
    <3>2. Before(x, B \o S) = X \o (B \o S) /\ Before(x, B) = X \o B
      BY DEF Before
    <3> HIDE DEF X
    <3>3. X \o (B \o S) = (X \o B) \o S
      BY ONLY SMTT(40), <3>1, ConcatAssociative
    <3> QED
      BY ONLY <3>2, <3>3
  <2> QED
    BY <1>8, <2>4, <2>5 DEF V
<1> QED
  BY <1>2, <1>7, <1>8, <1>9, <1>10, <1>11 DEF Reversed, t

LEMMA ConsMeant ==
  ASSUME NEW l \in Mems, NEW m \in Mems, l.used \subseteq m.used,
         NEW v \in Known(m), NEW p \in Known(m), NEW S \in Seq(Values), NEW z,
         Spells(m, Taken(l, m), v, S, z)
  PROVE  LET e == ConsBackwards(m, v, p)
         IN  ~e.m.full =>
               /\ ~Circular(m, p) /\ e.p = End(m, p) /\ Same(m, e.m, {})
               /\ Spells(e.m, Taken(l, e.m), e.v, Backwards(Items(m, p)) \o S, z)
<1> DEFINE e == ConsBackwards(m, v, p)
           n == 2 * Turns
           C == Cardinality(Cells)
<1>t. n \in Nat /\ 2 * Turns <= n /\ C \in Nat /\ Turns = C + 1 /\ Turns <= n
  BY TurnsFacts
<1> HIDE DEF n, C
<1>1. PICK at \in [0..Turns -> Threes] :
        /\ at[0] = [m |-> m, v |-> v, p |-> p] /\ e = at[Turns]
        /\ \A k \in 1..Turns : at[k] = ConsTurn(at[k - 1])
  BY ConsLoop
<1> HIDE DEF e
<1>2. PICK u : Walk(m, p, n, u)
  <2>1. p \in Values
    BY MemFacts
  <2> QED
    BY <1>t, <2>1, WalkExists
<1> DEFINE R(s, j) == Reversed(l, m, u, S, z, s, j)
           G == {k \in 0..Turns : at[k].m.full \/
                   \E j \in 0..k : R(at[k], j) /\ (j = k \/ u[j] \notin Cells)}
<1>3. 0 \in G
  <2> DEFINE s == at[0]
  <2>1. s.m = m /\ s.v = v /\ s.p = p
    BY <1>1
  <2> HIDE DEF s
  <2>2. Onwards(u, 0) /\ u[0] = p
    BY <1>2 DEF Onwards, Walk
  <2>3. Behind(m, u, 0) = <<>>
    BY <1>2, <1>t, <2>2, BehindFacts
  <2>4. <<>> \o S = S
    BY ConcatEmptySeq
  <2>5. Same(m, m, {}) /\ Cardinality(m.used) >= 0
    BY MemFacts, UsedFacts
  <2>6. R(s, 0)
    BY <2>1, <2>2, <2>3, <2>4, <2>5 DEF Reversed
  <2> QED
    BY <1>t, <2>6 DEF s
<1>4. ASSUME NEW k \in 0..Turns, k \in G /\ k < Turns PROVE k + 1 \in G
  <2> DEFINE s == at[k]
             t == ConsTurn(s)
  <2>1. k + 1 \in 0..Turns /\ k + 1 \in 1..Turns /\ (k + 1) - 1 = k
    BY <1>t, <1>4
  <2>2. at[k + 1] = t /\ s \in Threes
    BY <1>1, <2>1
  <2>3. s.m.full \/ \E j \in 0..k : R(s, j) /\ (j = k \/ u[j] \notin Cells)
    BY <1>4
  <2>4. CASE s.m.full
    <3>1. t = s
      BY <2>2, <2>4, ConsTurnIn
    <3> QED
      BY <2>1, <2>2, <2>4, <3>1
  <2>5. ASSUME ~s.m.full, NEW j \in 0..k, R(s, j), j = k \/ u[j] \notin Cells
        PROVE  k + 1 \in G
    <3>0. s.p = u[j]
      BY <2>5 DEF Reversed
    <3>1. CASE u[j] \notin Cells
      <4>1. t = s
        BY <2>2, <3>0, <3>1, ConsTurnIn
      <4>2. j \in 0..(k + 1)
        OBVIOUS
      <4>3. R(at[k + 1], j)
        BY <2>2, <2>5, <4>1
      <4> HIDE DEF R, s, t
      <4> QED
        BY <2>1, <3>1, <4>2, <4>3
    <3>2. CASE u[j] \in Cells
      <4>1. j = k /\ j < n /\ j \in 0..n
        BY <1>t, <1>4, <2>5, <3>2
      <4>2. ~t.m.full => R(t, j + 1)
        BY <1>2, <1>t, <2>2, <2>5, <3>2, <4>1, ReversedTurn
      <4>3. j + 1 \in 0..(k + 1) /\ j + 1 = k + 1
        BY <4>1
      <4> HIDE DEF R, s, t
      <4> QED
        BY <2>1, <2>2, <4>2, <4>3
    <3> QED
      BY <3>1, <3>2
  <2> QED
    BY <2>3, <2>4, <2>5
<1>5. Turns \in G
  <2> HIDE DEF G
  <2>0. 0 \in Nat /\ Turns \in Nat
    BY <1>t
  <2>1. \A k \in 0..Turns : k \in G
    BY <1>3, <1>4, <1>t, <2>0, Upwards
  <2> QED
    BY <1>t, <2>1
<1> SUFFICES ASSUME ~e.m.full
             PROVE  /\ ~Circular(m, p) /\ e.p = End(m, p) /\ Same(m, e.m, {})
                    /\ Spells(e.m, Taken(l, e.m), e.v, Backwards(Items(m, p)) \o S, z)
  BY DEF e
<1>6. PICK j \in 0..Turns : R(e, j) /\ (j = Turns \/ u[j] \notin Cells)
  BY <1>1, <1>5
<1>7. /\ e.p = u[j] /\ Onwards(u, j) /\ Same(m, e.m, {}) /\ Cardinality(e.m.used) >= j
      /\ Spells(e.m, Taken(l, e.m), e.v, Behind(m, u, j) \o S, z)
  BY <1>6 DEF Reversed
<1>8. u[j] \notin Cells
  <2>1. e.m \in Mems
    BY <1>7 DEF Same
  <2>2. Cardinality(e.m.used) \in 0..C
    BY <2>1, UsedFacts DEF C
  <2>3. j # Turns
    BY <1>7, <1>t, <2>2
  <2> QED
    BY <1>6, <2>3
<1>9. First(n, u, j)
  <2>1. j \in 0..n
    BY <1>t
  <2> QED
    BY <1>7, <1>8, <2>1 DEF First, Onwards
<1>10. ~Circular(m, p) /\ End(m, p) = u[j] /\ Behind(m, u, j) = Backwards(Items(m, p))
  BY <1>2, <1>9, <1>t, BehindAll
<1> QED
  BY <1>7, <1>10

----------------------------------------------------------------------------
(* A strand turned in place.                                               *)

LEMMA LinkLoop ==
  ASSUME NEW Q, NEW m, NEW v, NEW p, [m |-> m, v |-> v, p |-> p] \in Q,
         \A s \in Q : LinkTurn(s) \in Q
  PROVE  \E at \in [0..Turns -> Q] :
           /\ at[0] = [m |-> m, v |-> v, p |-> p] /\ LinkBackwards(m, v, p) = at[Turns]
           /\ \A k \in 1..Turns : at[k] = LinkTurn(at[k - 1])
<1> DEFINE a == [m |-> m, v |-> v, p |-> p]
           at == CHOOSE at : at = [k \in 0..Turns |-> IF k = 0 THEN a ELSE LinkTurn(at[k - 1])]
           f == [s \in Q |-> LinkTurn(s)]
<1>0. a \in Q
  OBVIOUS
<1>5. LinkBackwards(m, v, p) = at[Turns]
  BY DEF LinkBackwards, Loop
<1> HIDE DEF a
<1>1. f \in [Q -> Q]
  OBVIOUS
<1>2. PICK h \in [0..Turns -> Q] : Looped(Turns, a, f, h)
  <2> HIDE DEF f
  <2> QED
    BY <1>0, <1>1, LoopedStep, TurnsFacts
<1>3. h = [k \in 0..Turns |-> IF k = 0 THEN a ELSE LinkTurn(h[k - 1])]
  <2>1. \A k \in 0..Turns : k # 0 => k - 1 \in 0..Turns
    BY TurnsFacts
  <2>2. \A k \in 0..Turns : k # 0 => f[h[k - 1]] = LinkTurn(h[k - 1])
    BY <2>1
  <2> HIDE DEF f
  <2> QED
    BY <1>2, <2>2 DEF Looped
<1>4. at = [k \in 0..Turns |-> IF k = 0 THEN a ELSE LinkTurn(at[k - 1])]
  BY <1>3
<1> HIDE DEF at
<1>t. 0 \in 0..Turns /\ Turns \in Nat /\ \A k \in 1..Turns : k \in 0..Turns /\ k # 0
  BY TurnsFacts
<1>6. at[0] = a /\ \A k \in 1..Turns : at[k] = LinkTurn(at[k - 1])
  <2>1. \A k \in 0..Turns : at[k] = IF k = 0 THEN a ELSE LinkTurn(at[k - 1])
    BY <1>4
  <2> QED
    BY <2>1, <1>t
<1>7. \A k \in 0..Turns : at[k] \in Q
  <2>1. \A k \in 1..Turns : at[k - 1] \in Q => at[k] \in Q
    BY <1>6
  <2> QED
    BY <1>0, <1>6, <1>t, <2>1, StaysIn
<1>8. at \in [0..Turns -> Q]
  BY <1>4, <1>7
<1> QED
  BY <1>5, <1>6, <1>8 DEF a

(* k pairs of the walk w are turned, the others are as they were.          *)
Linked(n, v, L, w, k, s) ==
  /\ s \in [m : Mems, v : Values, p : Values] /\ s.p = w[k] /\ s.m.used = n.used
  /\ s.v \in Known(n)
  /\ Spells(s.m, {w[i] : i \in 0..(k - 1)}, s.v, Behind(n, w, k), v)
  /\ \A i \in k..(L - 1) : s.m.cdr[w[i]] = w[i + 1]
  /\ s.m.car = n.car

LEMMA LinkedTurn ==
  ASSUME NEW n \in Mems, NEW v, NEW p \in Known(n), NEW L \in Nat, NEW w, Walk(n, p, L, w),
         w[L] = Nil, Onwards(w, L), \A i \in 0..L : \A j \in 0..(i - 1) : w[i] # w[j],
         NEW k \in 0..L, NEW s, Linked(n, v, L, w, k, s)
  PROVE  /\ k = L => LinkTurn(s) = s
         /\ k # L => Linked(n, v, L, w, k + 1, LinkTurn(s))
<1> DEFINE U == {w[i] : i \in 0..(k - 1)}
           V == {w[i] : i \in 0..((k + 1) - 1)}
           B == Behind(n, w, k)
           c == w[k]
           x == n.car[c]
           y == SetCdr(s.m, c, s.v)
           t == LinkTurn(s)
<1>1. /\ s.m \in Mems /\ s.v \in Values /\ s.p = c /\ s.m.used = n.used /\ s.v \in Known(n)
      /\ Spells(s.m, U, s.v, B, v)
      /\ \A i \in k..(L - 1) : s.m.cdr[w[i]] = w[i + 1]
      /\ s.m.car = n.car
  BY DEF Linked
<1>2. k = L => t = s
  BY <1>1 DEF LinkTurn
<1> SUFFICES ASSUME k # L PROVE Linked(n, v, L, w, k + 1, t)
  BY <1>2
<1>3. k \in 0..(L - 1) /\ k \in k..(L - 1) /\ k + 1 \in 0..L /\ k < L /\ k \in Nat
  OBVIOUS
<1>4. c \in Cells /\ c # Nil /\ c \in Known(n) /\ c \in Known(s.m) /\ s.v \in Known(s.m)
  <2>1. c \in Cells
    BY <1>3 DEF Onwards
  <2>2. c \in Known(n)
    BY <1>3, KnownWalk
  <2> QED
    BY <1>1, <2>1, <2>2, MemFacts DEF Known
<1>5. t = [m |-> y, v |-> c, p |-> w[k + 1]]
  BY <1>1, <1>3, <1>4 DEF LinkTurn
<1>6. /\ y \in Mems /\ y.used = s.m.used /\ y.car = s.m.car
      /\ y.cdr = [s.m.cdr EXCEPT ![c] = s.v]
  BY <1>1, <1>4, SetCdrFacts
<1> HIDE DEF y, t
<1>7. y.cdr[c] = s.v /\ \A d \in Cells : d # c => y.cdr[d] = s.m.cdr[d]
  BY <1>1, <1>4, <1>6, MemFacts
<1>8. /\ t.m = y /\ t.v = c /\ t.p = w[k + 1] /\ t \in [m : Mems, v : Values, p : Values]
  <2>1. w[k + 1] \in Values /\ c \in Values
    BY <1>3, <1>4 DEF Walk, Values
  <2> HIDE DEF c
  <2> QED
    BY <1>5, <1>6, <2>1
<1>9. Spells(y, V, c, Behind(n, w, k + 1), v)
  <2>1. c \notin U /\ U \subseteq V /\ c \in V
    <3>1. \A i \in 0..(k - 1) : w[k] # w[i]
      BY <1>3
    <3>2. \A i \in 0..(k - 1) : i \in 0..((k + 1) - 1)
      BY <1>3
    <3>3. k \in 0..((k + 1) - 1)
      BY <1>3
    <3> QED
      BY <3>1, <3>2, <3>3
  <2>2. \A d \in U : d \in Cells => d \in V /\ y.car[d] = s.m.car[d] /\ y.cdr[d] = s.m.cdr[d]
    BY <1>6, <1>7, <2>1
  <2> HIDE DEF U, V, B, c
  <2>3. Spells(y, V, s.v, B, v)
    BY <1>1, <2>2, SpellsStill
  <2>4. Spells(y, V, c, Before(y.car[c], B), v)
    BY <1>4, <1>6, <1>7, <2>1, <2>3, SpellsMore
  <2>5. Onwards(w, k)
    BY <1>3 DEF Onwards
  <2>6. w[k] \in Cells /\ k \in 0..L
    BY <1>4 DEF c
  <2>7. Behind(n, w, k + 1) = Before(n.car[w[k]], Behind(n, w, k))
    BY <1>3, <2>5, <2>6, BehindMore
  <2> QED
    BY <1>1, <1>6, <2>4, <2>7 DEF c, B
<1>10. ASSUME NEW i \in (k + 1)..(L - 1) PROVE y.cdr[w[i]] = w[i + 1]
  <2>1. i \in k..(L - 1) /\ i \in 0..(L - 1) /\ i \in 0..L /\ k \in 0..(i - 1)
    BY <1>3
  <2>2. w[i] # c /\ w[i] \in Cells
    BY <2>1 DEF Onwards
  <2> QED
    BY <1>1, <1>7, <2>1, <2>2
<1> QED
  BY <1>1, <1>4, <1>6, <1>8, <1>9, <1>10 DEF Linked

LEMMA LinkMeant ==
  ASSUME NEW l \in Mems, NEW n, NEW p, Strand(l, n, p), NEW v \in Known(n),
         NEW S, Spells(n, Taken(l, n), p, S, Nil)
  PROVE  LET e == LinkBackwards(n, v, p) IN Spells(e.m, Taken(l, e.m), e.v, Backwards(S), v)
<1> DEFINE L == Len(S)
           C == Cardinality(Cells)
           U == Taken(l, n)
           a == [m |-> n, v |-> v, p |-> p]
           e == LinkBackwards(n, v, p)
<1>1. n \in Mems /\ p \in Known(n) /\ p \in Values /\ v \in Values /\ Nil \in Values /\ Nil \notin Cells
  BY MemFacts DEF Strand, Taken, Known
<1>2. S \in Seq(Values) /\ L \in Nat
  BY SpellsEnd
<1>3. PICK w : w[0] = p /\ Chain(n, U, w, S, Nil)
  BY DEF Spells
<1> HIDE DEF L, U
<1>4. /\ w \in [0..L -> Values] /\ w[L] = Nil
      /\ \A k \in 1..L : /\ w[k - 1] \in Cells /\ w[k - 1] \in U
                         /\ n.car[w[k - 1]] = S[k] /\ n.cdr[w[k - 1]] = w[k]
  BY <1>3 DEF Chain, L
<1>5. Walk(n, p, L, w)
  BY <1>3, <1>4 DEF Walk, Onward, is_pair
<1>6. /\ \A i \in 0..(L - 1) : w[i] \in Cells /\ w[i] \in U /\ n.car[w[i]] = S[i + 1]
                               /\ n.cdr[w[i]] = w[i + 1]
  <2> SUFFICES ASSUME NEW i \in 0..(L - 1)
               PROVE  /\ w[i] \in Cells /\ w[i] \in U /\ n.car[w[i]] = S[i + 1]
                      /\ n.cdr[w[i]] = w[i + 1]
    OBVIOUS
  <2>1. i + 1 \in 1..L /\ (i + 1) - 1 = i
    BY <1>2
  <2> QED
    BY <1>4, <2>1
<1>7. ASSUME NEW i \in 0..L, NEW j \in 0..(i - 1) PROVE w[i] # w[j]
  <2> SUFFICES ASSUME w[j] = w[i] PROVE FALSE
    OBVIOUS
  <2>1. j \in 0..L /\ j < i /\ \A h \in 0..(i - 1) : w[h] \in Cells
    BY <1>2, <1>6
  <2>2. \A h \in 0..L : w[h] \in Cells
    BY <1>1, <1>2, <1>5, <2>1, WalkRepeats
  <2> QED
    BY <1>1, <1>2, <1>4, <2>2
<1>8. L \in 0..C
  <2>1. Nil \in Cells => Nil \in {}
    BY <1>1
  <2>2. Spells(n, U, p, S, Nil)
    BY DEF U
  <2>3. ~Circular(n, Nil)
    <3>1. PICK z : Walk(n, Nil, 2 * Turns, z)
      BY <1>1, WalkExists, TurnsFacts
    <3>2. z[0] = Nil /\ 0 \in 0..(2 * Turns) /\ 2 * Turns \in Nat /\ \A j \in 0..(0 - 1) : FALSE
      BY <3>1, TurnsFacts DEF Walk
    <3>3. First(2 * Turns, z, 0)
      BY <1>1, <3>2 DEF First
    <3>4. Along(n, Nil, 2 * Turns, z)
      BY <1>1, <3>1, <3>2, CdrsFacts
    <3> QED
      BY <3>3, <3>4 DEF Along
  <2>4. Items(n, p) = S \o Items(n, Nil)
    BY <1>1, <2>1, <2>2, <2>3, SpellsItems
  <2>5. /\ Len(Items(n, p)) = Length(n, p) /\ Length(n, p) \in 0..C
        /\ Items(n, Nil) \in Seq(Values) /\ Len(Items(n, Nil)) \in Nat
    BY <1>1, ItemsFacts
  <2>6. Len(S \o Items(n, Nil)) = L + Len(Items(n, Nil))
    BY <1>2, <2>5, ConcatProperties DEF L
  <2> HIDE DEF C
  <2>7. C \in Nat
    BY TurnsFacts DEF C
  <2> QED
    BY <1>2, <2>4, <2>5, <2>6, <2>7
<1>9. Onwards(w, L)
  BY <1>6 DEF Onwards
<1> DEFINE R(k, s) == Linked(n, v, L, w, k, s)
           Q == {s \in [m : Mems, v : Values, p : Values] : \E k \in 0..L : R(k, s)}
<1>10. R(0, a) /\ a \in Q
  <2>1. a \in [m : Mems, v : Values, p : Values] /\ a.m = n /\ a.v = v /\ a.p = p
    BY <1>1
  <2> HIDE DEF a
  <2>2. Spells(n, {w[i] : i \in 0..(0 - 1)}, v, <<>>, v)
    BY <1>1, SpellsNone
  <2>3. Onwards(w, 0) /\ 0 \in 0..L
    BY <1>2 DEF Onwards
  <2>4. Behind(n, w, 0) = <<>>
    BY <1>1, <1>2, <1>5, <2>3, BehindFacts
  <2>5. R(0, a)
    BY <1>1, <1>3, <1>6, <2>1, <2>2, <2>4 DEF Linked
  <2> HIDE DEF R
  <2> QED
    BY <2>1, <2>3, <2>5
<1>11. ASSUME NEW k \in 0..L, NEW s, R(k, s)
       PROVE  (k = L => LinkTurn(s) = s) /\ (k # L => R(k + 1, LinkTurn(s)))
  BY <1>1, <1>2, <1>4, <1>5, <1>7, <1>9, <1>11, LinkedTurn
<1>12. ASSUME NEW k \in 0..L, NEW s, R(k, s)
       PROVE  s \in [m : Mems, v : Values, p : Values]
  BY <1>12 DEF Linked
<1> HIDE DEF R
<1>13. \A s \in Q : LinkTurn(s) \in Q
  <2> SUFFICES ASSUME NEW s \in Q PROVE LinkTurn(s) \in Q
    OBVIOUS
  <2>1. PICK k \in 0..L : R(k, s)
    OBVIOUS
  <2>2. CASE k = L
    BY <1>11, <2>1, <2>2
  <2>3. CASE k # L
    <3>1. k + 1 \in 0..L /\ R(k + 1, LinkTurn(s))
      BY <1>2, <1>11, <2>1, <2>3
    <3>2. LinkTurn(s) \in [m : Mems, v : Values, p : Values]
      BY <1>12, <3>1
    <3> QED
      BY <3>1, <3>2
  <2> QED
    BY <2>2, <2>3
<1> HIDE DEF Q, C
<1>14. PICK at \in [0..Turns -> Q] :
         /\ at[0] = a /\ e = at[Turns]
         /\ \A k \in 1..Turns : at[k] = LinkTurn(at[k - 1])
  BY <1>10, <1>13, LinkLoop
<1> HIDE DEF a, e
<1>t. C \in Nat /\ Turns = C + 1 /\ Turns \in Nat
  BY TurnsFacts DEF C
<1> DEFINE G == {k \in 0..Turns : \E j \in 0..L : R(j, at[k]) /\ (j = k \/ j = L)}
<1>15. 0 \in G
  <2>1. 0 \in 0..Turns /\ 0 \in 0..L
    BY <1>2, <1>t
  <2> QED
    BY <1>10, <1>14, <2>1
<1>16. ASSUME NEW k \in 0..Turns, k \in G /\ k < Turns PROVE k + 1 \in G
  <2>1. k + 1 \in 0..Turns /\ k + 1 \in 1..Turns /\ (k + 1) - 1 = k
    BY <1>t, <1>16
  <2>2. at[k + 1] = LinkTurn(at[k])
    BY <1>14, <2>1
  <2>3. PICK j \in 0..L : R(j, at[k]) /\ (j = k \/ j = L)
    BY <1>16
  <2>4. CASE j = L
    BY <1>11, <2>1, <2>2, <2>3, <2>4
  <2>5. CASE j # L
    <3>1. j + 1 \in 0..L /\ R(j + 1, at[k + 1]) /\ j + 1 = k + 1
      BY <1>2, <1>11, <2>2, <2>3, <2>5
    <3> QED
      BY <2>1, <3>1
  <2> QED
    BY <2>4, <2>5
<1>17. R(L, e)
  <2>1. Turns \in G
    <3> HIDE DEF G
    <3>0. 0 \in Nat
      OBVIOUS
    <3>1. \A k \in 0..Turns : k \in G
      BY <1>15, <1>16, <1>t, <3>0, Upwards
    <3> QED
      BY <1>t, <3>1
  <2>2. PICK j \in 0..L : R(j, at[Turns]) /\ (j = Turns \/ j = L)
    BY <2>1
  <2>3. j = L
    BY <1>8, <1>t, <2>2
  <2> QED
    BY <1>14, <2>2, <2>3
<1>18. /\ Spells(e.m, {w[i] : i \in 0..(L - 1)}, e.v, Behind(n, w, L), v)
       /\ e.m.used = n.used
  BY <1>17 DEF R, Linked
<1>19. Behind(n, w, L) = Backwards(S)
  <2> DEFINE b == Behind(n, w, L)
             r == Backwards(S)
  <2>1. L \in 0..L
    BY <1>2
  <2>2. b \in Seq(Values) /\ Len(b) = L
    BY <1>1, <1>2, <1>5, <1>9, <2>1, BehindFacts
  <2>3. \A k \in 1..L : b[k] = n.car[w[L - k]]
    BY DEF Behind
  <2>4. r \in Seq(Values) /\ Len(r) = L /\ \A k \in 1..L : r[k] = S[L + 1 - k]
    BY <1>2, BackwardsFacts DEF L
  <2> HIDE DEF b, r
  <2>5. ASSUME NEW k \in 1..L PROVE b[k] = r[k]
    <3>1. L - k \in 0..(L - 1) /\ (L - k) + 1 = L + 1 - k
      BY <1>2
    <3>2. n.car[w[L - k]] = S[(L - k) + 1]
      BY <1>6, <3>1
    <3> QED
      BY <2>3, <2>4, <3>1, <3>2
  <2>6. b = r
    BY <2>2, <2>4, <2>5, SeqEqual
  <2> QED
    BY <2>6 DEF b, r
<1>20. Spells(e.m, Taken(l, e.m), e.v, Backwards(S), v)
  <2> DEFINE V == {w[i] : i \in 0..(L - 1)}
             W == Taken(l, e.m)
  <2>1. \A c \in V : c \in Cells => c \in W /\ e.m.car[c] = e.m.car[c] /\ e.m.cdr[c] = e.m.cdr[c]
    BY <1>6, <1>18 DEF Taken, U
  <2>2. Spells(e.m, V, e.v, Backwards(S), v)
    BY <1>18, <1>19
  <2> HIDE DEF V, W
  <2>3. Spells(e.m, W, e.v, Backwards(S), v)
    BY <2>1, <2>2, SpellsStill
  <2> QED
    BY <2>3 DEF W
<1> QED
  BY <1>20 DEF e

----------------------------------------------------------------------------
(* append.                                                                 *)

LEMMA AllItemsFacts ==
  ASSUME NEW m \in Mems, NEW s \in Seq(Values)
  PROVE  \E of \in [0..Len(s) -> Seq(Values)] :
           /\ of[0] = <<>> /\ AllItems(m, s) = of[Len(s)]
           /\ \A k \in 1..Len(s) : of[k] = of[k - 1] \o Items(m, s[k])
<1> DEFINE n == Len(s)
           Q == Seq(Values)
           f == [k \in 1..n |-> [t \in Q |-> t \o Items(m, s[k])]]
           of == CHOOSE of : of = [k \in 0..n |-> IF k = 0 THEN <<>> ELSE of[k - 1] \o Items(m, s[k])]
<1>1. n \in Nat /\ <<>> \in Q /\ \A k \in 1..n : s[k] \in Values /\ Items(m, s[k]) \in Q
  BY LenProperties, ElementOfSeq, ItemsFacts
<1>2. AllItems(m, s) = of[n]
  BY DEF AllItems
<1> HIDE DEF n
<1>3. f \in [1..n -> [Q -> Q]]
  <2>1. \A k \in 1..n : \A t \in Q : t \o Items(m, s[k]) \in Q
    BY <1>1, ConcatProperties
  <2> QED
    BY <2>1
<1>4. PICK h \in [0..n -> Q] : LoopedBy(n, <<>>, f, h)
  <2> HIDE DEF f, Q
  <2> QED
    BY <1>1, <1>3, LoopedTurns
<1>5. h = [k \in 0..n |-> IF k = 0 THEN <<>> ELSE h[k - 1] \o Items(m, s[k])]
  <2>1. \A k \in 0..n : k # 0 => k \in 1..n /\ k - 1 \in 0..n
    BY <1>1
  <2>2. \A k \in 0..n : k # 0 => f[k][h[k - 1]] = h[k - 1] \o Items(m, s[k])
    BY <2>1
  <2> HIDE DEF f
  <2> QED
    BY <1>4, <2>2 DEF LoopedBy
<1>6. of = [k \in 0..n |-> IF k = 0 THEN <<>> ELSE of[k - 1] \o Items(m, s[k])]
  BY <1>5
<1> HIDE DEF of
<1>7. of[0] = <<>> /\ \A k \in 1..n : of[k] = of[k - 1] \o Items(m, s[k])
  <2>1. \A k \in 0..n : of[k] = IF k = 0 THEN <<>> ELSE of[k - 1] \o Items(m, s[k])
    BY <1>6
  <2>2. 0 \in 0..n /\ \A k \in 1..n : k \in 0..n /\ k # 0
    BY <1>1
  <2> QED
    BY <2>1, <2>2
<1>8. \A k \in 0..n : of[k] \in Q
  <2>1. ASSUME NEW k \in 1..n, of[k - 1] \in Q PROVE of[k] \in Q
    <3>1. Items(m, s[k]) \in Q /\ of[k] = of[k - 1] \o Items(m, s[k])
      BY <1>1, <1>7
    <3> QED
      BY <2>1, <3>1, ConcatProperties
  <2> HIDE DEF Q
  <2> QED
    BY <1>1, <1>7, <2>1, StaysIn
<1>9. of \in [0..n -> Q]
  BY <1>6, <1>8
<1> QED
  BY <1>2, <1>7, <1>9 DEF n

LEMMA FrontFacts ==
  ASSUME NEW s \in Seq(Values)
  PROVE  /\ Front(s) \in Seq(Values)
         /\ Len(Front(s)) = IF Len(s) = 0 THEN 0 ELSE Len(s) - 1
         /\ \A k \in 1..(Len(s) - 1) : Front(s)[k] = s[k]
<1>1. Len(s) \in Nat
  BY LenProperties
<1> DEFINE n == Len(s) - 1
<1>2. n \in Int /\ 1 \in Int /\ \A k \in 1..n : s[k] \in Values
  <2>1. \A k \in 1..n : k \in 1..Len(s)
    BY <1>1
  <2> QED
    BY <1>1, <2>1, ElementOfSeq
<1> HIDE DEF n
<1>3. /\ SubSeq(s, 1, n) \in Seq(Values)
      /\ Len(SubSeq(s, 1, n)) = IF 1 <= n THEN n - 1 + 1 ELSE 0
      /\ \A k \in 1..(n - 1 + 1) : SubSeq(s, 1, n)[k] = s[1 + k - 1]
  BY <1>2, SubSeqProperties
<1>4. Front(s) = SubSeq(s, 1, n)
  BY DEF Front, n
<1> HIDE DEF n
<1>5. \A k \in 1..n : k \in 1..(n - 1 + 1) /\ 1 + k - 1 = k
  BY <1>2
<1>6. n = Len(s) - 1
  BY DEF n
<1> QED
  BY <1>1, <1>2, <1>3, <1>4, <1>5, <1>6

(* A turn of append's loop: one more argument, backwards. *)
LEMMA RevappendMeant ==
  ASSUME NEW l \in Mems, NEW m \in Mems, Same(l, m, {}), NEW v \in Known(m), NEW x \in Known(l),
         NEW S \in Seq(Values), Spells(m, Taken(l, m), v, Backwards(S), Nil)
  PROVE  LET r == revappend(m, v, x)
         IN  ~r.m.full /\ r.v # "#f" =>
               Spells(r.m, Taken(l, r.m), r.v, Backwards(S \o Items(l, x)), Nil)
<1> DEFINE e == ConsBackwards(m, v, x)
           r == revappend(m, v, x)
           B == Backwards(S)
           t == Items(l, x)
<1>1. r = [m |-> e.m, v |-> IF e.m.full \/ e.p = Nil THEN e.v ELSE "#f"]
  BY DEF revappend, Appended, Result
<1>2. l.used \subseteq m.used /\ x \in Known(m) /\ B \in Seq(Values)
  BY BackwardsFacts DEF Same, Known
<1>3. Spells(m, Taken(l, m), v, B, Nil)
  OBVIOUS
<1> HIDE DEF B
<1>4. ~e.m.full => /\ ~Circular(m, x)
                   /\ Spells(e.m, Taken(l, e.m), e.v, Backwards(Items(m, x)) \o B, Nil)
  BY <1>2, <1>3, ConsMeant
<1> HIDE DEF e, r
<1>5. r.m = e.m /\ (r.v = e.v \/ r.v = "#f")
  BY <1>1
<1>6. ~Circular(m, x) => Items(m, x) = t
  BY SameItems
<1>7. t \in Seq(Values)
  <2>1. x \in Values
    BY MemFacts
  <2> QED
    BY <2>1, ItemsFacts
<1> HIDE DEF t
<1>8. Backwards(S \o t) = Backwards(t) \o B
  BY <1>7, BackwardsConcat DEF B
<1>9. ~r.m.full /\ r.v # "#f" => Spells(r.m, Taken(l, r.m), r.v, Backwards(S \o t), Nil)
  BY <1>4, <1>5, <1>6, <1>8
<1> QED
  BY <1>9 DEF r, t

(* Before the last of a list of pairs that ends with ().                   *)
LEMMA ListWalk ==
  ASSUME NEW m \in Mems, NEW y \in Known(m), ProperList(m, y)
  PROVE  LET s == Items(m, y)
         IN  \E n \in Nat : \E u : \E L \in 0..Cardinality(Cells) :
               /\ Walk(m, y, n, u) /\ 2 * Turns <= n
               /\ s \in Seq(Values) /\ Len(s) = L /\ L <= n /\ Onwards(u, L) /\ u[L] = Nil
               /\ \A k \in 1..L : s[k] = m.car[u[k - 1]]
               /\ \A k \in 0..L : u[k] \in Known(m)
<1> DEFINE n == 2 * Turns
           C == Cardinality(Cells)
           s == Items(m, y)
<1>t. n \in Nat /\ 2 * Turns <= n /\ C \in Nat /\ C \in 0..n
  BY TurnsFacts
<1>0. y \in Values
  BY MemFacts
<1> HIDE DEF n
<1>1. PICK u : Walk(m, y, n, u)
  BY <1>t, <1>0, WalkExists
<1>2. Along(m, y, n, u)
  BY <1>1, <1>t, CdrsFacts
<1>3. PICK L \in 0..C : First(n, u, L)
  <2>1. u[C] \notin Cells
    BY <1>2 DEF Along, ProperList
  <2> QED
    BY <1>t, <2>1, FirstExists
<1>4. L \in 0..n /\ L <= n /\ Onwards(u, L)
  BY <1>3, <1>t DEF First, Onwards
<1>5. Length(m, y) = L /\ End(m, y) = u[L] /\ \A k \in 1..L : s[k] = m.car[u[k - 1]]
  BY <1>1, <1>3, <1>t, BehindAll
<1>6. s \in Seq(Values) /\ Len(s) = L
  BY <1>0, <1>5, ItemsFacts
<1>7. u[L] = Nil
  BY <1>5 DEF ProperList
<1>8. \A k \in 0..L : u[k] \in Known(m)
  <2>1. \A k \in 0..n : u[k] \in Known(m)
    BY <1>1, <1>t, KnownWalk
  <2> QED
    BY <1>t, <1>4, <2>1
<1> HIDE DEF s, C
<1>9. /\ Walk(m, y, n, u) /\ 2 * Turns <= n
      /\ s \in Seq(Values) /\ Len(s) = L /\ L <= n /\ Onwards(u, L) /\ u[L] = Nil
      /\ \A k \in 1..L : s[k] = m.car[u[k - 1]]
      /\ \A k \in 0..L : u[k] \in Known(m)
  BY <1>1, <1>4, <1>5, <1>6, <1>7, <1>8, <1>t
<1> QED
  BY <1>9, <1>t DEF s, C

(* j arguments are joined, the last element first.                         *)
Joined(m, u, of, s, j) ==
  /\ s.p = u[j] /\ Same(m, s.m, {})
  /\ Spells(s.m, Taken(m, s.m), s.v, Backwards(of[j]), Nil)

Sums(m, u, M, of) ==
  \A k \in 1..M : of[k] = of[k - 1] \o Items(m, m.car[u[k - 1]])
KnownTo(m, u, L) == \A k \in 0..L : u[k] \in Known(m)

JoinedOrOver(m, u, of, s, j) == s.m.full \/ s.v = "#f" \/ Joined(m, u, of, s, j)
Appending(m, n, u, L, M, of) ==
  /\ m \in Mems /\ n \in Nat /\ Walk(m, u[0], n, u)
  /\ L \in Nat /\ L <= n /\ Onwards(u, L) /\ u[L] = Nil /\ KnownTo(m, u, L)
  /\ M \in Nat /\ M = (IF L = 0 THEN 0 ELSE L - 1)
  /\ of \in [0..M -> Seq(Values)] /\ Sums(m, u, M, of)

LEMMA JoinedTurn ==
  ASSUME NEW m, NEW n, NEW u, NEW L, NEW M, NEW of, Appending(m, n, u, L, M, of),
         NEW s \in Growing(m), ~s.m.full, s.v # "#f", NEW j \in 0..M, Joined(m, u, of, s, j)
  PROVE  LET t == AppendTurn(s)
         IN  /\ j = M => t = s
             /\ j # M => JoinedOrOver(m, u, of, t, j + 1)
<1> m \in Mems /\ n \in Nat /\ L \in Nat /\ L <= n /\ u[L] = Nil
    /\ M \in Nat /\ M = (IF L = 0 THEN 0 ELSE L - 1) /\ of \in [0..M -> Seq(Values)]
  BY DEF Appending
<1> Walk(m, u[0], n, u) /\ Onwards(u, L) /\ KnownTo(m, u, L) /\ Sums(m, u, M, of)
  BY DEF Appending
<1> DEFINE t == AppendTurn(s)
           x == car(s.m, s.p)
           r == revappend(s.m, s.v, x)
<1>1. /\ s.p = u[j] /\ Same(m, s.m, {}) /\ s.m \in Mems /\ s.v \in Known(s.m)
      /\ Spells(s.m, Taken(m, s.m), s.v, Backwards(of[j]), Nil) /\ Strand(m, s.m, s.v)
  BY DEF Joined, Growing, Threes
<1>2. Nil \notin Cells
  BY MemFacts
<1>3. ASSUME NEW i \in 0..(L - 1)
      PROVE  /\ u[i] \in Cells /\ u[i] \in m.used /\ u[i + 1] = m.cdr[u[i]]
             /\ s.m.car[u[i]] = m.car[u[i]] /\ s.m.cdr[u[i]] = u[i + 1]
  <2>1. i \in 0..L /\ i + 1 \in 1..n /\ (i + 1) - 1 = i
    OBVIOUS
  <2>2. u[i] \in Cells /\ u[i] \in Known(m)
    BY <1>3, <2>1 DEF Onwards, KnownTo
  <2>3. u[i] \in m.used
    BY <2>2, MemFacts DEF is_pair
  <2>4. u[i + 1] = m.cdr[u[i]]
    BY <2>1, <2>2 DEF Walk, Onward, is_pair
  <2> QED
    BY <1>1, <2>2, <2>3, <2>4 DEF Same
<1>4. CASE j = M
  <2>1. cdr(s.m, s.p) = Nil
    <3>1. CASE L = 0
      BY <1>1, <1>2, <1>4, <3>1 DEF cdr
    <3>2. CASE L # 0
      <4>1. j \in 0..(L - 1) /\ j + 1 = L
        BY <1>4, <3>2
      <4> QED
        BY <1>1, <1>3, <4>1 DEF cdr
    <3> QED
      BY <3>1, <3>2
  <2>2. t = s
    BY <2>1 DEF AppendTurn
  <2> QED
    BY <1>4, <2>2
<1>5. CASE j # M
  <2>1. L # 0 /\ j \in 0..(L - 1) /\ j + 1 \in 0..(L - 1) /\ j + 1 \in 1..M /\ (j + 1) - 1 = j /\ j \in 0..L
    BY <1>5
  <2>2. u[j] \in Cells /\ cdr(s.m, s.p) = u[j + 1] /\ u[j + 1] # Nil /\ x = m.car[u[j]]
        /\ u[j] \in m.used
    BY <1>1, <1>2, <1>3, <2>1 DEF cdr, car
  <2>3. t = [m |-> r.m, v |-> r.v, p |-> u[j + 1]]
    BY <2>2 DEF AppendTurn, AppendOn
  <2>4. x \in Known(m)
    BY <2>2, MemFacts
  <2>5. of[j] \in Seq(Values) /\ of[j + 1] = of[j] \o Items(m, x)
    BY <2>1, <2>2 DEF Sums
  <2>6. ~r.m.full /\ r.v # "#f" =>
          Spells(r.m, Taken(m, r.m), r.v, Backwards(of[j] \o Items(m, x)), Nil)
    BY <1>1, <2>4, <2>5, RevappendMeant
  <2>7. Same(m, r.m, {})
    <3>1. x \in Known(s.m)
      BY <1>1, <2>4 DEF Same, Known
    <3> QED
      BY <1>1, <3>1, RevappendFacts
  <2> HIDE DEF t, r, x
  <2>8. t.m = r.m /\ t.v = r.v /\ t.p = u[j + 1]
    BY <2>3
  <2>9. t.m.full \/ t.v = "#f" \/ Joined(m, u, of, t, j + 1)
    BY <2>5, <2>6, <2>7, <2>8 DEF Joined
  <2> QED
    BY <1>5, <2>9 DEF JoinedOrOver, t
<1> QED
  BY <1>4, <1>5

LEMMA AppendMeant ==
  ASSUME NEW m \in Mems, NEW y \in Known(m), ProperList(m, y)
  PROVE  LET r == append(m, y)
             s == Items(m, y)
         IN  /\ ~r.m.full /\ r.v # "error" =>
                  /\ s = <<>> => r.v = Nil
                  /\ s # <<>> =>
                       Spells(r.m, Taken(m, r.m), r.v, AllItems(m, Front(s)), s[Len(s)])
<1> DEFINE r == append(m, y)
           s == Items(m, y)
           F == Front(s)
           a == [m |-> m, v |-> Nil, p |-> y]
           e == Loop(AppendTurn, a)
           C == Cardinality(Cells)
<1>1. PICK n \in Nat : \E u : \E L \in 0..C :
        /\ Walk(m, y, n, u) /\ 2 * Turns <= n
        /\ s \in Seq(Values) /\ Len(s) = L /\ L <= n /\ Onwards(u, L) /\ u[L] = Nil
        /\ \A k \in 1..L : s[k] = m.car[u[k - 1]]
        /\ \A k \in 0..L : u[k] \in Known(m)
  BY ListWalk
<1>2. PICK u : \E L \in 0..C :
        /\ Walk(m, y, n, u) /\ 2 * Turns <= n
        /\ s \in Seq(Values) /\ Len(s) = L /\ L <= n /\ Onwards(u, L) /\ u[L] = Nil
        /\ \A k \in 1..L : s[k] = m.car[u[k - 1]]
        /\ \A k \in 0..L : u[k] \in Known(m)
  BY <1>1
<1>3. PICK L \in 0..C :
        /\ Walk(m, y, n, u) /\ 2 * Turns <= n
        /\ s \in Seq(Values) /\ Len(s) = L /\ L <= n /\ Onwards(u, L) /\ u[L] = Nil
        /\ \A k \in 1..L : s[k] = m.car[u[k - 1]]
        /\ \A k \in 0..L : u[k] \in Known(m)
  BY <1>2
<1>t. C \in Nat /\ Turns = C + 1 /\ Turns \in Nat /\ L \in Nat
  BY TurnsFacts
<1> HIDE DEF s, C
<1> DEFINE M == Len(F)
<1>4. /\ F \in Seq(Values) /\ M = (IF L = 0 THEN 0 ELSE L - 1) /\ M \in Nat
      /\ \A k \in 1..(L - 1) : F[k] = s[k]
  <2>1. F \in Seq(Values)
    BY <1>3, FrontFacts
  <2>2. M = IF Len(s) = 0 THEN 0 ELSE Len(s) - 1
    BY <1>3, FrontFacts
  <2>3. \A k \in 1..(Len(s) - 1) : F[k] = s[k]
    BY <1>3, FrontFacts
  <2> QED
    BY <1>3, <1>t, <2>1, <2>2, <2>3
<1> HIDE DEF F
<1>5. PICK of \in [0..M -> Seq(Values)] :
        /\ of[0] = <<>> /\ AllItems(m, F) = of[M]
        /\ \A k \in 1..M : of[k] = of[k - 1] \o Items(m, F[k])
  BY <1>4, AllItemsFacts
<1> HIDE DEF M
<1>6. Sums(m, u, M, of)
  <2> SUFFICES ASSUME NEW k \in 1..M
               PROVE  of[k] = of[k - 1] \o Items(m, m.car[u[k - 1]])
    BY DEF Sums
  <2>1. k \in 1..L /\ k \in 1..(L - 1)
    BY <1>4, <1>t
  <2>2. F[k] = m.car[u[k - 1]]
    BY <1>3, <1>4, <2>1
  <2>3. of[k] = of[k - 1] \o Items(m, F[k])
    BY <1>5
  <2> QED
    BY <2>2, <2>3
<1>7. a \in Growing(m) /\ a.m = m /\ a.v = Nil /\ a.p = y
  <2>1. a \in Threes
    BY ThreeIs, MemFacts
  <2>2. a.m = m /\ a.v = Nil /\ a.p = y
    OBVIOUS
  <2> QED
    BY <2>1, <2>2, StrandStart, MemFacts DEF Growing
<1> HIDE DEF a
<1>8. PICK at \in [0..Turns -> Growing(m)] :
        /\ at[0] = a /\ e = at[Turns]
        /\ \A k \in 1..Turns : at[k] = AppendTurn(at[k - 1])
  BY <1>7, AppendLoop
<1>9. r = IF e.v = "#f" THEN Result(e.m, "error")
          ELSE IF e.m.full THEN Result(e.m, Nil)
          ELSE reverse_in_place(e.m, car(e.m, e.p), e.v)
  BY DEF append, a
<1> HIDE DEF e, r
<1> DEFINE R(q, j) == Joined(m, u, of, q, j)
           Done(q) == q.m.full \/ q.v = "#f"
           G == {k \in 0..Turns : Done(at[k]) \/ \E j \in 0..M : R(at[k], j) /\ (j = k \/ j = M)}
<1>10. R(a, 0)
  <2>1. Nil \in Values /\ Same(m, m, {})
    BY MemFacts DEF Values
  <2>2. Backwards(<<>>) = <<>>
    <3>1. <<>> \in Seq(Values) /\ Len(<<>>) = 0
      BY EmptySeq
    <3>2. Backwards(<<>>) \in Seq(Values) /\ Len(Backwards(<<>>)) = 0
      BY <3>1, BackwardsFacts
    <3> QED
      BY <3>2, EmptySeq
  <2>3. Spells(m, Taken(m, m), Nil, <<>>, Nil)
    BY <2>1, SpellsNone
  <2> QED
    BY <1>3, <1>5, <1>7, <2>1, <2>2, <2>3 DEF Joined, Walk
<1>11. ASSUME NEW q \in Growing(m), ~Done(q), NEW j \in 0..M, R(q, j)
       PROVE  /\ j = M => AppendTurn(q) = q
              /\ j # M => Done(AppendTurn(q)) \/ R(AppendTurn(q), j + 1)
  <2>1. KnownTo(m, u, L) /\ Walk(m, y, n, u) /\ L <= n /\ Onwards(u, L) /\ u[L] = Nil
    BY <1>3 DEF KnownTo
  <2>2. q \in Growing(m) /\ ~q.m.full /\ q.v # "#f" /\ Joined(m, u, of, q, j)
    BY <1>11
  <2>m. M \in Nat /\ M = (IF L = 0 THEN 0 ELSE L - 1) /\ L \in Nat
    BY <1>4, <1>t
  <2> HIDE DEF a, C, e, G, r, R, Done
  <2>3. Appending(m, n, u, L, M, of)
    BY <1>6, <2>1, <2>m DEF Appending, Walk
  <2>4. j = M => AppendTurn(q) = q
    BY <2>2, <2>3, JoinedTurn
  <2>5. j # M => JoinedOrOver(m, u, of, AppendTurn(q), j + 1)
    BY <2>2, <2>3, JoinedTurn
  <2> QED
    BY <2>4, <2>5 DEF JoinedOrOver, R, Done
<1>12. ASSUME NEW q \in Growing(m), Done(q) PROVE AppendTurn(q) = q
  BY <1>12 DEF AppendTurn
<1> HIDE DEF R, Done
<1>13. 0 \in G
  <2>1. 0 \in 0..Turns /\ 0 \in 0..M
    BY <1>4, <1>t
  <2> QED
    BY <1>8, <1>10, <2>1
<1>14. ASSUME NEW k \in 0..Turns, k \in G /\ k < Turns PROVE k + 1 \in G
  <2>1. k + 1 \in 0..Turns /\ k + 1 \in 1..Turns /\ (k + 1) - 1 = k
    BY <1>t, <1>14
  <2>2. at[k + 1] = AppendTurn(at[k]) /\ at[k] \in Growing(m)
    BY <1>8, <2>1
  <2>3. CASE Done(at[k])
    <3>1. at[k + 1] = at[k]
      BY <1>12, <2>2, <2>3
    <3> QED
      BY <2>1, <2>3, <3>1
  <2>4. CASE ~Done(at[k])
    <3>1. PICK j \in 0..M : R(at[k], j) /\ (j = k \/ j = M)
      BY <1>14, <2>4
    <3>2. CASE j = M
      <4>1. at[k + 1] = at[k]
        BY <1>11, <2>2, <2>4, <3>1, <3>2
      <4> QED
        BY <2>1, <3>1, <3>2, <4>1
    <3>3. CASE j # M
      <4>1. j + 1 \in 0..M /\ j + 1 = k + 1
        BY <1>4, <3>1, <3>3
      <4>2. Done(at[k + 1]) \/ R(at[k + 1], j + 1)
        BY <1>11, <2>2, <2>4, <3>1, <3>3
      <4> QED
        BY <2>1, <4>1, <4>2
    <3> QED
      BY <3>2, <3>3
  <2> QED
    BY <2>3, <2>4
<1>15. Done(e) \/ R(e, M)
  <2>1. Turns \in G
    <3> HIDE DEF G
    <3>0. 0 \in Nat
      OBVIOUS
    <3>1. \A k \in 0..Turns : k \in G
      BY <1>13, <1>14, <1>t, <3>0, Upwards
    <3> QED
      BY <1>t, <3>1
  <2> SUFFICES ASSUME ~Done(e) PROVE R(e, M)
    OBVIOUS
  <2>2. PICK j \in 0..M : R(at[Turns], j) /\ (j = Turns \/ j = M)
    BY <1>8, <2>1
  <2>3. j = M
    BY <1>4, <1>t, <2>2
  <2> QED
    BY <1>8, <2>2, <2>3
<1> SUFFICES ASSUME ~r.m.full, r.v # "error"
             PROVE  /\ s = <<>> => r.v = Nil
                    /\ s # <<>> => Spells(r.m, Taken(m, r.m), r.v, AllItems(m, F), s[Len(s)])
  BY DEF r, s, F
<1>16. ~Done(e)
  <2>1. e.v # "#f"
    BY <1>9 DEF Result
  <2>2. ~e.m.full
    BY <1>9, <2>1 DEF Result
  <2> QED
    BY <2>1, <2>2 DEF Done
<1>17. /\ e.p = u[M] /\ Same(m, e.m, {}) /\ Spells(e.m, Taken(m, e.m), e.v, Backwards(of[M]), Nil)
       /\ e.m \in Mems /\ e.p \in Known(e.m) /\ Strand(m, e.m, e.v)
  <2>1. e \in Growing(m)
    BY <1>8, <1>t
  <2> QED
    BY <1>15, <1>16, <2>1 DEF R, Done, Joined, Growing, Threes
<1> DEFINE x == LinkBackwards(e.m, car(e.m, e.p), e.v)
<1>18. r.m = x.m /\ r.v = x.v
  <2>1. r = [m |-> x.m, v |-> x.v]
    BY <1>9, <1>16 DEF reverse_in_place, Result, Done
  <2> HIDE DEF x, r
  <2> QED
    BY <2>1
<1>19. of[M] \in Seq(Values) /\ Backwards(Backwards(of[M])) = of[M]
  <2>1. M \in 0..M
    BY <1>4
  <2>2. of[M] \in Seq(Values)
    BY <2>1
  <2> QED
    BY <2>2, BackwardsFacts
<1>20. Spells(r.m, Taken(m, r.m), r.v, of[M], car(e.m, e.p))
  <2>1. car(e.m, e.p) \in Known(e.m)
    BY <1>17, MemFacts
  <2>2. Spells(x.m, Taken(m, x.m), x.v, Backwards(Backwards(of[M])), car(e.m, e.p))
    BY <1>17, <2>1, LinkMeant
  <2> HIDE DEF x
  <2> QED
    BY <1>18, <1>19, <2>2
<1>21. CASE L = 0
  <2>1. s = <<>>
    BY <1>3, <1>21, EmptySeq
  <2>2. M = 0 /\ car(e.m, e.p) = Nil /\ of[M] = <<>> /\ Nil \notin Cells
    BY <1>3, <1>4, <1>5, <1>17, <1>21, MemFacts DEF car
  <2>3. r.v = Nil
    <3>1. PICK w : w[0] = r.v /\ Chain(r.m, Taken(m, r.m), w, <<>>, Nil)
      BY <1>20, <2>2 DEF Spells
    <3>2. Len(<<>>) = 0
      BY EmptySeq
    <3> QED
      BY <3>1, <3>2 DEF Chain
  <2> QED
    BY <2>1, <2>3
<1>22. CASE L # 0
  <2>1. L \in 1..L /\ M = L - 1 /\ M \in 0..(L - 1) /\ M \in 0..L
    BY <1>4, <1>t, <1>22
  <2>2. s # <<>>
    <3>1. Len(<<>>) = 0
      BY EmptySeq
    <3> QED
      BY <1>3, <1>22, <3>1
  <2>3. u[M] \in Cells /\ u[M] \in Known(m)
    BY <1>3, <2>1 DEF Onwards
  <2>4. u[M] \in m.used
    BY <2>3, MemFacts DEF is_pair
  <2>5. car(e.m, e.p) = m.car[u[M]]
    BY <1>17, <2>3, <2>4 DEF car, Same
  <2>6. s[Len(s)] = m.car[u[M]]
    BY <1>3, <2>1
  <2> QED
    BY <1>5, <1>20, <2>2, <2>5, <2>6
<1> QED
  BY <1>21, <1>22

----------------------------------------------------------------------------
(* list_star.                                                              *)

(* Where its loop is: at the pair j of its list, and nothing is written.   *)
Copying(m, w, s, j) == s \in Twos /\ Same(m, s.m, {}) /\ s.v = w[j]

LEMMA CopyingTurn ==
  ASSUME NEW m \in Mems, NEW L \in Nat, NEW w, w[L] = Nil, KnownTo(m, w, L), Onwards(w, L),
         \A i \in 0..(L - 1) : m.cdr[w[i]] = w[i + 1],
         NEW j \in 0..(L - 2), NEW s, Copying(m, w, s, j), ~s.m.full
  PROVE  LET t == CopyTurn(s)
         IN  /\ j = L - 2 => t = s
             /\ j # L - 2 /\ ~t.m.full => Copying(m, w, t, j + 1)
<1> DEFINE t == CopyTurn(s)
<1>1. s \in Twos /\ s.m \in Mems /\ s.v = w[j] /\ Same(m, s.m, {}) /\ s.v \in Known(s.m)
  BY DEF Copying, Twos
<1>2. j \in 0..(L - 1) /\ j + 1 \in 0..(L - 1) /\ j + 2 \in 0..L /\ (j + 1) + 1 = j + 2
      /\ j \in 0..L /\ j + 1 \in 0..L /\ L \in 0..L
  OBVIOUS
<1>3. Nil \notin Cells
  BY MemFacts
<1>4. ASSUME NEW i \in 0..(L - 1), NEW q \in Mems, Same(m, q, {}) PROVE cdr(q, w[i]) = w[i + 1]
  <2>1. w[i] \in Cells /\ w[i] \in Known(m)
    BY DEF Onwards, KnownTo
  <2>2. w[i] \in m.used
    BY <2>1, MemFacts DEF is_pair
  <2> QED
    BY <1>4, <2>1, <2>2 DEF cdr, Same
<1>5. cdr(s.m, s.v) = w[j + 1] /\ cdr(s.m, cdr(s.m, s.v)) = w[j + 2]
  <2>1. cdr(s.m, w[j]) = w[j + 1]
    BY <1>1, <1>2, <1>4
  <2>2. cdr(s.m, w[j + 1]) = w[(j + 1) + 1]
    BY <1>1, <1>2, <1>4
  <2> QED
    BY <1>1, <1>2, <2>1, <2>2
<1>6. CASE j = L - 2
  <2>1. j + 2 = L
    BY <1>6
  <2> QED
    BY <1>5, <1>6, <2>1 DEF CopyTurn
<1>7. CASE j # L - 2
  <2> DEFINE c == cons(s.m, car(s.m, s.v), w[j + 1])
             v == IF cdr(c.m, cdr(c.m, s.v)) # Nil THEN cdr(c.m, c.v) ELSE s.v
  <2>1. w[j + 2] \in Cells
    <3>1. j + 2 \in 0..(L - 1)
      BY <1>2, <1>7
    <3> QED
      BY <3>1 DEF Onwards
  <2>2. t = [m |-> c.m, v |-> v]
    BY <1>3, <1>5, <1>7, <2>1 DEF CopyTurn, Copied, Result
  <2>3. car(s.m, s.v) \in Known(s.m) /\ w[j + 1] \in Known(s.m)
    BY <1>1, <1>5, MemFacts
  <2>4. /\ c.m \in Mems /\ Same(s.m, c.m, {})
        /\ ~c.m.full => c.v \in Cells \ s.m.used /\ c.m.cdr = [s.m.cdr EXCEPT ![c.v] = w[j + 1]]
    BY <1>1, <2>3, ConsFacts
  <2> HIDE DEF c
  <2>5. Same(m, c.m, {})
    BY <1>1, <2>4, SameTurns
  <2>6. cdr(c.m, cdr(c.m, s.v)) = w[j + 2]
    <3>1. cdr(c.m, w[j]) = w[j + 1]
      BY <1>2, <1>4, <2>4, <2>5
    <3>2. cdr(c.m, w[j + 1]) = w[(j + 1) + 1]
      BY <1>2, <1>4, <2>4, <2>5
    <3> QED
      BY <1>1, <1>2, <3>1, <3>2
  <2>7. v = cdr(c.m, c.v)
    BY <1>3, <2>1, <2>6
  <2> HIDE DEF v, t
  <2>8. t.m = c.m /\ t.v = v
    BY <2>2
  <2> SUFFICES ASSUME ~t.m.full PROVE Copying(m, w, t, j + 1)
    BY <1>7 DEF t
  <2>9. v = w[j + 1]
    <3>1. c.v \in Cells /\ c.m.cdr = [s.m.cdr EXCEPT ![c.v] = w[j + 1]] /\ s.m.cdr \in [Cells -> Values]
      BY <1>1, <2>4, <2>8, MemFacts
    <3> QED
      BY <2>7, <3>1 DEF cdr
  <2>10. t \in Twos
    <3>1. w[j + 1] \in Known(c.m)
      BY <2>3, <2>4 DEF Same, Known
    <3>2. Known(c.m) \subseteq Values
      BY <2>4, MemFacts
    <3> QED
      BY <2>2, <2>4, <2>9, <3>1, <3>2 DEF Twos
  <2> QED
    BY <2>5, <2>8, <2>9, <2>10 DEF Copying
<1> QED
  BY <1>6, <1>7

LEMMA StarMeant ==
  ASSUME NEW m \in Mems, NEW d \in Known(m), ProperList(m, d)
  PROVE  LET r == list_star(m, d)
             s == Items(m, d)
         IN  ~r.m.full => /\ s = <<>> => r.v = Nil
                          /\ s # <<>> => Spells(r.m, Cells, r.v, Front(s), s[Len(s)])
<1> DEFINE r == list_star(m, d)
           s == Items(m, d)
           C == Cardinality(Cells)
<1>1. PICK n \in Nat : \E u : \E L \in 0..C :
        /\ Walk(m, d, n, u) /\ 2 * Turns <= n
        /\ s \in Seq(Values) /\ Len(s) = L /\ L <= n /\ Onwards(u, L) /\ u[L] = Nil
        /\ \A k \in 1..L : s[k] = m.car[u[k - 1]]
        /\ \A k \in 0..L : u[k] \in Known(m)
  BY ListWalk
<1>2. PICK u : \E L \in 0..C :
        /\ Walk(m, d, n, u) /\ 2 * Turns <= n
        /\ s \in Seq(Values) /\ Len(s) = L /\ L <= n /\ Onwards(u, L) /\ u[L] = Nil
        /\ \A k \in 1..L : s[k] = m.car[u[k - 1]]
        /\ \A k \in 0..L : u[k] \in Known(m)
  BY <1>1
<1>3. PICK L \in 0..C :
        /\ Walk(m, d, n, u) /\ 2 * Turns <= n
        /\ s \in Seq(Values) /\ Len(s) = L /\ L <= n /\ Onwards(u, L) /\ u[L] = Nil
        /\ \A k \in 1..L : s[k] = m.car[u[k - 1]]
        /\ \A k \in 0..L : u[k] \in Known(m)
  BY <1>2
<1>t. C \in Nat /\ Turns = C + 1 /\ Turns \in Nat /\ L \in Nat
  BY TurnsFacts
<1>0. Nil \notin Cells /\ u[0] = d /\ Nil \in Values /\ d \in Values
  BY <1>3, MemFacts DEF Walk
<1>4. ASSUME NEW i \in 0..(L - 1)
      PROVE  u[i] \in Cells /\ u[i] \in m.used /\ m.cdr[u[i]] = u[i + 1] /\ m.car[u[i]] = s[i + 1]
  <2>1. i \in 0..L /\ i + 1 \in 1..n /\ (i + 1) - 1 = i /\ i + 1 \in 1..L
    BY <1>3, <1>t
  <2>2. u[i] \in Cells /\ u[i] \in Known(m)
    BY <1>3, <1>4, <2>1 DEF Onwards
  <2>3. u[i] \in m.used
    BY <2>2, MemFacts DEF is_pair
  <2>4. u[i + 1] = Onward(m, u[(i + 1) - 1])
    BY <1>3, <2>1 DEF Walk
  <2>5. m.car[u[i]] = s[i + 1]
    BY <1>3, <2>1
  <2> QED
    BY <2>1, <2>2, <2>3, <2>4, <2>5 DEF Onward, is_pair
<1> HIDE DEF s, C
<1>5. CASE L = 0
  <2>1. s = <<>>
    BY <1>3, <1>5, EmptySeq
  <2>2. d = Nil /\ car(m, d) = Nil /\ cdr(m, d) = Nil
    BY <1>0, <1>3, <1>5 DEF car, cdr
  <2>3. r = [m |-> m, v |-> Nil]
    BY <2>2 DEF list_star, Result
  <2> HIDE DEF r
  <2> QED
    BY <2>1, <2>3 DEF r, s
<1>6. CASE L = 1
  <2>1. 0 \in 0..(L - 1) /\ 0 + 1 = 1
    BY <1>6
  <2>2. u[0] \in Cells /\ m.cdr[u[0]] = u[1] /\ m.car[u[0]] = s[1]
    BY <1>4, <2>1
  <2>3. d \in Cells /\ car(m, d) = s[1] /\ cdr(m, d) = Nil
    BY <1>0, <1>3, <1>6, <2>2 DEF car, cdr
  <2>4. r = [m |-> m, v |-> s[1]]
    BY <2>3 DEF list_star, Result
  <2> HIDE DEF r
  <2>5. r.v = s[1]
    BY <2>4
  <2>6. s[1] \in Values /\ s # <<>>
    <3>1. 1 \in 1..Len(s)
      BY <1>3, <1>6
    <3>2. s[1] \in Values
      BY <1>3, <3>1, ElementOfSeq
    <3>3. Len(s) # 0
      BY <1>3, <1>6
    <3>4. s # <<>>
      BY <3>3, EmptySeq
    <3> QED
      BY <3>2, <3>4
  <2>7. Front(s) = <<>>
    <3>1. Front(s) \in Seq(Values)
      BY <1>3, FrontFacts
    <3>2. Len(Front(s)) = 0
      BY <1>3, <1>6, FrontFacts
    <3> QED
      BY <3>1, <3>2, EmptySeq
  <2>8. Spells(r.m, Cells, s[1], <<>>, s[1])
    BY <2>6, SpellsNone
  <2> QED
    BY <1>3, <1>6, <2>5, <2>6, <2>7, <2>8 DEF r, s
<1>7. CASE L >= 2
  <2>0. 0 \in 0..(L - 1) /\ 1 \in 0..(L - 1) /\ L - 1 \in 0..(L - 1) /\ L - 2 \in 0..(L - 1)
        /\ 0 + 1 = 1 /\ (L - 1) + 1 = L /\ (L - 2) + 1 = L - 1 /\ L - 2 \in Nat
    BY <1>7, <1>t
  <2> DEFINE q == cons(m, car(m, d), cdr(m, d))
             e == Loop(CopyTurn, q)
  <2>1. d \in Cells /\ car(m, d) = s[1] /\ cdr(m, d) = u[1] /\ u[1] \in Cells
    <3>1. u[0] \in Cells /\ m.cdr[u[0]] = u[1] /\ m.car[u[0]] = s[1]
      BY <1>4, <2>0
    <3> QED
      BY <1>0, <1>4, <2>0, <3>1 DEF car, cdr
  <2>2. car(m, d) \in Known(m) /\ cdr(m, d) \in Known(m)
    BY MemFacts
  <2>3. /\ q.m \in Mems /\ q.v \in Known(q.m) /\ Same(m, q.m, {})
        /\ ~q.m.full => /\ q.v \in Cells \ m.used /\ q.m.used = m.used \cup {q.v}
                        /\ q.m.car = [m.car EXCEPT ![q.v] = car(m, d)]
                        /\ q.m.cdr = [m.cdr EXCEPT ![q.v] = cdr(m, d)]
    BY <2>2, ConsFacts
  <2>4. q \in Twos
    <3>1. q = [m |-> q.m, v |-> q.v]
      BY DEF cons
    <3> HIDE DEF q
    <3> QED
      BY <2>3, <3>1, MemFacts DEF Twos
  <2>5. PICK at \in [0..Turns -> Twos] :
          /\ at[0] = q /\ e = at[Turns]
          /\ \A k \in 1..Turns : at[k] = CopyTurn(at[k - 1])
    <3> HIDE DEF q
    <3> QED
      BY <2>4, CopyLoop
  <2>6. r = IF e.m.full THEN e ELSE Result(SetCdr(e.m, e.v, car(e.m, cdr(e.m, e.v))), q.v)
    BY <1>0, <2>1 DEF list_star, Copied
  <2> HIDE DEF q, e, r
  <2> DEFINE w == [k \in 0..L |-> IF k = 0 THEN q.v ELSE u[k]]
  <2>7. ASSUME ~q.m.full
        PROVE  /\ KnownTo(q.m, w, L) /\ Onwards(w, L) /\ w[L] = Nil /\ w[0] = q.v
               /\ \A i \in 0..(L - 1) : q.m.cdr[w[i]] = w[i + 1] /\ q.m.car[w[i]] = s[i + 1]
               /\ Walk(q.m, q.v, L, w)
    <3>1. /\ q.v \in Cells /\ q.v \in q.m.used
          /\ q.m.car[q.v] = s[1] /\ q.m.cdr[q.v] = u[1]
      BY <2>1, <2>3, <2>7, MemFacts
    <3>2. \A i \in 1..(L - 1) : /\ u[i] \in Cells /\ q.m.cdr[u[i]] = u[i + 1]
                                /\ q.m.car[u[i]] = s[i + 1] /\ i \in 0..(L - 1)
      <4>1. \A i \in 1..(L - 1) : i \in 0..(L - 1)
        BY <1>t
      <4> QED
        BY <1>4, <2>3, <4>1 DEF Same
    <3>3. \A i \in 0..(L - 1) : i \in 0..L /\ i + 1 \in 0..L /\ i + 1 # 0 /\ (i # 0 => i \in 1..(L - 1))
      BY <1>t
    <3>4. ASSUME NEW i \in 0..(L - 1)
          PROVE  w[i] \in Cells /\ q.m.cdr[w[i]] = w[i + 1] /\ q.m.car[w[i]] = s[i + 1]
      <4>1. CASE i = 0
        BY <3>1, <3>3, <4>1
      <4>2. CASE i # 0
        BY <3>2, <3>3, <4>2
      <4> QED
        BY <4>1, <4>2
    <3>5. w[L] = Nil /\ w[0] = q.v
      BY <1>3, <1>7, <1>t
    <3>6. KnownTo(q.m, w, L)
      <4>1. \A k \in 0..L : u[k] \in Known(q.m)
        BY <1>3, <2>3 DEF Same, Known
      <4> QED
        BY <2>3, <4>1 DEF KnownTo
    <3>7. w \in [0..L -> Values]
      <4>1. Known(q.m) \subseteq Values
        BY <2>3, MemFacts
      <4> QED
        BY <3>6, <4>1 DEF KnownTo
    <3>8. \A k \in 1..L : w[k] = Onward(q.m, w[k - 1])
      <4>1. \A k \in 1..L : k - 1 \in 0..(L - 1) /\ (k - 1) + 1 = k
        BY <1>t
      <4> HIDE DEF w
      <4> QED
        BY <3>4, <4>1 DEF Onward, is_pair
    <3> HIDE DEF w
    <3> QED
      BY <3>4, <3>5, <3>6, <3>7, <3>8 DEF Walk, Onwards
  <2> HIDE DEF w
  <2> DEFINE R(x, j) == Copying(q.m, w, x, j)
             G == {k \in 0..Turns : at[k].m.full \/
                     \E j \in 0..(L - 2) : R(at[k], j) /\ (j = k \/ j = L - 2)}
  <2>8. ASSUME ~q.m.full PROVE 0 \in G
    <3>1. R(q, 0)
      BY <2>3, <2>4, <2>7, <2>8, MemFacts DEF Copying
    <3>2. 0 \in 0..(L - 2) /\ 0 \in 0..Turns
      BY <2>0, <1>t
    <3> HIDE DEF R
    <3> QED
      BY <2>5, <3>1, <3>2
  <2>9. ASSUME ~q.m.full, NEW x, ~x.m.full, NEW j \in 0..(L - 2), R(x, j)
        PROVE  /\ j = L - 2 => CopyTurn(x) = x
               /\ j # L - 2 /\ ~CopyTurn(x).m.full => R(CopyTurn(x), j + 1)
    BY <1>t, <2>3, <2>7, <2>9, CopyingTurn
  <2> HIDE DEF R
  <2>10. ASSUME ~q.m.full, NEW k \in 0..Turns, k \in G /\ k < Turns PROVE k + 1 \in G
    <3>1. k + 1 \in 0..Turns /\ k + 1 \in 1..Turns /\ (k + 1) - 1 = k
      BY <1>t, <2>10
    <3>2. at[k + 1] = CopyTurn(at[k]) /\ at[k] \in Twos
      BY <2>5, <3>1
    <3>3. CASE at[k].m.full
      <4>1. at[k + 1] = at[k]
        BY <3>2, <3>3, CopyTurnFacts
      <4> QED
        BY <3>1, <3>3, <4>1
    <3>4. CASE ~at[k].m.full
      <4>1. PICK j \in 0..(L - 2) : R(at[k], j) /\ (j = k \/ j = L - 2)
        BY <2>10, <3>4
      <4>2. CASE j = L - 2
        <5>1. at[k + 1] = at[k]
          BY <2>9, <2>10, <3>2, <3>4, <4>1, <4>2
        <5> QED
          BY <3>1, <4>1, <4>2, <5>1
      <4>3. CASE j # L - 2
        <5>1. j + 1 \in 0..(L - 2) /\ j + 1 = k + 1
          BY <2>0, <4>1, <4>3
        <5>2. at[k + 1].m.full \/ R(at[k + 1], j + 1)
          BY <2>9, <2>10, <3>2, <3>4, <4>1, <4>3
        <5> QED
          BY <3>1, <5>1, <5>2
      <4> QED
        BY <4>2, <4>3
    <3> QED
      BY <3>3, <3>4
  <2> SUFFICES ASSUME ~r.m.full PROVE s # <<>> /\ Spells(r.m, Cells, r.v, Front(s), s[L])
    BY <1>3 DEF r, s
  <2>11. ~e.m.full
    BY <2>6
  <2>12. ~q.m.full
    <3> SUFFICES ASSUME q.m.full PROVE FALSE
      OBVIOUS
    <3> DEFINE T == {x \in Twos : x.m.full}
    <3>1. at[0] \in T /\ \A k \in 1..Turns : at[k - 1] \in T => at[k] \in T
      BY <2>4, <2>5, CopyTurnFacts
    <3>2. \A k \in 0..Turns : at[k] \in T
      <4> HIDE DEF T
      <4> QED
        BY <1>t, <3>1, StaysIn
    <3> QED
      BY <1>t, <2>5, <2>11, <3>2
  <2>13. R(e, L - 2)
    <3>1. Turns \in G
      <4> HIDE DEF G
      <4>0. 0 \in Nat
        OBVIOUS
      <4>1. \A k \in 0..Turns : k \in G
        BY <2>8, <2>10, <2>12, <1>t, <4>0, Upwards
      <4> QED
        BY <1>t, <4>1
    <3>2. PICK j \in 0..(L - 2) : R(at[Turns], j) /\ (j = Turns \/ j = L - 2)
      BY <2>5, <2>11, <3>1
    <3>3. j = L - 2
      <4>1. L <= C /\ L \in Nat /\ C \in Nat
        BY <1>t
      <4> QED
        BY <1>t, <3>2, <4>1
    <3> QED
      BY <2>5, <3>2, <3>3
  <2>14. /\ KnownTo(q.m, w, L) /\ Onwards(w, L) /\ w[L] = Nil /\ w[0] = q.v
         /\ \A i \in 0..(L - 1) : q.m.cdr[w[i]] = w[i + 1] /\ q.m.car[w[i]] = s[i + 1]
         /\ Walk(q.m, q.v, L, w)
    BY <2>7, <2>12
  <2>15. /\ e.v = w[L - 2] /\ e.m \in Mems /\ e.v \in Known(e.m)
         /\ \A i \in 0..(L - 1) : /\ w[i] \in Cells /\ e.m.cdr[w[i]] = w[i + 1]
                                  /\ e.m.car[w[i]] = s[i + 1]
    <3>1. e.v = w[L - 2] /\ Same(q.m, e.m, {}) /\ e \in Twos
      BY <2>13 DEF R, Copying
    <3>2. ASSUME NEW i \in 0..(L - 1)
          PROVE  w[i] \in Cells /\ e.m.cdr[w[i]] = w[i + 1] /\ e.m.car[w[i]] = s[i + 1]
      <4>1. i \in 0..L
        BY <1>t
      <4>2. w[i] \in Cells /\ w[i] \in Known(q.m)
        BY <2>14, <4>1 DEF Onwards, KnownTo
      <4>3. w[i] \in q.m.used
        BY <2>3, <4>2, MemFacts DEF is_pair
      <4> QED
        BY <2>14, <3>1, <4>2, <4>3 DEF Same
    <3> QED
      BY <3>1, <3>2 DEF Twos
  <2> DEFINE y == s[L]
             z == SetCdr(e.m, e.v, y)
  <2>16. car(e.m, cdr(e.m, e.v)) = y
    <3>1. e.v \in Cells /\ e.m.cdr[e.v] = w[L - 1]
      BY <2>0, <2>15
    <3>2. w[L - 1] \in Cells /\ e.m.car[w[L - 1]] = s[(L - 1) + 1]
      BY <2>0, <2>15
    <3> QED
      BY <2>0, <3>1, <3>2 DEF car, cdr
  <2>17. r.m = z /\ r.v = q.v
    <3>1. r = [m |-> z, v |-> q.v]
      BY <2>6, <2>11, <2>16 DEF Result
    <3> HIDE DEF z
    <3> QED
      BY <3>1
  <2>18. /\ z.car = e.m.car /\ z.cdr = [e.m.cdr EXCEPT ![w[L - 2]] = y]
         /\ z \in Mems /\ y \in Values
    <3>1. car(e.m, cdr(e.m, e.v)) \in Known(e.m) /\ Known(e.m) \subseteq Values
      BY <2>15, MemFacts
    <3>2. y \in Known(e.m) /\ y \in Values
      BY <2>16, <3>1
    <3> HIDE DEF y
    <3> QED
      BY <2>15, <3>2, SetCdrFacts
  <2> HIDE DEF z, y
  <2>19. \A i \in 0..(L - 3) : w[i] # w[L - 2]
    <3> SUFFICES ASSUME NEW i \in 0..(L - 3), w[i] = w[L - 2] PROVE FALSE
      OBVIOUS
    <3>1. i \in 0..L /\ L - 2 \in 0..L /\ i < L - 2
      BY <1>7, <1>t
    <3>2. \A h \in 0..(L - 2 - 1) : w[h] \in Cells
      <4>1. \A h \in 0..(L - 2 - 1) : h \in 0..(L - 1)
        BY <1>7, <1>t
      <4> QED
        BY <2>15, <4>1
    <3> DEFINE g == L - 2
    <3>3. g \in 0..L /\ i < g /\ w[i] = w[g] /\ \A h \in 0..(g - 1) : w[h] \in Cells
      <4>1. \A h \in 0..(g - 1) : h \in 0..(L - 1)
        BY <1>7, <1>t
      <4> QED
        BY <2>15, <3>1, <4>1
    <3> HIDE DEF g
    <3>4. \A h \in 0..L : w[h] \in Cells
      BY <1>t, <2>3, <2>14, <3>1, <3>3, WalkRepeats
    <3> QED
      BY <1>0, <1>t, <2>14, <3>4
  <2> DEFINE N == L - 1
             F == Front(s)
             x == [k \in 0..N |-> IF k = N THEN y ELSE w[k]]
  <2>20. F \in Seq(Values) /\ Len(F) = N /\ \A k \in 1..N : F[k] = s[k]
    <3>1. F \in Seq(Values)
      BY <1>3, FrontFacts
    <3>2. Len(F) = IF Len(s) = 0 THEN 0 ELSE Len(s) - 1
      BY <1>3, FrontFacts
    <3>3. \A k \in 1..(Len(s) - 1) : F[k] = s[k]
      BY <1>3, FrontFacts
    <3> QED
      BY <1>3, <1>7, <3>1, <3>2, <3>3
  <2>21. /\ x \in [0..N -> Values] /\ x[N] = y /\ x[0] = q.v
         /\ \A k \in 0..(N - 1) : x[k] = w[k]
    <3>1. N \in 0..N /\ 0 \in 0..N /\ 0 # N /\ \A k \in 0..(N - 1) : k \in 0..N /\ k # N
      BY <1>7, <1>t
    <3>2. w \in [0..L -> Values] /\ \A k \in 0..N : k \in 0..L
      BY <1>t, <2>14 DEF Walk
    <3>3. x \in [0..N -> Values]
      BY <2>18, <3>2
    <3> QED
      BY <2>14, <3>1, <3>3
  <2> HIDE DEF x, F
  <2>22. ASSUME NEW k \in 1..N
         PROVE  /\ x[k - 1] \in Cells /\ z.car[x[k - 1]] = F[k] /\ z.cdr[x[k - 1]] = x[k]
    <3>1. k - 1 \in 0..(N - 1) /\ k - 1 \in 0..(L - 1) /\ (k - 1) + 1 = k /\ k \in 1..L
      BY <1>t
    <3>2. x[k - 1] = w[k - 1] /\ w[k - 1] \in Cells /\ e.m.cdr[w[k - 1]] = w[k]
          /\ e.m.car[w[k - 1]] = s[k]
      BY <2>15, <2>21, <3>1
    <3>3. e.m.cdr \in [Cells -> Values]
      BY <2>15, MemFacts
    <3>4. CASE k = N
      <4>1. k - 1 = L - 2
        BY <3>4
      <4>2. z.cdr[w[k - 1]] = y
        BY <2>18, <3>2, <3>3, <4>1
      <4> QED
        BY <2>18, <2>20, <2>21, <3>2, <3>4, <4>2
    <3>5. CASE k # N
      <4>1. k - 1 \in 0..(L - 3) /\ k \in 0..(N - 1)
        BY <1>t, <3>5
      <4>2. w[k - 1] # w[L - 2]
        BY <2>19, <4>1
      <4>3. z.cdr[w[k - 1]] = w[k]
        BY <2>18, <3>2, <3>3, <4>2
      <4> QED
        BY <2>18, <2>20, <2>21, <3>2, <4>1, <4>3
    <3> QED
      BY <3>4, <3>5
  <2> HIDE DEF N
  <2>23. Chain(z, Cells, x, F, y)
    BY <2>20, <2>21, <2>22 DEF Chain
  <2>24. Spells(r.m, Cells, r.v, F, y)
    BY <2>17, <2>20, <2>21, <2>23 DEF Spells
  <2>25. s # <<>>
    BY <1>3, <1>7, EmptySeq
  <2> QED
    BY <2>24, <2>25 DEF F, y
<1>8. L = 0 \/ L = 1 \/ L >= 2
  BY <1>t
<1> QED
  BY <1>5, <1>6, <1>7, <1>8


(* The pairs of a list that is spelled out hold its elements, and are      *)
(* followed by where it ends.                                              *)
LEMMA SpelledPairs ==
  ASSUME NEW m \in Mems, NEW U, NEW v, NEW s, NEW e, Spells(m, U, v, s, e)
  PROVE  /\ e \in Cells => e \in Pairs(m, v)
         /\ e \notin Cells => \A c \in Pairs(m, v) : \E k \in 1..Len(s) : m.car[c] = s[k]
<1>1. PICK w : w[0] = v /\ Chain(m, U, w, s, e)
  BY DEF Spells
<1> DEFINE n == Len(s)
           T == {w[k] : k \in 0..(n - 1)}
<1>2. /\ n \in Nat /\ w \in [0..n -> Values] /\ w[n] = e
      /\ \A k \in 1..n : w[k - 1] \in Cells /\ m.car[w[k - 1]] = s[k] /\ m.cdr[w[k - 1]] = w[k]
  BY <1>1 DEF Spells, Chain
<1> HIDE DEF n
<1>3. ASSUME e \in Cells PROVE e \in Pairs(m, v)
  <2> DEFINE P == Pairs(m, v)
             F == {k \in 0..n : w[k] \in Cells => w[k] \in P}
  <2>1. /\ v \in Cells => v \in P
        /\ \A c \in P : m.cdr[c] \in Cells => m.cdr[c] \in P
    BY PairsFacts
  <2> HIDE DEF P
  <2>2. 0 \in F /\ 0 \in Nat
    BY <1>1, <1>2, <2>1
  <2>3. \A k \in 0..n : k \in F /\ k < n => k + 1 \in F
    <3> SUFFICES ASSUME NEW k \in 0..n, k \in F, k < n PROVE k + 1 \in F
      OBVIOUS
    <3>1. k + 1 \in 1..n /\ k + 1 \in 0..n /\ (k + 1) - 1 = k
      BY <1>2
    <3>2. w[k] \in Cells /\ m.cdr[w[k]] = w[k + 1]
      BY <1>2, <3>1
    <3> QED
      BY <2>1, <3>1, <3>2
  <2> HIDE DEF F
  <2>4. \A k \in 0..n : k \in F
    BY <1>2, <2>2, <2>3, Upwards
  <2>5. n \in 0..n
    BY <1>2
  <2>6. n \in F
    BY <2>4, <2>5
  <2> QED
    BY <1>2, <1>3, <2>6 DEF F, P
<1>4. ASSUME e \notin Cells PROVE \A c \in Pairs(m, v) : \E k \in 1..n : m.car[c] = s[k]
  <2>1. T \in SUBSET Cells
    <3> SUFFICES ASSUME NEW k \in 0..(n - 1) PROVE w[k] \in Cells
      OBVIOUS
    <3>1. k + 1 \in 1..n /\ (k + 1) - 1 = k
      BY <1>2
    <3>2. w[(k + 1) - 1] \in Cells
      BY <1>2, <3>1
    <3> QED
      BY <3>1, <3>2
  <2>2. v \in Cells => v \in T
    <3>1. n # 0 => 0 \in 0..(n - 1)
      BY <1>2
    <3> QED
      BY <1>1, <1>2, <1>4, <3>1
  <2>3. \A c \in T : /\ \E k \in 1..n : m.car[c] = s[k]
                     /\ m.cdr[c] \in Cells => m.cdr[c] \in T
    <3> SUFFICES ASSUME NEW k \in 0..(n - 1)
                 PROVE  /\ \E j \in 1..n : m.car[w[k]] = s[j]
                        /\ m.cdr[w[k]] \in Cells => m.cdr[w[k]] \in T
      OBVIOUS
    <3>1. k + 1 \in 1..n /\ (k + 1) - 1 = k /\ (k + 1 \in 0..(n - 1) \/ k + 1 = n)
      BY <1>2
    <3>2. m.car[w[k]] = s[k + 1] /\ m.cdr[w[k]] = w[k + 1]
      BY <1>2, <3>1
    <3> QED
      BY <1>2, <1>4, <3>1, <3>2
  <2> HIDE DEF T
  <2>4. Pairs(m, v) \subseteq T
    BY <2>1, <2>2, <2>3, PairsFacts
  <2> QED
    BY <2>3, <2>4
<1> QED
  BY <1>3, <1>4 DEF n

(* What the program reaches is the same as long as those cells are.        *)
LEMMA HeldSame ==
  ASSUME NEW m \in Mems, NEW n \in Mems, NEW h \in [Vars -> Known(m)], h \in [Vars -> Known(n)],
         \A c \in HeldCells(m, h) : n.car[c] = m.car[c] /\ n.cdr[c] = m.cdr[c]
  PROVE  HeldCells(n, h) = HeldCells(m, h)
<1> DEFINE H == HeldCells(m, h)
           G == HeldCells(n, h)
<1>1. /\ \A x \in Vars : h[x] \in Cells => h[x] \in H
      /\ \A c \in H : /\ m.car[c] \in Cells => m.car[c] \in H
                      /\ m.cdr[c] \in Cells => m.cdr[c] \in H
  BY HeldFacts
<1>2. /\ \A x \in Vars : h[x] \in Cells => h[x] \in G
      /\ \A c \in G : /\ n.car[c] \in Cells => n.car[c] \in G
                      /\ n.cdr[c] \in Cells => n.cdr[c] \in G
  BY HeldFacts
<1>3. \A c \in H : n.car[c] = m.car[c] /\ n.cdr[c] = m.cdr[c]
  OBVIOUS
<1> HIDE DEF H, G
<1>4. G \subseteq H
  <2>1. \A c \in H : /\ n.car[c] \in Cells => n.car[c] \in H
                     /\ n.cdr[c] \in Cells => n.cdr[c] \in H
    BY <1>1, <1>3
  <2> QED
    BY <1>1, <2>1, HeldFacts DEF G
<1>5. H \subseteq G
  <2>1. \A c \in G : /\ m.car[c] \in Cells => m.car[c] \in G
                     /\ m.cdr[c] \in Cells => m.cdr[c] \in G
    BY <1>2, <1>3, <1>4
  <2> QED
    BY <1>2, <2>1, HeldFacts DEF H
<1> QED
  BY <1>4, <1>5 DEF G, H

(* An opcode runs on arguments that suit it; and unless apply was given    *)
(* the program's own list, the pairs of the arguments hold only atoms and  *)
(* what the program reaches.                                               *)
ReadyInv == stage = "run" => Suitable(op, mem, args)
CarsInv == stage \in {"apply", "check", "run"} /\ given = {} =>
             \A c \in Pairs(mem, args) : mem.car[c] \in Atoms \cup HeldCells(mem, held)
CallInv == RegistersInv /\ ReadyInv /\ CarsInv

LEMMA CallCars ==
  ASSUME RegistersInv, NEW f, NEW n \in Nat, NEW s,
         s \in [1..n -> Atoms \cup HeldCells(mem, held)], Call(f, s)
  PROVE  ReadyInv' /\ CarsInv'
<1> DEFINE l == ListOf(mem, s)
           H == HeldCells(mem, held)
           R == Atoms \cup H
<1>1. mem \in Mems /\ held \in [Vars -> Known(mem)] /\ H \subseteq mem.used
  BY HeldFacts DEF RegistersInv, MemoryInv
<1>2. R \subseteq Known(mem) /\ s \in [1..n -> R]
  BY <1>1 DEF Known
<1> HIDE DEF H, R
<1>3. Strand(mem, l.m, l.v) /\ \A c \in Taken(mem, l.m) : l.m.car[c] \in R
  BY <1>1, <1>2, ListOfCars
<1>4. CASE l.m.full
  <2>1. stage' = "stopped"
    BY <1>4 DEF Call
  <2> QED
    BY <2>1 DEF ReadyInv, CarsInv
<1>5. CASE ~l.m.full
  <2>1. stage' = "apply" /\ mem' = l.m /\ args' = l.v /\ held' = held
    BY <1>5 DEF Call
  <2> HIDE DEF l
  <2>2. mem' \in Mems /\ Same(mem, mem', {}) /\ Pairs(mem', args') \subseteq Taken(mem, mem')
    <3>1. Pairs(l.m, l.v) \subseteq Taken(mem, l.m)
      BY <1>1, <1>3, StrandPairs
    <3> QED
      BY <1>3, <2>1, <3>1 DEF Strand
  <2>3. held \in [Vars -> Known(mem')]
    BY <1>1, <2>2 DEF Same, Known
  <2>4. \A c \in HeldCells(mem, held) : mem'.car[c] = mem.car[c] /\ mem'.cdr[c] = mem.cdr[c]
    BY <1>1, <2>2 DEF Same, H
  <2>5. HeldCells(mem', held) = H
    BY <1>1, <2>2, <2>3, <2>4, HeldSame DEF H
  <2>6. \A c \in Pairs(mem', args') : mem'.car[c] \in Atoms \cup HeldCells(mem', held')
    BY <1>3, <2>1, <2>2, <2>5 DEF R
  <2> QED
    BY <2>1, <2>6 DEF ReadyInv, CarsInv
<1> QED
  BY <1>4, <1>5

(* What ResultsMeant says of a result: v is, in n, the list of the elements *)
(* of s before what e was in m.                                            *)
ListBefore(m, n, v, s, e) ==
  IF Circular(m, e) THEN Circular(n, v)
  ELSE /\ Items(n, v) = s \o Items(m, e)
       /\ End(n, v) = End(m, e)
Intact(m, n, K) ==
  \A c \in K : c \in Cells =>
    /\ n.car[c] = m.car[c] /\ n.cdr[c] = m.cdr[c]
    /\ m.cdr[c] \in Cells => m.cdr[c] \in K

LEMMA SpellsList ==
  ASSUME NEW m \in Mems, NEW n \in Mems, NEW U, NEW K, NEW v, NEW s, NEW e,
         Spells(n, U, v, s, e), e \in Cells => e \in K, Intact(m, n, K)
  PROVE  ListBefore(m, n, v, s, e) /\ (Circular(n, v) => Circular(m, e))
<1>1. \A c \in K : c \in Cells =>
        /\ n.car[c] = m.car[c] /\ n.cdr[c] = m.cdr[c]
        /\ m.cdr[c] \in Cells => m.cdr[c] \in K
  BY DEF Intact
<1>2. /\ Circular(m, e) => Circular(n, v)
      /\ ~Circular(m, e) => /\ ~Circular(n, v) /\ Items(n, v) = s \o Items(m, e)
                            /\ End(n, v) = End(m, e)
  BY <1>1, SpellsItems
<1> QED
  BY <1>2 DEF ListBefore

(* A list that is a pair, and its rest; and one that is not.               *)
LEMMA ListSplit ==
  ASSUME NEW m \in Mems, NEW v \in Known(m), ProperList(m, v)
  PROVE  /\ v \in Cells => /\ ProperList(m, m.cdr[v])
                           /\ Items(m, v) = Before(m.car[v], Items(m, m.cdr[v]))
         /\ v \notin Cells => Items(m, v) = <<>>
<1>1. CASE v \in Cells
  <2> DEFINE d == m.cdr[v]
  <2>1. d \in Values /\ m.car[v] \in Values
    BY <1>1, MemFacts
  <2>2. Spells(m, Cells, d, <<>>, d)
    BY <2>1, SpellsNone
  <2>3. Spells(m, Cells, v, Before(m.car[v], <<>>), d)
    BY <1>1, <2>2, SpellsMore
  <2>4. Intact(m, m, Cells)
    BY DEF Intact
  <2>5. /\ ListBefore(m, m, v, Before(m.car[v], <<>>), d)
        /\ Circular(m, v) => Circular(m, d)
        /\ d \in Cells => d \in Cells
    BY <2>3, <2>4, SpellsList
  <2>6. ProperList(m, d) /\ Items(m, v) = Before(m.car[v], <<>>) \o Items(m, d)
    BY <2>5 DEF ProperList, ListBefore
  <2>7. Items(m, d) \in Seq(Values)
    BY <2>1, ItemsFacts
  <2> HIDE DEF d
  <2>8. Before(m.car[v], <<>>) \o Items(m, d) = Before(m.car[v], Items(m, d))
    <3>1. <<m.car[v]>> \in Seq(Values)
      BY <2>1
    <3>2. <<m.car[v]>> \o <<>> = <<m.car[v]>>
      BY <3>1, ConcatEmptySeq
    <3> QED
      BY <3>2 DEF Before
  <2> QED
    BY <1>1, <2>6, <2>8 DEF d
<1>2. CASE v \notin Cells
  <2> DEFINE s == Items(m, v)
             C == Cardinality(Cells)
  <2>1. PICK n \in Nat : \E u : \E L \in 0..C :
          /\ Walk(m, v, n, u) /\ 2 * Turns <= n
          /\ s \in Seq(Values) /\ Len(s) = L /\ L <= n /\ Onwards(u, L) /\ u[L] = Nil
          /\ \A k \in 1..L : s[k] = m.car[u[k - 1]]
          /\ \A k \in 0..L : u[k] \in Known(m)
    BY ListWalk
  <2>u. PICK u : \E L \in 0..C :
          /\ Walk(m, v, n, u) /\ s \in Seq(Values) /\ Len(s) = L /\ Onwards(u, L)
    BY <2>1
  <2>2. PICK L \in 0..C : Walk(m, v, n, u) /\ s \in Seq(Values) /\ Len(s) = L /\ Onwards(u, L)
    BY <2>u
  <2> HIDE DEF s
  <2>3. L = 0
    <3>1. u[0] = v /\ L \in Nat
      BY <2>2, TurnsFacts DEF Walk
    <3>2. L # 0 => 0 \in 0..(L - 1)
      BY <3>1
    <3> QED
      BY <1>2, <2>2, <3>1, <3>2 DEF Onwards
  <2> QED
    BY <1>2, <2>2, <2>3, EmptySeq DEF s
<1> QED
  BY <1>1, <1>2

(* The elements of a list are what its pairs hold.                         *)
LEMMA ItemsOfPairs ==
  ASSUME NEW m \in Mems, NEW v \in Known(m), ProperList(m, v)
  PROVE  \A k \in 1..Len(Items(m, v)) : \E c \in Pairs(m, v) : Items(m, v)[k] = m.car[c]
<1> DEFINE s == Items(m, v)
           P == Pairs(m, v)
           C == Cardinality(Cells)
<1>0. PICK n \in Nat : \E u : \E L \in 0..C :
        /\ Walk(m, v, n, u) /\ 2 * Turns <= n
        /\ s \in Seq(Values) /\ Len(s) = L /\ L <= n /\ Onwards(u, L) /\ u[L] = Nil
        /\ \A k \in 1..L : s[k] = m.car[u[k - 1]]
        /\ \A k \in 0..L : u[k] \in Known(m)
  BY ListWalk
<1>u. PICK u : \E L \in 0..C :
        /\ Walk(m, v, n, u) /\ Len(s) = L /\ L <= n /\ Onwards(u, L)
        /\ \A k \in 1..L : s[k] = m.car[u[k - 1]]
  BY <1>0
<1>1. PICK L \in 0..C :
        /\ Walk(m, v, n, u) /\ Len(s) = L /\ L <= n /\ Onwards(u, L)
        /\ \A k \in 1..L : s[k] = m.car[u[k - 1]]
  BY <1>u
<1>2. L \in Nat /\ u[0] = v /\ \A k \in 1..n : u[k] = Onward(m, u[k - 1])
  BY <1>1, TurnsFacts DEF Walk
<1>3. /\ v \in Cells => v \in P
      /\ \A c \in P : m.cdr[c] \in Cells => m.cdr[c] \in P
  BY PairsFacts
<1> HIDE DEF s, P
<1> DEFINE F == {k \in 0..L : k < L => u[k] \in P}
<1>4. 0 \in F /\ 0 \in Nat
  <2>1. 0 < L => 0 \in 0..(L - 1)
    BY <1>2
  <2>2. 0 < L => u[0] \in P
    BY <1>1, <1>2, <1>3, <2>1 DEF Onwards
  <2> QED
    BY <1>2, <2>2
<1>5. \A k \in 0..L : k \in F /\ k < L => k + 1 \in F
  <2> SUFFICES ASSUME NEW k \in 0..L, k \in F, k < L PROVE k + 1 \in F
    OBVIOUS
  <2>1. /\ k + 1 \in 0..L /\ k \in 0..(L - 1) /\ k + 1 \in 1..n /\ (k + 1) - 1 = k
        /\ k + 1 < L => k + 1 \in 0..(L - 1)
    BY <1>1, <1>2
  <2>2. u[k] \in P /\ u[k] \in Cells /\ u[k + 1] = Onward(m, u[k])
    BY <1>1, <1>2, <2>1 DEF Onwards
  <2>3. u[k + 1] = m.cdr[u[k]]
    BY <2>2 DEF Onward, is_pair
  <2>4. k + 1 < L => u[k + 1] \in Cells
    BY <1>1, <2>1 DEF Onwards
  <2> QED
    BY <1>3, <2>1, <2>2, <2>3, <2>4
<1> HIDE DEF F
<1>6. \A k \in 0..L : k \in F
  BY <1>2, <1>4, <1>5, Upwards
<1>7. \A k \in 1..L : u[k - 1] \in P
  <2> SUFFICES ASSUME NEW k \in 1..L PROVE u[k - 1] \in P
    OBVIOUS
  <2>1. k - 1 \in 0..L /\ k - 1 < L
    BY <1>2
  <2>2. k - 1 \in F
    BY <1>6, <2>1
  <2> QED
    BY <2>1, <2>2 DEF F
<1> QED
  BY <1>1, <1>7 DEF s, P

(* A list that is no pair is ().                                           *)
LEMMA NotAPair ==
  ASSUME NEW m \in Mems, NEW v \in Known(m), ProperList(m, v), v \notin Cells
  PROVE  v = Nil
<1> DEFINE C == Cardinality(Cells)
           s == Items(m, v)
<1>1. PICK n \in Nat : \E u : \E L \in 0..C :
        /\ Walk(m, v, n, u) /\ 2 * Turns <= n
        /\ s \in Seq(Values) /\ Len(s) = L /\ L <= n /\ Onwards(u, L) /\ u[L] = Nil
        /\ \A k \in 1..L : s[k] = m.car[u[k - 1]]
        /\ \A k \in 0..L : u[k] \in Known(m)
  BY ListWalk
<1>2. PICK u : \E L \in 0..C : Walk(m, v, n, u) /\ Onwards(u, L) /\ u[L] = Nil
  BY <1>1
<1>3. PICK L \in 0..C : Walk(m, v, n, u) /\ Onwards(u, L) /\ u[L] = Nil
  BY <1>2
<1>4. L \in Nat /\ u[0] = v
  BY <1>3, TurnsFacts DEF Walk
<1>5. L # 0 => 0 \in 0..(L - 1)
  BY <1>4
<1> QED
  BY <1>3, <1>4, <1>5 DEF Onwards

LEMMA CallsCars ==
  ASSUME RegistersInv, Calls
  PROVE  ReadyInv' /\ CarsInv'
<1> DEFINE K == Atoms \cup HeldCells(mem, held)
<1>1. Operands \subseteq K /\ Procedures \subseteq K /\ \A y \in Vars : held[y] \in K
  <2>1. \A x \in Vars : held[x] \in Cells => held[x] \in HeldCells(mem, held)
    BY HeldFacts DEF RegistersInv, MemoryInv
  <2>2. \A x \in Vars : held[x] \in Cells \cup Atoms
    BY MemFacts DEF RegistersInv, MemoryInv, Values
  <2> QED
    BY <2>1, <2>2 DEF Operands, Atoms
<1> HIDE DEF K
<1>2. CASE \E f \in Procedures \ {"apply"}, n \in 0 .. 3 :
             \E s \in [1 .. n -> Operands] : (n = 3 => f = "list") /\ Call(f, s)
  <2>1. PICK f \in Procedures, n \in 0 .. 3 : \E s \in [1 .. n -> Operands] : Call(f, s)
    BY <1>2
  <2>2. PICK s \in [1 .. n -> Operands] : Call(f, s)
    BY <2>1
  <2>3. s \in [1 .. n -> K] /\ n \in Nat
    BY <1>1
  <2> QED
    BY <2>2, <2>3, CallCars DEF K
<1>3. CASE \E g \in Procedures, x \in Operands :
             \/ Call("apply", <<g, x>>)
             \/ \E y \in Vars : Call("apply", <<g, x, held[y]>>)
  <2>1. PICK g \in Procedures, x \in Operands :
             \/ Call("apply", <<g, x>>)
             \/ \E y \in Vars : Call("apply", <<g, x, held[y]>>)
    BY <1>3
  <2>2. <<g, x>> \in [1 .. 2 -> K] /\ \A z \in K : <<g, x, z>> \in [1 .. 3 -> K]
    BY <1>1
  <2>3. CASE Call("apply", <<g, x>>)
    BY <2>2, <2>3, CallCars DEF K
  <2>4. CASE \E y \in Vars : Call("apply", <<g, x, held[y]>>)
    <3>1. PICK y \in Vars : Call("apply", <<g, x, held[y]>>)
      BY <2>4
    <3>2. <<g, x, held[y]>> \in [1 .. 3 -> K]
      BY <1>1, <2>2
    <3> QED
      BY <3>1, <3>2, CallCars DEF K
  <2> QED
    BY <2>1, <2>3, <2>4
<1> QED
  BY <1>2, <1>3 DEF Calls

(* apply: the last argument becomes the tail of the list.  It is an atom,  *)
(* or that list would be the program's.                                    *)
LEMMA PApplyCars ==
  ASSUME CallInv, PApply
  PROVE  ReadyInv' /\ CarsInv'
<1> DEFINE d == cdr(mem, args)
           l == list_star(mem, d)
           H == HeldCells(mem, held)
           R == Atoms \cup H
<1>1. /\ mem \in Mems /\ held \in [Vars -> Known(mem)] /\ args \in Known(mem)
      /\ Pairs(mem, args) \cap H \subseteq given /\ d \in Known(mem)
      /\ stage = "run" /\ op = "apply" /\ ProperList(mem, args)
  BY MemFacts DEF CallInv, ReadyInv, RegistersInv, MemoryInv, ArgumentsInv, PApply, Suitable
<1>2. /\ l.m \in Mems /\ l.v \in Known(l.m) /\ Same(mem, l.m, Pairs(mem, d))
  BY <1>1, ListStarFacts
<1>3. ProperList(mem, d)
  <2>1. CASE args \in Cells
    <3>1. d = mem.cdr[args]
      BY <2>1 DEF cdr
    <3>2. ProperList(mem, mem.cdr[args])
      BY <1>1, <2>1, ListSplit
    <3> QED
      BY ONLY <3>1, <3>2
  <2>2. CASE args \notin Cells
    <3>1. args = Nil
      BY <1>1, <2>2, NotAPair
    <3>2. d = Nil
      BY <2>2 DEF cdr
    <3> QED
      BY <1>1, <3>1, <3>2
  <2> QED
    BY <2>1, <2>2
<1>4. Pairs(mem, d) \subseteq Pairs(mem, args)
  <2> DEFINE P == Pairs(mem, args)
  <2>1. /\ P \in SUBSET Cells /\ (args \in Cells => args \in P)
        /\ \A c \in P : mem.cdr[c] \in Cells => mem.cdr[c] \in P
    BY <1>1, PairsFacts
  <2>2. d \in Cells => d \in P
    BY <2>1, CellsAssumption DEF cdr, Atoms
  <2> HIDE DEF P, d
  <2> QED
    BY <1>1, <2>1, <2>2, PairsFacts DEF P
<1>5. CASE l.m.full
  <2>1. stage' = "stopped"
    BY <1>5 DEF PApply, Returns
  <2> QED
    BY <2>1 DEF ReadyInv, CarsInv
<1>6. CASE ~l.m.full
  <2>1. /\ mem' = l.m /\ args' = l.v /\ stage' = "apply" /\ held' = held
        /\ given' = given \cup (Pairs(l.m, l.v) \cap H)
    BY <1>6 DEF PApply
  <2>2. SUFFICES ASSUME given' = {}, NEW c \in Pairs(mem', args')
                 PROVE  mem'.car[c] \in Atoms \cup HeldCells(mem', held')
    BY <2>1 DEF ReadyInv, CarsInv
  <2>3. Pairs(l.m, l.v) \cap H = {} /\ given = {}
    BY <2>1, <2>2
  <2>4. \A b \in Pairs(mem, args) : mem.car[b] \in R
    BY <1>1, <2>3 DEF CallInv, CarsInv
  <2> HIDE DEF l, d, R
  <2>5. HeldCells(mem', held') = H
    <3>1. H \subseteq mem.used /\ H \cap Pairs(mem, d) = {}
      BY <1>1, <1>4, <2>3, HeldFacts
    <3>2. mem' \in Mems /\ held \in [Vars -> Known(mem')]
      BY <1>1, <1>2, <2>1 DEF Same, Known
    <3>3. \A b \in H : mem'.car[b] = mem.car[b] /\ mem'.cdr[b] = mem.cdr[b]
      BY <1>2, <2>1, <3>1 DEF Same
    <3>4. HeldCells(mem', held) = HeldCells(mem, held)
      BY <1>1, <3>2, <3>3, HeldSame
    <3> QED
      BY <2>1, <3>4
  <2> DEFINE s == Items(mem, d)
  <2>6. \A k \in 1..Len(s) : s[k] \in R
    <3>1. \A k \in 1..Len(s) : \E b \in Pairs(mem, d) : s[k] = mem.car[b]
      BY <1>1, <1>3, ItemsOfPairs
    <3> QED
      BY <1>4, <2>4, <3>1
  <2>7. s \in Seq(Values)
    <3>1. d \in Values
      BY <1>1, MemFacts
    <3> QED
      BY <1>1, <3>1, ItemsFacts
  <2>8. /\ s = <<>> => l.v = Nil
        /\ s # <<>> => Spells(l.m, Cells, l.v, Front(s), s[Len(s)])
    BY <1>1, <1>3, <1>6, StarMeant DEF l
  <2> HIDE DEF s
  <2>9. s # <<>>
    <3>1. Pairs(l.m, Nil) \subseteq {}
      <4> DEFINE none == {}
      <4>1. Nil \notin Cells
        BY <1>1, MemFacts
      <4>2. /\ none \in SUBSET Cells
            /\ \A b \in none : l.m.cdr[b] \in Cells => l.m.cdr[b] \in none
        OBVIOUS
      <4>3. none = {}
        OBVIOUS
      <4> HIDE DEF none
      <4>4. Pairs(l.m, Nil) \subseteq none
        BY <1>2, <4>1, <4>2, PairsFacts
      <4> QED
        BY <4>3, <4>4
    <3> QED
      BY <2>1, <2>8, <3>1
  <2>10. Len(s) \in Nat \ {0}
    BY <2>7, <2>9, EmptySeq
  <2> DEFINE e == s[Len(s)]
  <2>11. e \in R /\ Spells(l.m, Cells, l.v, Front(s), e)
    BY <2>6, <2>8, <2>9, <2>10
  <2> HIDE DEF e
  <2>12. /\ e \in Cells => e \in Pairs(l.m, l.v)
         /\ e \notin Cells => \A b \in Pairs(l.m, l.v) : \E k \in 1..Len(Front(s)) : l.m.car[b] = Front(s)[k]
    BY <1>2, <2>11, SpelledPairs
  <2>13. e \notin Cells
    BY <2>3, <2>11, <2>12, CellsAssumption DEF R
  <2>14. PICK k \in 1..Len(Front(s)) : l.m.car[c] = Front(s)[k]
    BY <2>1, <2>12, <2>13
  <2>15. k \in 1..(Len(s) - 1) /\ k \in 1..Len(s) /\ Front(s)[k] = s[k]
    BY <2>7, <2>10, FrontFacts
  <2> QED
    BY <2>1, <2>5, <2>6, <2>14, <2>15 DEF R
<1> QED
  BY <1>5, <1>6

LEMMA CallInvStep ==
  ASSUME CallInv, [PrimitivesNext]_primitivesVars
  PROVE  CallInv'
<1>1. RegistersInv'
  BY RegistersStep DEF CallInv
<1> SUFFICES ReadyInv' /\ CarsInv'
  BY <1>1 DEF CallInv
<1>2. CASE Calls
  BY <1>2, CallsCars DEF CallInv
<1>3. CASE Apply
  <2>1. \/ stage = "apply" /\ stage' = "check" /\ UNCHANGED <<mem, held, args, given>>
        \/ stage' \in {"value", "program"}
    BY <1>3 DEF Apply, Fails
  <2> QED
    BY <2>1 DEF CallInv, ReadyInv, CarsInv
<1>4. CASE Check
  <2>1. \/ /\ stage = "check" /\ stage' = "run" /\ ArgumentsOK(mem, op, args)
           /\ UNCHANGED <<mem, held, op, args, given>>
        \/ stage' = "program"
    BY <1>4 DEF Check, Fails
  <2>2. CASE stage' = "run" /\ stage = "check" /\ UNCHANGED <<mem, held, op, args, given>>
             /\ ArgumentsOK(mem, op, args)
    <3>1. mem \in Mems /\ args \in Values /\ op \in Procedures \ {"list"}
      BY <2>2, MemFacts DEF CallInv, RegistersInv, MemoryInv, ArgumentsInv
    <3>2. Suitable(op, mem, args)
      BY <2>2, <3>1, CheckFacts
    <3> QED
      BY <2>2, <3>2 DEF CallInv, ReadyInv, CarsInv
  <2>3. CASE stage' = "program"
    BY <2>3 DEF ReadyInv, CarsInv
  <2> QED
    BY <2>1, <2>2, <2>3
<1>5. CASE RunOpcode
  <2>1. stage' \in {"stopped", "program", "value"}
    BY <1>5 DEF RunOpcode, Returns, Fails
  <2> QED
    BY <2>1 DEF ReadyInv, CarsInv
<1>6. CASE PApply
  BY <1>6, PApplyCars
<1>7. CASE Drop \/ \E x \in Vars : Store(x)
  <2>1. stage' = "program"
    BY <1>7 DEF Drop, Fails, Store
  <2> QED
    BY <2>1 DEF ReadyInv, CarsInv
<1>8. CASE UNCHANGED primitivesVars
  <2>1. UNCHANGED <<mem, held, stage, op, args, given>>
    BY <1>8 DEF primitivesVars
  <2> QED
    BY <2>1 DEF CallInv, ReadyInv, CarsInv
<1> QED
  BY <1>2, <1>3, <1>4, <1>5, <1>6, <1>7, <1>8 DEF PrimitivesNext

----------------------------------------------------------------------------
(* The first element of a list, and the others.                            *)
LEMMA FirstItem ==
  ASSUME NEW m \in Mems, NEW v \in Known(m), ProperList(m, v), Len(Items(m, v)) >= 1
  PROVE  LET d == cdr(m, v)
         IN  /\ v \in Cells /\ Items(m, v)[1] = car(m, v)
             /\ d \in Known(m) /\ ProperList(m, d)
             /\ Len(Items(m, d)) = Len(Items(m, v)) - 1
             /\ Len(Items(m, v)) >= 2 => Items(m, d)[1] = Items(m, v)[2]
<1> DEFINE d == cdr(m, v)
           s == Items(m, v)
           t == Items(m, d)
<1>1. v \in Cells
  <2>1. v \notin Cells => s = <<>>
    BY ListSplit
  <2>2. Len(<<>>) = 0
    BY EmptySeq
  <2> HIDE DEF s
  <2>3. Len(s) >= 1
    BY DEF s
  <2> QED
    BY <2>1, <2>2, <2>3
<1>2. d = m.cdr[v] /\ car(m, v) = m.car[v] /\ d \in Known(m) /\ car(m, v) \in Values
  <2>1. d \in Known(m) /\ car(m, v) \in Known(m) /\ Known(m) \subseteq Values
    BY MemFacts
  <2> QED
    BY <1>1, <2>1 DEF car, cdr
<1>3. ProperList(m, m.cdr[v]) /\ s = Before(m.car[v], Items(m, m.cdr[v]))
  BY <1>1, ListSplit
<1>4. d \in Values
  BY <1>2, MemFacts
<1>5. t \in Seq(Values)
  BY <1>4, ItemsFacts
<1>6. ProperList(m, d) /\ s = Before(car(m, v), t)
  BY <1>2, <1>3
<1> HIDE DEF d, s, t
<1>7. Len(s) = Len(t) + 1 /\ s[1] = car(m, v) /\ (Len(s) >= 2 => s[2] = t[1])
  BY <1>2, <1>5, <1>6 DEF Before
<1>8. Len(t) = Len(s) - 1
  BY <1>5, <1>7
<1> QED
  BY <1>1, <1>2, <1>6, <1>7, <1>8 DEF d, s, t

LEMMA ItemsKnown ==
  ASSUME NEW m \in Mems, NEW v \in Known(m), ProperList(m, v)
  PROVE  \A k \in 1..Len(Items(m, v)) : Items(m, v)[k] \in Known(m)
<1> DEFINE U == m.used
<1>1. /\ U \in SUBSET Cells /\ (v \in Cells => v \in U)
      /\ \A c \in U : m.cdr[c] \in Cells => m.cdr[c] \in U
      /\ \A c \in U : m.car[c] \in Known(m)
  BY MemFacts, CellsAssumption DEF Known
<1> HIDE DEF U
<1>2. Pairs(m, v) \subseteq U
  BY <1>1, PairsFacts
<1> QED
  BY <1>1, <1>2, ItemsOfPairs

----------------------------------------------------------------------------
(* What the opcodes return.                                                *)
Kept(m, n, H) == \A c \in H : n.car[c] = m.car[c] /\ n.cdr[c] = m.cdr[c]
Closed(m, H) == \A c \in H : m.cdr[c] \in Cells => m.cdr[c] \in H

LEMMA KeptIntact ==
  ASSUME NEW m, NEW n, NEW H, Kept(m, n, H), Closed(m, H)
  PROVE  Intact(m, n, H)
BY DEF Kept, Closed, Intact

(* cons: the list of the arguments, whose first pair becomes the result.   *)
LEMMA ConsOpcode ==
  ASSUME NEW m \in Mems, NEW as \in Known(m), ProperList(m, as), Len(Items(m, as)) = 2,
         NEW H \in SUBSET Cells, Closed(m, H), as \notin H,
         NEW y, y = car(m, cdr(m, as)), y \in Cells => y \in H
  PROVE  LET s == Items(m, as)
         IN  s[2] = y /\ ListBefore(m, SetCdr(m, as, y), as, <<s[1]>>, y)
<1> DEFINE s == Items(m, as)
           n == SetCdr(m, as, y)
           d == cdr(m, as)
           t == Items(m, d)
           U == {as}
<1>1. /\ as \in Cells /\ s[1] = car(m, as) /\ d \in Known(m) /\ ProperList(m, d)
      /\ Len(t) = Len(s) - 1
      /\ Len(s) >= 2 => t[1] = s[2]
  <2>1. Len(Items(m, as)) >= 1
    OBVIOUS
  <2> QED
    BY <2>1, FirstItem
<1>2. Len(s) = 2 /\ y = car(m, d)
  OBVIOUS
<1>3. t[1] = car(m, d)
  <2> HIDE DEF d
  <2>1. d \in Known(m) /\ ProperList(m, d) /\ Len(Items(m, d)) >= 1
    BY <1>1, <1>2
  <2> QED
    BY <2>1, FirstItem
<1> HIDE DEF s, n, d, t
<1>4. s[2] = y /\ y \in Known(m) /\ y \in Values
  BY <1>1, <1>2, <1>3, MemFacts
<1>5. /\ n \in Mems /\ n.car = m.car /\ n.cdr = [m.cdr EXCEPT ![as] = y]
  <2>0. n = [m EXCEPT !.cdr[as] = y]
    BY DEF SetCdr, n
  <2>1. n \in Mems
    BY <1>4, SetCdrFacts DEF n
  <2>2. n.car = m.car
    BY <1>4, SetCdrFacts DEF n
  <2>3. n.cdr = [m.cdr EXCEPT ![as] = y]
    BY <2>0 DEF Mems
  <2> QED
    BY <2>1, <2>2, <2>3
<1>6. n.cdr[as] = y /\ n.car[as] = s[1] /\ s[1] \in Values
  <2>1. s[1] = m.car[as]
    BY <1>1 DEF car
  <2>2. m.car \in [Cells -> Values] /\ m.cdr \in [Cells -> Values]
    BY MemFacts
  <2>3. n.cdr[as] = y
    BY <1>1, <1>5, <2>2
  <2>4. m.car[as] \in Values
    BY <1>1, <2>2
  <2> QED
    BY <1>5, <2>1, <2>3, <2>4
<1>7. Spells(n, U, as, Before(n.car[as], <<>>), y)
  <2>1. Spells(n, U, y, <<>>, y)
    BY <1>4, SpellsNone
  <2>2. as \in U
    OBVIOUS
  <2> HIDE DEF U
  <2> QED
    BY <1>1, <1>5, <1>6, <2>1, <2>2, SpellsMore
<1> DEFINE x == <<s[1]>>
<1>8. Before(n.car[as], <<>>) = x
  <2>1. <<s[1]>> \in Seq(Values)
    BY <1>6
  <2>2. <<s[1]>> \o <<>> = <<s[1]>>
    BY <2>1, ConcatEmptySeq
  <2> QED
    BY <1>6, <2>2 DEF Before
<1>9. Spells(n, U, as, x, y)
  BY <1>7, <1>8
<1> HIDE DEF U, x
<1>10. Intact(m, n, H)
  <2>1. m.cdr \in [Cells -> Values]
    BY MemFacts
  <2>2. Kept(m, n, H)
    BY <1>5, <2>1 DEF Kept
  <2> QED
    BY <2>2, KeptIntact
<1>11. ListBefore(m, n, as, x, y)
  BY <1>5, <1>9, <1>10, SpellsList
<1> QED
  BY <1>4, <1>11 DEF s, n, x

LEMMA StarOpcode ==
  ASSUME NEW m \in Mems, NEW as \in Known(m), ProperList(m, as), Len(Items(m, as)) >= 1,
         ~list_star(m, as).m.full,
         NEW H, Closed(m, H), H \subseteq m.used, Pairs(m, as) \cap H = {},
         \A c \in Pairs(m, as) : m.car[c] \in Atoms \cup H
  PROVE  LET s == Items(m, as)
             r == list_star(m, as)
         IN  ListBefore(m, r.m, r.v, Front(s), Last(s))
<1> DEFINE s == Items(m, as)
           r == list_star(m, as)
           e == s[Len(s)]
<1>1. r.m \in Mems /\ Same(m, r.m, Pairs(m, as))
  BY ListStarFacts
<1>2. /\ s = <<>> => r.v = Nil
      /\ s # <<>> => Spells(r.m, Cells, r.v, Front(s), s[Len(s)])
  BY StarMeant
<1>3. \A k \in 1..Len(s) : \E c \in Pairs(m, as) : s[k] = m.car[c]
  BY ItemsOfPairs
<1>4. s \in Seq(Values) /\ Len(s) >= 1
  <2>1. as \in Values
    BY MemFacts
  <2> QED
    BY <2>1, ItemsFacts
<1> HIDE DEF s, r
<1>5. s # <<>> /\ Len(s) \in 1..Len(s)
  <2>1. Len(<<>>) = 0 /\ Len(s) \in Nat
    BY <1>4, EmptySeq, LenProperties
  <2> QED
    BY <1>4, <2>1
<1>6. e \in Atoms \cup H /\ Spells(r.m, Cells, r.v, Front(s), e)
  BY <1>2, <1>3, <1>5
<1> HIDE DEF e
<1>7. e \in Cells => e \in H
  BY <1>6, CellsAssumption
<1>8. Intact(m, r.m, H)
  <2>1. Kept(m, r.m, H)
    BY <1>1 DEF Kept, Same
  <2> QED
    BY <2>1, KeptIntact
<1>9. ListBefore(m, r.m, r.v, Front(s), e)
  BY <1>1, <1>6, <1>7, <1>8, SpellsList
<1> QED
  BY <1>9 DEF e, r, s, Last

LEMMA ReverseOpcode ==
  ASSUME NEW m \in Mems, NEW x \in Known(m), ~reverse(m, x).m.full
  PROVE  LET r == reverse(m, x) IN ListBefore(m, r.m, r.v, Backwards(Items(m, x)), Nil)
<1> DEFINE e == ConsBackwards(m, Nil, x)
           B == Backwards(Items(m, x))
           none == {}
<1>1. reverse(m, x) = [m |-> e.m, v |-> e.v]
  BY DEF reverse, Result
<1>2. m.used \subseteq m.used /\ Nil \in Known(m) /\ x \in Values /\ Nil \notin Cells /\ Nil \in Values
  BY MemFacts
<1>3. Spells(m, Taken(m, m), Nil, <<>>, Nil) /\ <<>> \in Seq(Values)
  BY <1>2, SpellsNone
<1>4. B \in Seq(Values)
  <2>1. Items(m, x) \in Seq(Values)
    BY <1>2, ItemsFacts
  <2> QED
    BY <2>1, BackwardsFacts
<1>5. ~e.m.full
  BY <1>1
<1>6. Same(m, e.m, {}) /\ Spells(e.m, Taken(m, e.m), e.v, B \o <<>>, Nil)
  <2>1. DEFINE S == <<>>
  <2>2. Spells(m, Taken(m, m), Nil, S, Nil) /\ S \in Seq(Values)
    BY <1>3
  <2> HIDE DEF S
  <2>3. Same(m, e.m, {}) /\ Spells(e.m, Taken(m, e.m), e.v, B \o S, Nil)
    BY <1>2, <1>5, <2>2, ConsMeant
  <2> QED
    BY <2>3 DEF S
<1> HIDE DEF e, B
<1>7. Spells(e.m, Taken(m, e.m), e.v, B, Nil) /\ e.m \in Mems
  BY <1>4, <1>6, ConcatEmptySeq DEF Same
<1>8. Intact(m, e.m, none) /\ (Nil \in Cells => Nil \in none)
  BY <1>2 DEF Intact
<1> HIDE DEF none
<1>9. ListBefore(m, e.m, e.v, B, Nil)
  BY <1>7, <1>8, SpellsList
<1> QED
  BY <1>1, <1>9 DEF B

LEMMA AppendOpcode ==
  ASSUME NEW m \in Mems, NEW as \in Known(m), ProperList(m, as),
         ~append(m, as).m.full, append(m, as).v # "error"
  PROVE  LET s == Items(m, as)
             r == append(m, as)
         IN  /\ s = <<>> => r.v = Nil
             /\ s # <<>> => ListBefore(m, r.m, r.v, AllItems(m, Front(s)), Last(s))
<1> DEFINE s == Items(m, as)
           r == append(m, as)
           e == s[Len(s)]
           A == AllItems(m, Front(s))
           H == m.used
<1>1. r.m \in Mems /\ Same(m, r.m, {})
  BY AppendFacts
<1>2. /\ s = <<>> => r.v = Nil
      /\ s # <<>> => Spells(r.m, Taken(m, r.m), r.v, A, e)
  BY AppendMeant
<1>3. \A k \in 1..Len(s) : s[k] \in Known(m)
  BY ItemsKnown
<1>4. s \in Seq(Values)
  <2>1. as \in Values
    BY MemFacts
  <2> QED
    BY <2>1, ItemsFacts
<1> HIDE DEF s, r, e, A
<1>5. /\ Closed(m, H) /\ Kept(m, r.m, H)
      /\ \A x \in Known(m) : x \in Cells => x \in H
  <2>1. \A c \in m.used : m.cdr[c] \in Known(m)
    BY MemFacts
  <2>2. \A x \in Known(m) : x \in Cells => x \in H
    BY CellsAssumption DEF Known
  <2>3. Kept(m, r.m, H)
    BY <1>1 DEF Same, Kept
  <2> QED
    BY <2>1, <2>2, <2>3 DEF Closed
<1> HIDE DEF H
<1>6. ASSUME s # <<>> PROVE ListBefore(m, r.m, r.v, A, e)
  <2>1. Len(s) \in 1..Len(s)
    BY <1>4, <1>6, EmptySeq
  <2>2. e \in Cells => e \in H
    BY <1>3, <1>5, <2>1 DEF e
  <2>3. Intact(m, r.m, H)
    BY <1>5, KeptIntact
  <2> QED
    BY <1>1, <1>2, <1>6, <2>2, <2>3, SpellsList
<1> QED
  BY <1>2, <1>6 DEF s, r, e, A, Last

LEMMA RowBounds ==
  /\ dispatch_table["cons"].min = 2 /\ dispatch_table["cons"].max = 2
  /\ \A f \in {"list*", "list?", "length", "reverse"} : dispatch_table[f].min = 1
  /\ \A f \in {"list?", "length", "reverse"} : dispatch_table[f].max = 1
BY DEF dispatch_table, Row, Procedures

LEMMA RunMeans ==
  ASSUME CallInv, RunOpcode, stage' = "value", op \in {"cons", "list*"} => given = {}
  PROVE  LET s == Items(mem, args)
         IN  /\ op = "cons" => ListBefore(mem, mem', value', <<s[1]>>, s[2])
             /\ op = "list*" => ListBefore(mem, mem', value', Front(s), Last(s))
             /\ op = "list?" => value' = IF ProperList(mem, s[1]) THEN "#t" ELSE "#f"
             /\ op = "length" => ProperList(mem, s[1])
             /\ op = "reverse" => ListBefore(mem, mem', value', Backwards(Items(mem, s[1])), Nil)
             /\ op = "append" =>
                  IF s = <<>> THEN value' = Nil
                  ELSE ListBefore(mem, mem', value', AllItems(mem, Front(s)), Last(s))
<1> DEFINE s == Items(mem, args)
           H == HeldCells(mem, held)
           r == Opcode(op, mem, args)
           x == car(mem, args)
           P == Pairs(mem, args)
<1>1. /\ mem \in Mems /\ held \in [Vars -> Known(mem)] /\ args \in Known(mem)
      /\ P \cap H \subseteq given
      /\ given = {} => \A c \in P : mem.car[c] \in Atoms \cup H
      /\ Suitable(op, mem, args) /\ stage = "run"
  BY DEF CallInv, ReadyInv, CarsInv, RegistersInv, MemoryInv, ArgumentsInv, RunOpcode
<1>2. ~r.m.full /\ r.v # "error" /\ mem' = r.m /\ value' = r.v
  BY DEF RunOpcode, Returns, Fails
<1>3. ProperList(mem, args) /\ Len(s) \in dispatch_table[op].min..dispatch_table[op].max
  BY <1>1 DEF Suitable
<1>4. H \in SUBSET Cells /\ H \subseteq mem.used /\ Closed(mem, H)
  BY <1>1, HeldFacts, MemFacts DEF Closed
<1>5. op \in {"cons", "list*", "list?", "length", "reverse"} => Len(s) >= 1
  BY <1>3, RowBounds
<1>6. Len(s) >= 1 => /\ args \in Cells /\ s[1] = x /\ cdr(mem, args) \in Known(mem)
                     /\ x \in Known(mem) /\ x \in Values
  BY <1>1, <1>3, FirstItem, MemFacts
<1>7. ASSUME op = "cons" PROVE ListBefore(mem, mem', value', <<s[1]>>, s[2])
  <2> DEFINE d == cdr(mem, args)
             y == car(mem, d)
  <2>1. Len(s) = 2
    BY <1>3, <1>7, RowBounds
  <2>2. args \in P /\ (d \in Cells => d \in P)
    BY <1>1, <1>5, <1>6, <1>7, PairsFacts DEF cdr
  <2>3. P \cap H = {} /\ \A c \in P : mem.car[c] \in Atoms \cup H
    BY <1>1, <1>7
  <2>4. args \notin H
    BY <2>2, <2>3
  <2>5. y \in Cells => y \in H
    <3>1. Nil \notin Cells /\ Cells \cap Atoms = {}
      BY <1>1, MemFacts, CellsAssumption
    <3> HIDE DEF d, H, P
    <3> QED
      BY <2>2, <2>3, <3>1 DEF car
  <2>6. mem' = SetCdr(mem, args, y) /\ value' = args
    BY <1>2, <1>7 DEF Opcode, Result
  <2> HIDE DEF y, H
  <2>7. s[2] = y /\ ListBefore(mem, SetCdr(mem, args, y), args, <<s[1]>>, y)
    BY <1>1, <1>3, <1>4, <2>1, <2>4, <2>5, ConsOpcode DEF y
  <2> QED
    BY <2>6, <2>7
<1>8. ASSUME op = "list*" PROVE ListBefore(mem, mem', value', Front(s), Last(s))
  <2>1. P \cap H = {} /\ \A c \in P : mem.car[c] \in Atoms \cup H
    BY <1>1, <1>8
  <2>2. r = list_star(mem, args)
    BY <1>8 DEF Opcode
  <2> HIDE DEF r, H
  <2>3. ListBefore(mem, r.m, r.v, Front(s), Last(s))
    BY <1>1, <1>2, <1>3, <1>4, <1>5, <1>8, <2>1, <2>2, StarOpcode
  <2> QED
    BY <1>2, <2>3
<1>9. ASSUME op = "list?" PROVE value' = IF ProperList(mem, s[1]) THEN "#t" ELSE "#f"
  <2>1. value' = IF list_length(mem, x) >= 0 THEN "#t" ELSE "#f"
    BY <1>2, <1>9 DEF Opcode, Result
  <2>2. list_length(mem, x) >= 0 <=> ProperList(mem, x)
    BY <1>1, <1>5, <1>6, <1>9, LengthFacts
  <2> QED
    BY <1>5, <1>6, <1>9, <2>1, <2>2
<1>10. ASSUME op = "length" PROVE ProperList(mem, s[1])
  <2>1. ~(list_length(mem, x) < 0)
    BY <1>2, <1>10 DEF Opcode, Result
  <2>2. list_length(mem, x) \in Int /\ (list_length(mem, x) >= 0 <=> ProperList(mem, x))
    BY <1>1, <1>5, <1>6, <1>10, LengthFacts
  <2> QED
    BY <1>5, <1>6, <1>10, <2>1, <2>2
<1>11. ASSUME op = "reverse"
       PROVE  ListBefore(mem, mem', value', Backwards(Items(mem, s[1])), Nil)
  <2>1. r = reverse(mem, x)
    BY <1>11 DEF Opcode
  <2> HIDE DEF r, x
  <2>2. ListBefore(mem, r.m, r.v, Backwards(Items(mem, x)), Nil)
    BY <1>1, <1>2, <1>5, <1>6, <1>11, <2>1, ReverseOpcode
  <2> QED
    BY <1>2, <1>5, <1>6, <1>11, <2>2
<1>12. ASSUME op = "append"
       PROVE  IF s = <<>> THEN value' = Nil
              ELSE ListBefore(mem, mem', value', AllItems(mem, Front(s)), Last(s))
  <2>1. r = append(mem, args)
    BY <1>12 DEF Opcode
  <2> HIDE DEF r
  <2>2. /\ s = <<>> => r.v = Nil
        /\ s # <<>> => ListBefore(mem, r.m, r.v, AllItems(mem, Front(s)), Last(s))
    BY <1>1, <1>2, <1>3, <2>1, AppendOpcode
  <2> QED
    BY <1>2, <2>2
<1> QED
  BY <1>7, <1>8, <1>9, <1>10, <1>11, <1>12

(* What a call returns is the list that its arguments say, although the    *)
(* pairs of an argument list become the result and tails are shared:       *)
(* property ResultsMeant.                                                  *)
THEOREM ResultsAreMeant == PrimitivesSpec => ResultsMeant
<1> DEFINE s == Items(mem, args)
           end == Last(s)
           IsList(front, e) ==
             IF Circular(mem, e) THEN Circular(mem', value')
             ELSE /\ Items(mem', value') = front \o Items(mem, e)
                  /\ End(mem', value') = End(mem, e)
           Meant == stage = "run" /\ stage' = "value" /\ (op \in {"cons", "list*"} => given = {}) =>
           CASE op = "cons" -> IsList(<<s[1]>>, s[2])
             [] op = "list*" -> IsList(Front(s), end)
             [] op = "list?" -> value' = IF ProperList(mem, s[1]) THEN "#t" ELSE "#f"
             [] op = "length" -> ProperList(mem, s[1])
             [] op = "reverse" -> IsList(Backwards(Items(mem, s[1])), Nil)
             [] op = "append" ->
                  IF s = <<>> THEN value' = Nil
                  ELSE IsList(AllItems(mem, Front(s)), end)
             [] OTHER -> TRUE
<1>1. PrimitivesInit => CallInv
  BY RegistersInit DEF CallInv, ReadyInv, CarsInv, PrimitivesInit
<1>2. CallInv /\ [PrimitivesNext]_primitivesVars => CallInv'
  BY CallInvStep
<1>3. ASSUME CallInv, [PrimitivesNext]_primitivesVars PROVE [Meant]_primitivesVars
  <2> SUFFICES ASSUME stage = "run", stage' = "value", op \in {"cons", "list*"} => given = {}
               PROVE  Meant
    OBVIOUS
  <2>1. RunOpcode
    BY <1>3 DEF PrimitivesNext, primitivesVars, Calls, Call, Apply, Check, PApply, Returns, Drop, Fails, Store
  <2>2. /\ op = "cons" => ListBefore(mem, mem', value', <<s[1]>>, s[2])
        /\ op = "list*" => ListBefore(mem, mem', value', Front(s), Last(s))
        /\ op = "list?" => value' = IF ProperList(mem, s[1]) THEN "#t" ELSE "#f"
        /\ op = "length" => ProperList(mem, s[1])
        /\ op = "reverse" => ListBefore(mem, mem', value', Backwards(Items(mem, s[1])), Nil)
        /\ op = "append" =>
             IF s = <<>> THEN value' = Nil
             ELSE ListBefore(mem, mem', value', AllItems(mem, Front(s)), Last(s))
    BY <1>3, <2>1, RunMeans
  <2>3. \A front, e : ListBefore(mem, mem', value', front, e) <=> IsList(front, e)
    BY DEF ListBefore
  <2> HIDE DEF s, IsList
  <2> QED
    BY <2>2, <2>3
<1> QED
  BY <1>1, <1>2, <1>3, PTL DEF PrimitivesSpec, ResultsMeant
=============================================================================
