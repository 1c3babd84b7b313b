----------------------------- MODULE MarkProofs -----------------------------
(***************************************************************************)
(* Proofs about Mark: MarkInv is inductive, so mark() marks exactly what   *)
(* can be reached from its argument and leaves every link as it was, on    *)
(* heaps of any size; and it implements Trace.                             *)
(***************************************************************************)
EXTENDS Mark, SequenceTheorems, FiniteSetTheorems, TLAPS

LEMMA NumCellsNat == ASSUME NEW len \in Nat PROVE NumCells(len) \in Nat
  BY DEF NumCells

(* Every cell points to cells. *)
LEMMA PointsType ==
  ASSUME NEW h \in HeapType, WellFormed(h), NEW c \in Cells
  PROVE  /\ Elems(h, c) \subseteq Cells
         /\ Points(h, c) \subseteq Cells
  <1>1. Elems(h, c) \subseteq Cells
    BY DEF WellFormed
  <1>2. {h.car[c], h.cdr[c]} \ {Null} \subseteq Cells
    BY DEF HeapType
  <1> QED
    BY <1>1, <1>2 DEF Points

(* What Reachable is made of. *)
LEMMA ReachableFacts ==
  ASSUME TypeOK, WellFormed(was)
  PROVE  /\ Reachable \subseteq Cells
         /\ root \in Reachable
         /\ \A c \in Reachable : Points(was, c) \subseteq Reachable
         /\ \A S \in SUBSET Cells :
              root \in S /\ (\A c \in S : Points(was, c) \subseteq S) =>
                Reachable \subseteq S
  <1> DEFINE Closed(S) == \A c \in S : Points(was, c) \subseteq S
  <1>1. Reachable = {c \in Cells : \A S \in SUBSET Cells : root \in S /\ Closed(S) => c \in S}
    BY DEF Reachable, T!ReachableIn, T!ClosedIn, Graph
  <1>2. root \in Cells
    BY DEF TypeOK
  <1>3. \A c \in Cells : Points(was, c) \subseteq Cells
    BY PointsType DEF TypeOK
  <1>4. ASSUME NEW c \in Reachable, NEW d \in Points(was, c)
        PROVE  d \in Reachable
    <2>1. c \in Cells /\ d \in Cells
      BY <1>1, <1>3, <1>4
    <2>2. ASSUME NEW S \in SUBSET Cells, root \in S, Closed(S)
          PROVE  d \in S
      <3>1. c \in S
        BY <1>1, <1>4, <2>2
      <3> QED
        BY <1>4, <2>2, <3>1
    <2> QED
      BY <1>1, <2>1, <2>2
  <1> HIDE DEF Closed
  <1>5. \A S \in SUBSET Cells : root \in S /\ Closed(S) => Reachable \subseteq S
    BY <1>1
  <1>6. root \in Reachable /\ Reachable \subseteq Cells
    BY <1>1, <1>2
  <1> QED
    BY <1>4, <1>5, <1>6 DEF Closed

-----------------------------------------------------------------------------
LEMMA InitStep == Init => MarkInv
  <1> SUFFICES ASSUME Init PROVE MarkInv
    OBVIOUS
  <1>1. was \in HeapType /\ WellFormed(was)
    BY HeapsAssumption DEF Init
  <1>2. TypeOK
    BY <1>1 DEF Init, TypeOK, HeapType
  <1>3. PathInv
    BY DEF Init, PathInv, Unfinished, Above
  <1>4. LinksInv /\ IntactInv /\ FramesInv
    BY <1>1 DEF Init, LinksInv, IntactInv, FramesInv
  <1>5. OwnerInv
    BY DEF Init, OwnerInv
  <1>6. ColourInv
    BY <1>1 DEF Init, ColourInv, WellFormed, Unfinished
  <1>7. ReachInv
    BY <1>1, <1>2, ReachableFacts DEF Init, ReachInv, Unfinished
  <1> QED
    BY <1>1, <1>2, <1>3, <1>4, <1>5, <1>6, <1>7 DEF MarkInv

LEMMA E2Step == ASSUME MarkInv, E2 PROVE MarkInv'
  <1> USE DEF MarkInv
  <1>1. TypeOK' /\ WellFormed(was)'
    BY DEF E2, TypeOK, heap, history
  <1>2. PathInv'
    BY DEF E2, PathInv, Unfinished, Above, history
  <1>3. LinksInv'
    BY DEF E2, LinksInv, Above, Below, history
  <1>4. IntactInv' /\ FramesInv'
    BY DEF E2, IntactInv, FramesInv, Above, history
  <1>5. OwnerInv'
    BY DEF E2, OwnerInv, history
  <1>6. ColourInv'
    <2>1. FirstElems(p, 0) = {}
      BY DEF FirstElems
    <2>2. NumCells(was.veclen[p]) \in Nat
      BY NumCellsNat DEF TypeOK, HeapType
    <2> QED
      BY <2>1, <2>2 DEF E2, ColourInv, Unfinished, history
  <1>7. ReachInv'
    BY DEF E2, ReachInv, Reachable, Unfinished, history
  <1> QED
    BY <1>1, <1>2, <1>3, <1>4, <1>5, <1>6, <1>7

LEMMA AfterElemsStep == ASSUME MarkInv, AfterElems PROVE MarkInv'
  <1> USE DEF MarkInv, heap, history
  <1>1. TypeOK' /\ WellFormed(was)'
    BY DEF AfterElems, TypeOK
  <1>2. PathInv'
    BY DEF AfterElems, PathInv, Unfinished, Above
  <1>3. LinksInv'
    BY DEF AfterElems, LinksInv, Above, Below
  <1>4. IntactInv' /\ FramesInv'
    BY DEF AfterElems, IntactInv, FramesInv, Above
  <1>5. OwnerInv'
    BY DEF AfterElems, OwnerInv
  <1>6. ColourInv'
    <2>1. i = NumCells(was.veclen[p])
      BY SMTT(30), NumCellsNat DEF AfterElems, ColourInv, TypeOK, HeapType
    <2>2. Elems(was, p) = FirstElems(p, i)
      <3>1. i \in Nat /\ p \in Nat
        BY CellsAssumption DEF TypeOK
      <3>2. \A j \in 1..i : j - 1 \in 0..(i - 1) /\ p + j = p + 1 + (j - 1)
        BY <3>1
      <3>3. \A j \in 0..(i - 1) : j + 1 \in 1..i /\ p + 1 + j = p + (j + 1)
        BY <3>1
      <3> QED
        BY <2>1, <3>1, <3>2, <3>3 DEF Elems, FirstElems
    <2>3. p \in atom <=> p \in was.atom
      BY DEF IntactInv, PathInv, Unfinished, TypeOK
    <2>4. p \in atom => Points(was, p) \subseteq marked
      BY <2>2, <2>3 DEF AfterElems, ColourInv, Points
    <2> QED
      BY <2>3, <2>4 DEF AfterElems, ColourInv, Unfinished
  <1>7. ReachInv'
    BY DEF AfterElems, ReachInv, Reachable, Unfinished
  <1> QED
    BY <1>1, <1>2, <1>3, <1>4, <1>5, <1>6, <1>7

(* One more cell on the path: what its entries are afterwards. *)
LEMMA PushFacts ==
  ASSUME MarkInv, NEW how \in {"car", "cdr", "elem"}, Visited(p, how),
         Len(calls') \in Nat, NEW n, n = Len(path)
  PROVE  /\ n \in Nat /\ Len(path') = n + 1
         /\ path' \in Seq(Entry)
         /\ \A k \in 1..n : path'[k] = path[k]
         /\ path'[n + 1] =
              [cell |-> p, via |-> how, i |-> i, depth |-> Len(calls')]
         /\ path' # <<>>
         /\ Unfinished' = Unfinished \cup {p}
         /\ \A k \in 1..(n + 1) : Above(path', k) = Above(path, k)
         /\ Above(path', n + 2) = IF how = "elem" THEN Null ELSE p
         /\ \A k \in 1..n : Below(path', p', k) = Below(path, p, k)
         /\ Below(path', p', n + 1) = p'
  <1> DEFINE e == [cell |-> p, via |-> how, i |-> i, depth |-> Len(calls')]
  <1>1. e \in Entry
    BY DEF MarkInv, TypeOK, Entry
  <1>2. path \in Seq(Entry) /\ path' = Append(path, e)
    BY DEF MarkInv, TypeOK, Visited
  <1>3. path' \in Seq(Entry)
    BY <1>1, <1>2
  <1>4. /\ n \in Nat /\ Len(path') = n + 1
        /\ \A k \in 1..n : path'[k] = path[k]
        /\ path'[n + 1] = e
        /\ path' # <<>>
    <2> HIDE DEF e
    <2> QED
      BY <1>1, <1>2
  <1>5. e.cell = p /\ e.via = how
    OBVIOUS
  <1> HIDE DEF e
  <1>6. Unfinished' = Unfinished \cup {p}
    <2>1. Unfinished' = {path'[k].cell : k \in 1..(n + 1)}
      BY <1>4 DEF Unfinished
    <2>2. ASSUME NEW c \in Unfinished' PROVE c \in Unfinished \cup {p}
      <3>1. PICK k \in 1..(n + 1) : c = path'[k].cell
        BY <2>1, <2>2
      <3>2. CASE k = n + 1
        BY <1>4, <1>5, <3>1, <3>2
      <3>3. CASE k # n + 1
        BY <1>4, <3>1, <3>3 DEF Unfinished
      <3> QED
        BY <3>2, <3>3
    <2>3. Unfinished \subseteq Unfinished'
      BY <1>4, <2>1 DEF Unfinished
    <2>4. p \in Unfinished'
      BY <1>4, <1>5, <2>1
    <2> QED
      BY <2>2, <2>3, <2>4
  <1>7. \A k \in 1..(n + 1) : Above(path', k) = Above(path, k)
    BY <1>4 DEF Above
  <1>8. Above(path', n + 2) = IF how = "elem" THEN Null ELSE p
    <2>1. (n + 2) - 1 = n + 1 /\ n + 2 # 1
      BY <1>4
    <2> QED
      BY <1>4, <1>5, <2>1 DEF Above
  <1>9. \A k \in 1..n : Below(path', p', k) = Below(path, p, k)
    BY <1>4, <1>5 DEF Below
  <1>10. Below(path', p', n + 1) = p'
    BY <1>4 DEF Below
  <1> QED
    BY <1>3, <1>4, <1>6, <1>7, <1>8, <1>9, <1>10 DEF e

(* A step that goes down from p to p', leaving p on the path. *)
GoesDown(how) ==
  /\ was' = was /\ root' = root /\ marked' = marked /\ pc' = "E2"
  /\ p \in marked /\ p' # p /\ p' \notin Unfinished /\ root \in marked
  /\ p' \in Points(was, p)
  /\ \A h \in Cells : p' \in Elems(was, h) => h = p /\ how = "elem"
  /\ t' = IF how = "elem" THEN Null ELSE p
  /\ calls' = IF how = "elem" THEN Append(calls, [p |-> p, t |-> t, i |-> i])
              ELSE calls
  /\ \A c \in Cells \ {p} : /\ c \in atom' <=> c \in atom
                            /\ car'[c] = car[c] /\ cdr'[c] = cdr[c]

(* What such a step makes of the links of p. *)
LinksDown(how) ==
  /\ how = "car" => /\ p \notin was.atom /\ p \in atom'
                    /\ car'[p] = t /\ was.car[p] = p'
                    /\ cdr'[p] = was.cdr[p]
  /\ how = "cdr" => /\ p \notin was.atom /\ p \notin atom'
                    /\ cdr'[p] = t /\ was.cdr[p] = p'
                    /\ car'[p] = was.car[p]
                    /\ was.car[p] \in marked \cup {Null}
  /\ how = "elem" => /\ i < NumCells(was.veclen[p]) /\ p' = p + 1 + i
                     /\ FirstElems(p, i) \subseteq marked
                     /\ p \in atom' <=> p \in was.atom
                     /\ car'[p] = was.car[p] /\ cdr'[p] = was.cdr[p]

LEMMA PushStep ==
  ASSUME MarkInv, NEW how \in {"car", "cdr", "elem"}, Visited(p, how),
         GoesDown(how), LinksDown(how)
  PROVE  /\ WellFormed(was)' /\ PathInv' /\ LinksInv' /\ IntactInv'
         /\ FramesInv' /\ OwnerInv' /\ ColourInv' /\ ReachInv'
  <1> DEFINE n == Len(path)
  <1>1. TypeOK /\ WellFormed(was)
    BY DEF MarkInv
  <1>2. Len(calls) \in Nat /\ Len(calls') \in Nat
    <2>1. Len(calls) \in Nat
      BY <1>1 DEF TypeOK
    <2>2. calls' = calls \/ calls' = Append(calls, [p |-> p, t |-> t, i |-> i])
      BY DEF GoesDown
    <2>3. [p |-> p, t |-> t, i |-> i] \in Frame
      BY <1>1 DEF TypeOK, Frame
    <2>4. calls \in Seq(Frame)
      BY <1>1 DEF TypeOK
    <2> QED
      BY <2>1, <2>2, <2>3, <2>4
  <1>3. p \notin Unfinished
    BY DEF MarkInv, PathInv
  <1>5. /\ n \in Nat /\ Len(path') = n + 1
        /\ path' \in Seq(Entry)
        /\ \A k \in 1..n : path'[k] = path[k]
        /\ path'[n + 1] = [cell |-> p, via |-> how, i |-> i, depth |-> Len(calls')]
        /\ path' # <<>>
        /\ Unfinished' = Unfinished \cup {p}
        /\ \A k \in 1..(n + 1) : Above(path', k) = Above(path, k)
        /\ Above(path', n + 2) = IF how = "elem" THEN Null ELSE p
        /\ \A k \in 1..n : Below(path', p', k) = Below(path, p, k)
        /\ Below(path', p', n + 1) = p'
    BY <1>2, PushFacts
  <1>6. \A k \in 1..n : path[k].cell # p
    BY <1>3 DEF Unfinished
  <1>7. t = Above(path, n + 1)
    BY DEF MarkInv, PathInv
  <1>8. \A k \in 1..n : path[k].cell \in Cells
    <2>1. \A k \in 1..n : path[k] \in Entry
      BY <1>1 DEF TypeOK
    <2> QED
      BY <2>1 DEF Entry
  <1>9. /\ path'[n + 1].cell = p /\ path'[n + 1].via = how
        /\ path'[n + 1].i = i /\ path'[n + 1].depth = Len(calls')
    BY <1>5
  <1>10. \A k \in 1..Len(path') : k \in 1..n \/ k = n + 1
    BY <1>5
  <1>12. WellFormed(was)'
    BY <1>1 DEF GoesDown
  <1>13. PathInv'
    <2>1. t' = Above(path', Len(path') + 1)
      <3>1. Len(path') + 1 = n + 2
        BY <1>5
      <3> HIDE DEF n
      <3> QED
        BY <1>5, <3>1 DEF GoesDown
    <2>2. p' \notin Unfinished'
      BY <1>5 DEF GoesDown
    <2>3. ASSUME NEW j \in 1..Len(path'), NEW k \in 1..Len(path'),
                 path'[j].cell = path'[k].cell
          PROVE  j = k
      <3>1. CASE j \in 1..n /\ k \in 1..n
        BY <1>5, <2>3, <3>1 DEF MarkInv, PathInv
      <3>2. CASE j = n + 1 \/ k = n + 1
        BY <1>5, <1>6, <1>9, <1>10, <2>3, <3>2
      <3> QED
        BY <1>10, <3>1, <3>2
    <2>4. (Unfinished \subseteq marked)'
      BY <1>5 DEF MarkInv, PathInv, GoesDown
    <2> QED
      BY <1>5, <2>1, <2>2, <2>3, <2>4 DEF PathInv, GoesDown
  <1> HIDE DEF n
  <1>14. LinksInv'
    <2> SUFFICES ASSUME NEW k \in 1..Len(path'), NEW c, c = path'[k].cell
                 PROVE  /\ path'[k].via = "car" =>
                             /\ c \notin was.atom /\ c \in atom'
                             /\ car'[c] = Above(path', k)
                             /\ was.car[c] = Below(path', p', k)
                             /\ cdr'[c] = was.cdr[c]
                        /\ path'[k].via = "cdr" =>
                             /\ c \notin was.atom /\ c \notin atom'
                             /\ cdr'[c] = Above(path', k)
                             /\ was.cdr[c] = Below(path', p', k)
                             /\ car'[c] = was.car[c]
                        /\ path'[k].via = "elem" =>
                             /\ path'[k].i < NumCells(was.veclen[c])
                             /\ Below(path', p', k) = c + 1 + path'[k].i
      BY DEF LinksInv, GoesDown
    <2>1. CASE k = n + 1
      <3>1. Above(path', k) = t /\ Below(path', p', k) = p' /\ c = p
            /\ path'[k].via = how /\ path'[k].i = i
        BY <1>5, <1>7, <1>9, <2>1
      <3> QED
        BY <3>1 DEF LinksDown
    <2>2. CASE k \in 1..n
      <3>1. /\ path[k].cell # p /\ path'[k] = path[k]
            /\ Above(path', k) = Above(path, k)
            /\ Below(path', p', k) = Below(path, p, k)
        BY <1>5, <1>6, <2>2
      <3>2. c \in Cells /\ c # p /\ c = path[k].cell
        BY <1>8, <2>2, <3>1
      <3>3. LinksInv /\ car'[c] = car[c] /\ cdr'[c] = cdr[c]
            /\ (c \in atom' <=> c \in atom)
        BY <3>2 DEF MarkInv, GoesDown
      <3> QED
        BY <2>2, <3>1, <3>2, <3>3 DEF LinksInv, n
    <2> QED
      BY <1>10, <2>1, <2>2
  <1>15. IntactInv'
    <2> SUFFICES ASSUME NEW c \in Cells,
                        \A k \in 1..Len(path') : path'[k].cell = c => path'[k].via = "elem"
                 PROVE  (c \in atom' <=> c \in was.atom) /\ car'[c] = was.car[c]
                        /\ cdr'[c] = was.cdr[c]
      BY DEF IntactInv, GoesDown
    <2>1. CASE c = p
      <3>1. how = "elem"
        <4>1. n + 1 \in 1..Len(path')
          BY <1>5
        <4> QED
          BY <1>9, <2>1, <4>1
      <3> QED
        BY <2>1, <3>1 DEF LinksDown
    <2>2. CASE c # p
      <3>1. \A k \in 1..Len(path) : path[k].cell = c => path[k].via = "elem"
        BY <1>5 DEF n
      <3> QED
        BY <2>2, <3>1 DEF MarkInv, IntactInv, GoesDown
    <2> QED
      BY <2>1, <2>2
  <1>16. FramesInv'
    <2>1. Len(calls') = path'[Len(path')].depth
      BY <1>5, <1>9
    <2>2. Len(calls) = IF n = 0 THEN 0 ELSE path[n].depth
      BY <1>1, <1>5 DEF MarkInv, FramesInv, n, TypeOK
    <2>3. /\ Len(calls') = Len(calls) + IF how = "elem" THEN 1 ELSE 0
          /\ \A j \in 1..Len(calls) : calls'[j] = calls[j]
          /\ how = "elem" => calls'[Len(calls) + 1] = [p |-> p, t |-> t, i |-> i]
      <3>1. CASE how = "elem"
        <4> DEFINE f == [p |-> p, t |-> t, i |-> i]
        <4>1. f \in Frame /\ calls \in Seq(Frame) /\ calls' = Append(calls, f)
          BY <1>1, <3>1 DEF TypeOK, Frame, GoesDown
        <4> HIDE DEF f
        <4>2. /\ Len(calls') = Len(calls) + 1
              /\ \A j \in 1..Len(calls) : calls'[j] = calls[j]
              /\ calls'[Len(calls) + 1] = f
          BY <4>1
        <4> QED
          BY <3>1, <4>2 DEF f
      <3>2. CASE how # "elem"
        BY <1>2, <3>2 DEF GoesDown
      <3> QED
        BY <3>1, <3>2
    <2>4. \A k \in 1..n : path[k].depth \in Nat
      <3>1. \A k \in 1..n : path[k] \in Entry
        BY <1>1 DEF TypeOK, n
      <3> QED
        BY <3>1 DEF Entry
    <2>5. ASSUME NEW k \in 1..Len(path')
          PROVE  /\ path'[k].depth = (IF k = 1 THEN 0 ELSE path'[k - 1].depth) +
                                     (IF path'[k].via = "elem" THEN 1 ELSE 0)
                 /\ path'[k].depth <= Len(calls')
                 /\ path'[k].via = "elem" =>
                      /\ calls'[path'[k].depth] =
                           [p |-> path'[k].cell, t |-> Above(path', k), i |-> path'[k].i]
                      /\ \A j \in 1..(k - 1) : path'[j].depth < path'[k].depth
      <3>1. CASE k = n + 1
        <4>1. Len(calls) = IF k = 1 THEN 0 ELSE path'[k - 1].depth
          BY <1>5, <2>2, <3>1
        <4>2. \A j \in 1..n : path'[j].depth <= Len(calls)
          BY <1>5 DEF MarkInv, FramesInv, n
        <4>3. Above(path', k) = t
          BY <1>5, <1>7, <3>1
        <4>4. /\ path'[k].cell = p /\ path'[k].via = how
              /\ path'[k].i = i /\ path'[k].depth = Len(calls')
          BY <1>9, <3>1
        <4>5. path'[k].depth = (IF k = 1 THEN 0 ELSE path'[k - 1].depth) +
                               (IF path'[k].via = "elem" THEN 1 ELSE 0)
          BY <2>3, <4>1, <4>4
        <4>6. \A j \in 1..(k - 1) : path'[j].depth <= Len(calls) /\ path'[j].depth \in Nat
          BY <1>5, <2>4, <3>1, <4>2
        <4> QED
          BY <1>2, <2>3, <4>3, <4>4, <4>5, <4>6
      <3>2. CASE k \in 1..n
        <4>1. /\ path'[k] = path[k] /\ Above(path', k) = Above(path, k)
              /\ k # 1 => path'[k - 1] = path[k - 1]
              /\ \A j \in 1..(k - 1) : path'[j] = path[j]
          BY <1>5, <3>2
        <4>2. /\ path[k].depth = (IF k = 1 THEN 0 ELSE path[k - 1].depth) +
                                 (IF path[k].via = "elem" THEN 1 ELSE 0)
              /\ path[k].depth <= Len(calls)
              /\ path[k].via = "elem" =>
                   /\ calls[path[k].depth] =
                        [p |-> path[k].cell, t |-> Above(path, k), i |-> path[k].i]
                   /\ \A j \in 1..(k - 1) : path[j].depth < path[k].depth
          BY <3>2 DEF MarkInv, FramesInv, n
        <4>3. path[k].via = "elem" => path[k].depth \in 1..Len(calls)
          <5>1. (IF k = 1 THEN 0 ELSE path[k - 1].depth) \in Nat
            BY <1>5, <2>4, <3>2
          <5> QED
            BY <1>2, <2>4, <3>2, <4>2, <5>1
        <4>4. path[k].depth <= Len(calls')
          BY <1>2, <2>3, <2>4, <3>2, <4>2
        <4>5. path[k].via = "elem" => calls'[path[k].depth] = calls[path[k].depth]
          BY <2>3, <4>3
        <4> QED
          BY <4>1, <4>2, <4>4, <4>5
      <3> QED
        BY <1>10, <3>1, <3>2
    <2> QED
      BY <1>5, <2>1, <2>5 DEF FramesInv
  <1>17. OwnerInv'
    <2> SUFFICES ASSUME NEW h \in Cells
                 PROVE  /\ p' \in Elems(was, h) =>
                             /\ path' # <<>> /\ path'[Len(path')].cell = h
                             /\ path'[Len(path')].via = "elem"
                        /\ \A k \in 1..Len(path') : path'[k].cell \in Elems(was, h) =>
                             /\ k > 1 /\ path'[k - 1].cell = h
                             /\ path'[k - 1].via = "elem"
      BY DEF OwnerInv, GoesDown
    <2>1. p' \in Elems(was, h) =>
            /\ path' # <<>> /\ path'[Len(path')].cell = h
            /\ path'[Len(path')].via = "elem"
      BY <1>5, <1>9 DEF GoesDown
    <2>2. ASSUME NEW k \in 1..Len(path'), path'[k].cell \in Elems(was, h)
          PROVE  k > 1 /\ path'[k - 1].cell = h /\ path'[k - 1].via = "elem"
      <3>1. CASE k = n + 1
        <4>1. n > 0 /\ path[n].cell = h /\ path[n].via = "elem"
          <5>1. p \in Elems(was, h)
            BY <1>9, <2>2, <3>1
          <5>2. path # <<>> /\ path[Len(path)].cell = h /\ path[Len(path)].via = "elem"
            BY <5>1 DEF MarkInv, OwnerInv
          <5>3. Len(path) # 0
            BY <1>1, <5>2 DEF TypeOK
          <5> QED
            BY <1>5, <5>2, <5>3 DEF n
        <4> QED
          BY <1>5, <3>1, <4>1
      <3>2. CASE k \in 1..n
        <4>1. k > 1 /\ path[k - 1].cell = h /\ path[k - 1].via = "elem"
          BY <1>5, <2>2, <3>2 DEF MarkInv, OwnerInv, n
        <4>2. k - 1 \in 1..n
          BY <1>5, <3>2, <4>1
        <4> QED
          BY <1>5, <4>1, <4>2
      <3> QED
        BY <1>10, <3>1, <3>2
    <2> QED
      BY <2>1, <2>2
  <1>18. ColourInv'
    <2>1. ASSUME NEW k \in 1..Len(path')
          PROVE  /\ path'[k].via = "cdr" => was.car[path'[k].cell] \in marked \cup {Null}
                 /\ path'[k].via = "elem" =>
                      FirstElems(path'[k].cell, path'[k].i) \subseteq marked
      BY <1>5, <1>9, <1>10 DEF MarkInv, ColourInv, n, LinksDown
    <2>2. ASSUME NEW c \in marked \ Unfinished'
          PROVE  Points(was, c) \subseteq marked
      BY <1>5, <2>2 DEF MarkInv, ColourInv
    <2> QED
      BY <2>1, <2>2 DEF ColourInv, GoesDown
  <1>19. ReachInv'
    <2>1. p' \in Reachable
      BY <1>1, ReachableFacts DEF MarkInv, ReachInv, GoesDown
    <2>2. Reachable' = Reachable
      BY DEF Reachable, GoesDown
    <2> QED
      BY <1>5, <2>1, <2>2 DEF MarkInv, ReachInv, GoesDown
  <1> QED
    BY <1>12, <1>13, <1>14, <1>15, <1>16, <1>17, <1>18, <1>19

-----------------------------------------------------------------------------
LEMMA FrontFacts ==
  ASSUME NEW S, NEW s \in Seq(S), Len(s) > 0, NEW f, f = SubSeq(s, 1, Len(s) - 1)
  PROVE  /\ f \in Seq(S) /\ Len(f) = Len(s) - 1
         /\ \A j \in 1..(Len(s) - 1) : f[j] = s[j]
  <1> DEFINE m == Len(s) - 1
  <1>1. m \in Nat /\ 1 \in Int /\ m \in Int /\ m = Len(s) - 1
    OBVIOUS
  <1>2. \A j \in 1..m : s[j] \in S
    BY <1>1
  <1> HIDE DEF m
  <1>3. /\ SubSeq(s, 1, m) \in Seq(S)
        /\ Len(SubSeq(s, 1, m)) = IF 1 <= m THEN m - 1 + 1 ELSE 0
        /\ \A j \in 1..(m - 1 + 1) : SubSeq(s, 1, m)[j] = s[1 + j - 1]
    BY <1>1, <1>2, SubSeqProperties
  <1>4. f = SubSeq(s, 1, m) /\ m - 1 + 1 = m /\ \A j \in 1..m : 1 + j - 1 = j
    BY <1>1 DEF m
  <1> QED
    BY <1>1, <1>3, <1>4

(* The last entry leaves the path: what the others are afterwards. *)
LEMMA PopFacts ==
  ASSUME MarkInv, Leave, NEW n, n = Len(path), path # <<>>,
         p' = path[n].cell
  PROVE  /\ n \in Nat \ {0} /\ Len(path') = n - 1
         /\ path' \in Seq(Entry)
         /\ \A k \in 1..(n - 1) : path'[k] = path[k]
         /\ path[n] \in Entry
         /\ n = 1 <=> path' = <<>>
         /\ Unfinished' = Unfinished \ {p'}
         /\ \A k \in 1..n : Above(path', k) = Above(path, k)
         /\ \A k \in 1..(n - 1) : Below(path', p', k) = Below(path, p, k)
  <1>1. path \in Seq(Entry) /\ path' = SubSeq(path, 1, n - 1)
    BY DEF MarkInv, TypeOK, Leave
  <1>2. /\ n \in Nat \ {0} /\ Len(path') = n - 1
        /\ path' \in Seq(Entry)
        /\ \A k \in 1..(n - 1) : path'[k] = path[k]
        /\ path[n] \in Entry
        /\ n = 1 <=> path' = <<>>
    <2>1. n \in Nat \ {0}
      BY <1>1
    <2>2. n - 1 \in Nat /\ n - 1 <= Len(path)
      BY <2>1
    <2>3. /\ path' \in Seq(Entry) /\ Len(path') = n - 1
          /\ \A k \in 1..(n - 1) : path'[k] = path[k]
      BY <1>1, <2>1, <2>2
    <2>4. path[n] \in Entry
      BY <1>1, <2>1
    <2> QED
      BY <2>1, <2>3, <2>4
  <1>3. Unfinished' = Unfinished \ {p'}
    <2>1. Unfinished' = {path[k].cell : k \in 1..(n - 1)}
      BY <1>2 DEF Unfinished
    <2>2. \A k \in 1..n : path[k].cell = path[n].cell => k = n
      BY <1>2 DEF MarkInv, PathInv
    <2>3. \A k \in 1..n : k # n => k \in 1..(n - 1)
      BY <1>2
    <2>4. \A k \in 1..(n - 1) : k \in 1..n /\ k # n
      BY <1>2
    <2>5. Unfinished = {path[k].cell : k \in 1..n}
      BY DEF Unfinished
    <2> QED
      BY <2>1, <2>2, <2>3, <2>4, <2>5
  <1>4. \A k \in 1..n : Above(path', k) = Above(path, k)
    BY <1>2 DEF Above
  <1>5. \A k \in 1..(n - 1) : Below(path', p', k) = Below(path, p, k)
    <2> SUFFICES ASSUME NEW k \in 1..(n - 1)
                 PROVE  Below(path', p', k) = Below(path, p, k)
      OBVIOUS
    <2>1. CASE k = n - 1
      BY <1>2, <2>1 DEF Below
    <2>2. CASE k # n - 1
      <3>1. k + 1 \in 1..(n - 1) /\ k # n
        BY <1>2, <2>2
      <3> QED
        BY <1>2, <2>2, <3>1 DEF Below
    <2> QED
      BY <2>1, <2>2
  <1> QED
    BY <1>2, <1>3, <1>4, <1>5

(* A step that goes up from p to the last cell of the path. *)
GoesUp ==
  LET up == path[Len(path)]
  IN  /\ was' = was /\ root' = root /\ marked' = marked
      /\ pc' \in {"E5", "E6", "elems"}
      /\ p' = up.cell /\ t' = Above(path, Len(path))
      /\ calls' = IF up.via = "elem" THEN SubSeq(calls, 1, Len(calls) - 1)
                  ELSE calls
      /\ \A c \in Cells \ {p'} : /\ c \in atom' <=> c \in atom
                                 /\ car'[c] = car[c] /\ cdr'[c] = cdr[c]
      /\ p' \in atom' <=> p' \in was.atom
      /\ car'[p'] = was.car[p'] /\ cdr'[p'] = was.cdr[p']

(* What is known to be marked among the cells p' points to. *)
ColourUp ==
  /\ pc' = "elems" => /\ i' <= NumCells(was.veclen[p'])
                      /\ FirstElems(p', i') \subseteq marked
  /\ pc' = "E5" => p' \notin was.atom /\ was.car[p'] \in marked \cup {Null}
  /\ pc' = "E6" => Points(was, p') \subseteq marked

LEMMA PopStep ==
  ASSUME MarkInv, Leave, path # <<>>, pc = "E6", GoesUp, ColourUp
  PROVE  /\ WellFormed(was)' /\ PathInv' /\ LinksInv' /\ IntactInv'
         /\ FramesInv' /\ OwnerInv' /\ ColourInv' /\ ReachInv'
  <1> DEFINE n == Len(path)
  <1>1. TypeOK /\ WellFormed(was)
    BY DEF MarkInv
  <1>2. p' = path[n].cell
    BY DEF GoesUp
  <1>3. /\ n \in Nat \ {0} /\ Len(path') = n - 1
        /\ path' \in Seq(Entry)
        /\ \A k \in 1..(n - 1) : path'[k] = path[k]
        /\ path[n] \in Entry
        /\ n = 1 <=> path' = <<>>
        /\ Unfinished' = Unfinished \ {p'}
        /\ \A k \in 1..n : Above(path', k) = Above(path, k)
        /\ \A k \in 1..(n - 1) : Below(path', p', k) = Below(path, p, k)
    BY <1>2, PopFacts
  <1>4. p' \in Unfinished
    BY <1>2, <1>3 DEF Unfinished
  <1>5. \A k \in 1..(n - 1) : path[k].cell # p' /\ path[k].cell \in Cells
    <2>1. \A k \in 1..(n - 1) : k \in 1..n /\ k # n
      BY <1>3
    <2>2. \A k \in 1..(n - 1) : path[k].cell # p'
      BY <1>2, <1>3, <2>1 DEF MarkInv, PathInv
    <2>3. \A k \in 1..n : path[k] \in Entry
      BY <1>1 DEF TypeOK
    <2> QED
      BY <2>1, <2>2, <2>3 DEF Entry
  <1> HIDE DEF n
  <1>6. WellFormed(was)'
    BY <1>1 DEF GoesUp
  <1>7. PathInv'
    <2>1. t' = Above(path', Len(path') + 1)
      <3>1. t' = Above(path, n)
        BY DEF GoesUp, n
      <3>2. Len(path') + 1 = n /\ n \in 1..n
        BY <1>3
      <3> QED
        BY <1>3, <3>1, <3>2
    <2>2. \A j, k \in 1..Len(path') : path'[j].cell = path'[k].cell => j = k
      <3>1. \A k \in 1..Len(path') : k \in 1..n /\ path'[k] = path[k]
        BY <1>3
      <3> QED
        BY <3>1 DEF MarkInv, PathInv, n
    <2> QED
      BY <1>3, <1>4, <2>1, <2>2 DEF MarkInv, PathInv, GoesUp
  <1>8. LinksInv'
    <2> SUFFICES ASSUME NEW k \in 1..Len(path'), NEW c, c = path'[k].cell
                 PROVE  /\ path'[k].via = "car" =>
                             /\ c \notin was.atom /\ c \in atom'
                             /\ car'[c] = Above(path', k)
                             /\ was.car[c] = Below(path', p', k)
                             /\ cdr'[c] = was.cdr[c]
                        /\ path'[k].via = "cdr" =>
                             /\ c \notin was.atom /\ c \notin atom'
                             /\ cdr'[c] = Above(path', k)
                             /\ was.cdr[c] = Below(path', p', k)
                             /\ car'[c] = was.car[c]
                        /\ path'[k].via = "elem" =>
                             /\ path'[k].i < NumCells(was.veclen[c])
                             /\ Below(path', p', k) = c + 1 + path'[k].i
      BY DEF LinksInv, GoesUp
    <2>1. k \in 1..(n - 1) /\ k \in 1..n
      BY <1>3
    <2>2. /\ path'[k] = path[k] /\ c = path[k].cell /\ c # p' /\ c \in Cells
          /\ Above(path', k) = Above(path, k)
          /\ Below(path', p', k) = Below(path, p, k)
      BY <1>3, <1>5, <2>1
    <2>3. LinksInv /\ car'[c] = car[c] /\ cdr'[c] = cdr[c]
          /\ (c \in atom' <=> c \in atom)
      BY <2>2 DEF MarkInv, GoesUp
    <2> QED
      BY <2>1, <2>2, <2>3 DEF LinksInv, n
  <1>9. IntactInv'
    <2> SUFFICES ASSUME NEW c \in Cells,
                        \A k \in 1..Len(path') : path'[k].cell = c => path'[k].via = "elem"
                 PROVE  (c \in atom' <=> c \in was.atom) /\ car'[c] = was.car[c]
                        /\ cdr'[c] = was.cdr[c]
      BY DEF IntactInv, GoesUp
    <2>1. CASE c = p'
      BY <2>1 DEF GoesUp
    <2>2. CASE c # p'
      <3>1. \A k \in 1..n : k = n \/ k \in 1..Len(path')
        BY <1>3
      <3>2. \A k \in 1..n : path[k].cell = c => path[k].via = "elem"
        BY <1>2, <1>3, <2>2, <3>1
      <3> QED
        BY <2>2, <3>2 DEF MarkInv, IntactInv, n, GoesUp
    <2> QED
      BY <2>1, <2>2
  <1>10. FramesInv'
    <2>1. \A k \in 1..n : /\ path[k] \in Entry /\ path[k].depth \in Nat
                          /\ path[k].via \in {"car", "cdr", "elem"}
      <3>1. \A k \in 1..n : path[k] \in Entry
        BY <1>1 DEF TypeOK, n
      <3> QED
        BY <3>1 DEF Entry
    <2>2. \A k \in 1..n :
            /\ path[k].depth = (IF k = 1 THEN 0 ELSE path[k - 1].depth) +
                               (IF path[k].via = "elem" THEN 1 ELSE 0)
            /\ path[k].depth <= Len(calls)
            /\ path[k].via = "elem" =>
                 /\ calls[path[k].depth] =
                      [p |-> path[k].cell, t |-> Above(path, k), i |-> path[k].i]
                 /\ \A j \in 1..(k - 1) : path[j].depth < path[k].depth
      BY DEF MarkInv, FramesInv, n
    <2>3. Len(calls) = path[n].depth
      BY <1>3 DEF MarkInv, FramesInv, n
    <2>4. calls \in Seq(Frame) /\ Len(calls) \in Nat
      BY <1>1 DEF TypeOK
    <2>5. CASE path[n].via = "elem"
      <3>1. n \in 1..n /\ \A j \in 1..(n - 1) : j \in 1..n
        BY <1>3
      <3>2. Len(calls) > 0 /\ \A j \in 1..(n - 1) : path[j].depth < Len(calls)
        <4>1. (IF n = 1 THEN 0 ELSE path[n - 1].depth) \in Nat
          BY <1>3, <2>1
        <4>2. /\ path[n].depth = (IF n = 1 THEN 0 ELSE path[n - 1].depth) + 1
              /\ \A j \in 1..(n - 1) : path[j].depth < path[n].depth
          BY <2>2, <2>5, <3>1
        <4> QED
          BY <2>3, <4>1, <4>2
      <3>3. /\ Len(calls') = Len(calls) - 1
            /\ \A j \in 1..(Len(calls) - 1) : calls'[j] = calls[j]
        <4>1. calls' = SubSeq(calls, 1, Len(calls) - 1)
          BY <2>5 DEF GoesUp, n
        <4> QED
          BY <2>4, <3>2, <4>1, FrontFacts
      <3>4. Len(calls') = IF path' = <<>> THEN 0 ELSE path'[Len(path')].depth
        <4>1. CASE n = 1
          BY <1>3, <2>2, <2>3, <2>5, <3>1, <3>3, <4>1
        <4>2. CASE n # 1
          <5>1. n - 1 \in 1..(n - 1)
            BY <1>3, <4>2
          <5>2. Len(calls) = path[n - 1].depth + 1 /\ path[n - 1].depth \in Nat
            BY <2>1, <2>2, <2>3, <2>5, <3>1, <4>2, <5>1
          <5> QED
            BY <1>3, <3>3, <4>2, <5>1, <5>2
        <4> QED
          BY <4>1, <4>2
      <3>5. ASSUME NEW k \in 1..Len(path')
            PROVE  /\ path'[k].depth = (IF k = 1 THEN 0 ELSE path'[k - 1].depth) +
                                       (IF path'[k].via = "elem" THEN 1 ELSE 0)
                   /\ path'[k].depth <= Len(calls')
                   /\ path'[k].via = "elem" =>
                        /\ calls'[path'[k].depth] =
                             [p |-> path'[k].cell, t |-> Above(path', k),
                              i |-> path'[k].i]
                        /\ \A j \in 1..(k - 1) : path'[j].depth < path'[k].depth
        <4>1. /\ k \in 1..n /\ k \in 1..(n - 1) /\ path'[k] = path[k]
              /\ Above(path', k) = Above(path, k)
              /\ k # 1 => path'[k - 1] = path[k - 1]
              /\ \A j \in 1..(k - 1) : path'[j] = path[j]
          BY <1>3
        <4>2. path[k].depth < Len(calls) /\ path[k].depth \in Nat
          BY <2>1, <3>2, <4>1
        <4>3. path[k].via = "elem" => path[k].depth \in 1..(Len(calls) - 1)
          <5>1. (IF k = 1 THEN 0 ELSE path[k - 1].depth) \in Nat
            BY <1>3, <2>1, <4>1
          <5>2. path[k].via = "elem" =>
                  path[k].depth = (IF k = 1 THEN 0 ELSE path[k - 1].depth) + 1
            BY <2>2, <4>1
          <5> QED
            BY <2>4, <4>2, <5>1, <5>2
        <4>4. path[k].depth <= Len(calls')
          BY <2>4, <3>3, <4>2
        <4>5. path[k].via = "elem" => calls'[path[k].depth] = calls[path[k].depth]
          BY <3>3, <4>3
        <4> QED
          BY <2>2, <4>1, <4>4, <4>5
      <3> QED
        BY <3>4, <3>5 DEF FramesInv
    <2>6. CASE path[n].via # "elem"
      <3>1. calls' = calls
        BY <2>6 DEF GoesUp, n
      <3>2. Len(calls') = IF path' = <<>> THEN 0 ELSE path'[Len(path')].depth
        <4>1. n \in 1..n /\ (n # 1 => n - 1 \in 1..(n - 1) /\ n - 1 \in 1..n)
          BY <1>3
        <4>2. Len(calls) = IF n = 1 THEN 0 ELSE path[n - 1].depth
          <5>1. path[n].depth = (IF n = 1 THEN 0 ELSE path[n - 1].depth) + 0
            BY <2>2, <2>6, <4>1
          <5>2. (IF n = 1 THEN 0 ELSE path[n - 1].depth) \in Nat
            BY <2>1, <4>1
          <5> QED
            BY <2>3, <5>1, <5>2
        <4> QED
          BY <1>3, <3>1, <4>1, <4>2
      <3>3. ASSUME NEW k \in 1..Len(path')
            PROVE  /\ path'[k].depth = (IF k = 1 THEN 0 ELSE path'[k - 1].depth) +
                                       (IF path'[k].via = "elem" THEN 1 ELSE 0)
                   /\ path'[k].depth <= Len(calls')
                   /\ path'[k].via = "elem" =>
                        /\ calls'[path'[k].depth] =
                             [p |-> path'[k].cell, t |-> Above(path', k),
                              i |-> path'[k].i]
                        /\ \A j \in 1..(k - 1) : path'[j].depth < path'[k].depth
        <4>1. /\ k \in 1..n /\ path'[k] = path[k]
              /\ Above(path', k) = Above(path, k)
              /\ k # 1 => path'[k - 1] = path[k - 1]
              /\ \A j \in 1..(k - 1) : path'[j] = path[j]
          BY <1>3
        <4> QED
          BY <2>2, <3>1, <4>1
      <3> QED
        BY <3>2, <3>3 DEF FramesInv
    <2> QED
      BY <2>5, <2>6
  <1>11. OwnerInv'
    <2> SUFFICES ASSUME NEW h \in Cells
                 PROVE  /\ p' \in Elems(was, h) =>
                             /\ path' # <<>> /\ path'[Len(path')].cell = h
                             /\ path'[Len(path')].via = "elem"
                        /\ \A k \in 1..Len(path') : path'[k].cell \in Elems(was, h) =>
                             /\ k > 1 /\ path'[k - 1].cell = h
                             /\ path'[k - 1].via = "elem"
      BY DEF OwnerInv, GoesUp
    <2>1. \A k \in 1..n : path[k].cell \in Elems(was, h) =>
            k > 1 /\ path[k - 1].cell = h /\ path[k - 1].via = "elem"
      BY DEF MarkInv, OwnerInv, n
    <2>2. p' \in Elems(was, h) =>
            /\ path' # <<>> /\ path'[Len(path')].cell = h
            /\ path'[Len(path')].via = "elem"
      <3>1. SUFFICES ASSUME p' \in Elems(was, h)
                     PROVE  /\ path' # <<>> /\ path'[Len(path')].cell = h
                            /\ path'[Len(path')].via = "elem"
        OBVIOUS
      <3>2. n > 1 /\ path[n - 1].cell = h /\ path[n - 1].via = "elem"
        BY <1>2, <1>3, <2>1, <3>1
      <3> QED
        BY <1>3, <3>2
    <2>3. ASSUME NEW k \in 1..Len(path'), path'[k].cell \in Elems(was, h)
          PROVE  k > 1 /\ path'[k - 1].cell = h /\ path'[k - 1].via = "elem"
      <3>1. k \in 1..n /\ path'[k] = path[k]
        BY <1>3
      <3>2. k > 1 /\ path[k - 1].cell = h /\ path[k - 1].via = "elem"
        BY <2>1, <2>3, <3>1
      <3>3. k - 1 \in 1..(n - 1)
        BY <1>3, <3>1, <3>2
      <3> QED
        BY <1>3, <3>2, <3>3
    <2> QED
      BY <2>2, <2>3
  <1>12. ColourInv'
    <2>1. ASSUME NEW k \in 1..Len(path')
          PROVE  /\ path'[k].via = "cdr" => was.car[path'[k].cell] \in marked \cup {Null}
                 /\ path'[k].via = "elem" =>
                      FirstElems(path'[k].cell, path'[k].i) \subseteq marked
      <3>1. k \in 1..n /\ path'[k] = path[k]
        BY <1>3
      <3> QED
        BY <3>1 DEF MarkInv, ColourInv, n
    <2>2. ASSUME NEW c \in marked \ Unfinished'
          PROVE  \/ c = p' /\ pc' \notin {"E6", "done"}
                 \/ Points(was, c) \subseteq marked
      BY <1>3, <2>2 DEF MarkInv, ColourInv, ColourUp, GoesUp
    <2> QED
      BY <2>1, <2>2 DEF ColourInv, ColourUp, GoesUp
  <1>13. ReachInv'
    <2>1. Reachable' = Reachable
      BY DEF Reachable, GoesUp
    <2> QED
      BY <1>3, <1>4, <2>1 DEF MarkInv, ReachInv, GoesUp
  <1> QED
    BY <1>6, <1>7, <1>8, <1>9, <1>10, <1>11, <1>12, <1>13

-----------------------------------------------------------------------------
(* The steps that go down. *)
LEMMA CallOnElemStep == ASSUME MarkInv, CallOnElem PROVE MarkInv'
  <1>1. TypeOK /\ WellFormed(was) /\ was \in HeapType
    BY DEF MarkInv, TypeOK
  <1>2. i < NumCells(was.veclen[p]) /\ i \in Nat /\ p \in Cells
        /\ NumCells(was.veclen[p]) \in Nat /\ p \in Nat \ {Null}
    BY <1>1, NumCellsNat, CellsAssumption DEF CallOnElem, TypeOK, HeapType
  <1>3. p' \in Elems(was, p) /\ p' = p + 1 + i
    <2>1. p' = p + (i + 1) /\ i + 1 \in 1..NumCells(was.veclen[p])
      BY <1>2 DEF CallOnElem
    <2> QED
      BY <1>2, <2>1 DEF Elems
  <1>4. p' \in Cells /\ p' \in Points(was, p)
    BY <1>1, <1>2, <1>3, PointsType DEF Points
  <1>5. [p |-> p, t |-> t, i |-> i] \in Frame
    BY <1>1 DEF TypeOK, Frame
  <1>6. Visited(p, "elem") /\ calls' = Append(calls, [p |-> p, t |-> t, i |-> i])
    BY DEF CallOnElem
  <1>7. calls' \in Seq(Frame) /\ Len(calls') \in Nat
    BY <1>1, <1>5, <1>6 DEF TypeOK
  <1>8. TypeOK'
    <2>1. path' \in Seq(Entry)
      BY <1>6, <1>7, PushFacts
    <2> QED
      BY <1>1, <1>4, <1>7, <2>1 DEF TypeOK, CallOnElem, heap, history
  <1>9. p \in marked /\ p \notin Unfinished /\ root \in marked
    BY DEF MarkInv, PathInv, CallOnElem
  <1>10. p' \notin Unfinished
    <2> SUFFICES ASSUME NEW k \in 1..Len(path), path[k].cell = p'
                 PROVE  FALSE
      BY DEF Unfinished
    <2>1. k > 1 /\ path[k - 1].cell = p
      BY <1>2, <1>3 DEF MarkInv, OwnerInv
    <2>2. k - 1 \in 1..Len(path)
      BY <1>1, <2>1 DEF TypeOK
    <2> QED
      BY <1>9, <2>1, <2>2 DEF Unfinished
  <1>11. \A h \in Cells : p' \in Elems(was, h) => h = p
    BY <1>1, <1>2, <1>3 DEF WellFormed, Points
  <1>12. GoesDown("elem")
    BY <1>2, <1>3, <1>4, <1>6, <1>9, <1>10, <1>11
       DEF GoesDown, CallOnElem, heap, history
  <1>13. LinksDown("elem")
    <2>1. FirstElems(p, i) \subseteq marked
      BY DEF MarkInv, ColourInv, CallOnElem
    <2>2. (p \in atom <=> p \in was.atom) /\ car[p] = was.car[p] /\ cdr[p] = was.cdr[p]
      BY <1>2, <1>9 DEF MarkInv, IntactInv, Unfinished
    <2> QED
      BY <1>2, <1>3, <2>1, <2>2 DEF LinksDown, CallOnElem, heap
  <1> QED
    BY <1>6, <1>8, <1>12, <1>13, PushStep DEF MarkInv

(* p is a pair whose links have not been touched yet: in E4 and E5. *)
LEMMA PairFacts ==
  ASSUME MarkInv, pc \in {"E4", "E5"}
  PROVE  /\ p \in marked /\ p \notin Unfinished /\ root \in marked
         /\ p \in Cells /\ p \notin was.atom /\ p \notin atom
         /\ car[p] = was.car[p] /\ cdr[p] = was.cdr[p]
         /\ Elems(was, p) = {}
         /\ \A q \in {was.car[p], was.cdr[p]} \ {Null} :
              /\ q \in Points(was, p) /\ q \in Cells
              /\ \A h \in Cells : q \notin Elems(was, h)
  <1>1. TypeOK /\ WellFormed(was) /\ was \in HeapType
    BY DEF MarkInv, TypeOK
  <1>2. p \in marked /\ p \notin Unfinished /\ root \in marked /\ p \in Cells
    BY <1>1 DEF MarkInv, PathInv, TypeOK
  <1>3. /\ p \notin was.atom /\ p \notin atom
        /\ car[p] = was.car[p] /\ cdr[p] = was.cdr[p]
    BY <1>2 DEF MarkInv, ColourInv, IntactInv, Unfinished
  <1>4. Elems(was, p) = {}
    <2>1. was.veclen[p] = 0
      BY <1>1, <1>2, <1>3 DEF WellFormed
    <2> QED
      BY <2>1 DEF Elems, NumCells
  <1>5. ASSUME NEW q \in {was.car[p], was.cdr[p]} \ {Null}
        PROVE  /\ q \in Points(was, p) /\ q \in Cells
               /\ \A h \in Cells : q \notin Elems(was, h)
    <2>1. q \in Points(was, p)
      BY <1>3, <1>5 DEF Points
    <2>2. q \in Cells
      BY <1>1, <1>2, <2>1, PointsType
    <2>3. \A h \in Cells : q \notin Elems(was, h)
      BY <1>1, <1>2, <1>4, <2>1 DEF WellFormed
    <2> QED
      BY <2>1, <2>2, <2>3
  <1> QED
    BY <1>2, <1>3, <1>4, <1>5

LEMMA DownCarStep == ASSUME MarkInv, DownCar PROVE MarkInv'
  <1>1. TypeOK
    BY DEF MarkInv
  <1>2. /\ p \in marked /\ p \notin Unfinished /\ root \in marked
        /\ p \in Cells /\ p \notin was.atom /\ p \notin atom
        /\ car[p] = was.car[p] /\ cdr[p] = was.cdr[p]
    BY PairFacts DEF DownCar
  <1>3. p' = was.car[p] /\ p' # Null /\ p' \notin marked /\ p' # p
    BY <1>2 DEF DownCar, Unvisited
  <1>4. /\ p' \in Points(was, p) /\ p' \in Cells
        /\ \A h \in Cells : p' \notin Elems(was, h)
    BY <1>3, PairFacts DEF DownCar
  <1>5. p' \notin Unfinished
    BY <1>3 DEF MarkInv, PathInv
  <1>6. Visited(p, "car") /\ Len(calls') \in Nat
    BY <1>1 DEF DownCar, TypeOK
  <1>7. TypeOK'
    <2>1. path' \in Seq(Entry)
      BY <1>6, PushFacts
    <2> QED
      BY <1>1, <1>2, <1>4, <2>1 DEF TypeOK, DownCar, history
  <1>8. GoesDown("car")
    BY <1>1, <1>2, <1>3, <1>4, <1>5 DEF GoesDown, DownCar, history, TypeOK
  <1>9. LinksDown("car")
    BY <1>1, <1>2, <1>3 DEF LinksDown, DownCar, TypeOK
  <1> QED
    BY <1>6, <1>7, <1>8, <1>9, PushStep DEF MarkInv

LEMMA DownCdrStep == ASSUME MarkInv, DownCdr PROVE MarkInv'
  <1>1. TypeOK
    BY DEF MarkInv
  <1>2. /\ p \in marked /\ p \notin Unfinished /\ root \in marked
        /\ p \in Cells /\ p \notin was.atom /\ p \notin atom
        /\ car[p] = was.car[p] /\ cdr[p] = was.cdr[p]
    BY PairFacts DEF DownCdr
  <1>3. p' = was.cdr[p] /\ p' # Null /\ p' \notin marked /\ p' # p
    BY <1>2 DEF DownCdr, Unvisited
  <1>4. /\ p' \in Points(was, p) /\ p' \in Cells
        /\ \A h \in Cells : p' \notin Elems(was, h)
    BY <1>3, PairFacts DEF DownCdr
  <1>5. p' \notin Unfinished
    BY <1>3 DEF MarkInv, PathInv
  <1>6. Visited(p, "cdr") /\ Len(calls') \in Nat
    BY <1>1 DEF DownCdr, TypeOK
  <1>7. TypeOK'
    <2>1. path' \in Seq(Entry)
      BY <1>6, PushFacts
    <2> QED
      BY <1>1, <1>2, <1>4, <2>1 DEF TypeOK, DownCdr, history
  <1>8. GoesDown("cdr")
    BY <1>1, <1>2, <1>3, <1>4, <1>5 DEF GoesDown, DownCdr, history, TypeOK
  <1>9. LinksDown("cdr")
    <2>1. was.car[p] \in marked \cup {Null}
      BY DEF MarkInv, ColourInv, DownCdr
    <2> QED
      BY <1>1, <1>2, <1>3, <2>1 DEF LinksDown, DownCdr, TypeOK
  <1> QED
    BY <1>6, <1>7, <1>8, <1>9, PushStep DEF MarkInv

-----------------------------------------------------------------------------
(* The steps that go up. *)

(* In E6: what p points to is marked; t and T_ATOM tell how p was reached. *)
LEMMA UpFacts ==
  ASSUME MarkInv, pc = "E6", NEW n, n = Len(path)
  PROVE  /\ n \in Nat /\ (path # <<>> => n \in 1..n /\ path[n] \in Entry)
         /\ p \in marked
         /\ t # Null => /\ path # <<>> /\ path[n].via \in {"car", "cdr"}
                        /\ t = path[n].cell /\ t \in Cells
                        /\ t \in atom <=> path[n].via = "car"
         /\ t = Null /\ calls # <<>> => path # <<>> /\ path[n].via = "elem"
         /\ t = Null /\ calls = <<>> => path = <<>>
  <1>1. TypeOK
    BY DEF MarkInv
  <1>2. path \in Seq(Entry) /\ calls \in Seq(Frame) /\ t \in Cells \cup {Null}
    BY <1>1 DEF TypeOK
  <1>3. n \in Nat /\ (path # <<>> => n \in 1..n /\ path[n] \in Entry)
        /\ (path = <<>> <=> n = 0)
    BY <1>2
  <1>4. p \in marked
    BY DEF MarkInv, PathInv
  <1>5. t = IF n + 1 = 1 \/ path[n + 1 - 1].via = "elem" THEN Null
            ELSE path[n + 1 - 1].cell
    BY DEF MarkInv, PathInv, Above
  <1>6. n + 1 - 1 = n /\ (n + 1 = 1 <=> n = 0)
    BY <1>3
  <1>7. path # <<>> => path[n].cell \in Cells /\ path[n].via \in {"car", "cdr", "elem"}
                       /\ path[n].cell # Null
    BY <1>3, CellsAssumption DEF Entry
  <1>8. ASSUME t # Null
        PROVE  /\ path # <<>> /\ path[n].via \in {"car", "cdr"}
               /\ t = path[n].cell /\ t \in Cells
               /\ t \in atom <=> path[n].via = "car"
    <2>1. /\ path # <<>> /\ path[n].via \in {"car", "cdr"}
          /\ t = path[n].cell /\ t \in Cells
      BY <1>3, <1>5, <1>6, <1>7, <1>8
    <2>2. t \in atom <=> path[n].via = "car"
      BY <1>3, <2>1 DEF MarkInv, LinksInv
    <2> QED
      BY <2>1, <2>2
  <1>9. ASSUME t = Null, path # <<>>
        PROVE  path[n].via = "elem" /\ Len(calls) > 0
    <2>1. path[n].via = "elem"
      BY <1>3, <1>5, <1>6, <1>7, <1>9
    <2>2. /\ path[n].depth = (IF n = 1 THEN 0 ELSE path[n - 1].depth) + 1
          /\ path[n].depth <= Len(calls)
      BY <1>3, <1>9, <2>1 DEF MarkInv, FramesInv
    <2>3. (IF n = 1 THEN 0 ELSE path[n - 1].depth) \in Nat
      <3>1. n # 1 => path[n - 1] \in Entry
        BY <1>2, <1>3, <1>9
      <3> QED
        BY <3>1 DEF Entry
    <2>4. Len(calls) \in Nat
      BY <1>2
    <2> QED
      BY <2>1, <2>2, <2>3, <2>4
  <1>10. path = <<>> => Len(calls) = 0
    BY DEF MarkInv, FramesInv
  <1>11. calls = <<>> <=> Len(calls) = 0
    BY <1>2
  <1> QED
    BY <1>3, <1>4, <1>8, <1>9, <1>10, <1>11

(* T_ATOM and the links of the cell gone up to, before the step. *)
LEMMA LastLinks ==
  ASSUME MarkInv, path # <<>>, NEW n, n = Len(path), NEW c, c = path[n].cell
  PROVE  /\ c \in Cells /\ n \in 1..n
         /\ path[n].via = "car" =>
              /\ c \notin was.atom /\ c \in atom /\ car[c] = Above(path, n)
              /\ was.car[c] = p /\ cdr[c] = was.cdr[c]
         /\ path[n].via = "cdr" =>
              /\ c \notin was.atom /\ c \notin atom /\ cdr[c] = Above(path, n)
              /\ was.cdr[c] = p /\ car[c] = was.car[c]
              /\ was.car[c] \in marked \cup {Null}
         /\ path[n].via = "elem" =>
              /\ (c \in atom <=> c \in was.atom)
              /\ car[c] = was.car[c] /\ cdr[c] = was.cdr[c]
              /\ path[n].i < NumCells(was.veclen[c]) /\ path[n].i \in Nat
              /\ p = c + 1 + path[n].i
              /\ FirstElems(c, path[n].i) \subseteq marked
  <1>1. TypeOK
    BY DEF MarkInv
  <1>2. n \in 1..n /\ path[n] \in Entry
    BY <1>1 DEF TypeOK
  <1>3. c \in Cells /\ path[n].i \in Nat
    BY <1>2 DEF Entry
  <1>4. Below(path, p, n) = p
    BY DEF Below
  <1>5. LinksInv /\ IntactInv /\ ColourInv
        /\ (\A j \in 1..Len(path) : path[j].cell = path[n].cell => j = n)
    BY <1>2 DEF MarkInv, PathInv
  <1>6. path[n].via = "car" =>
              /\ c \notin was.atom /\ c \in atom /\ car[c] = Above(path, n)
              /\ was.car[c] = p /\ cdr[c] = was.cdr[c]
    BY <1>2, <1>4, <1>5 DEF LinksInv
  <1>7. path[n].via = "cdr" =>
              /\ c \notin was.atom /\ c \notin atom /\ cdr[c] = Above(path, n)
              /\ was.cdr[c] = p /\ car[c] = was.car[c]
              /\ was.car[c] \in marked \cup {Null}
    BY <1>2, <1>4, <1>5 DEF LinksInv, ColourInv
  <1>8. path[n].via = "elem" =>
              /\ (c \in atom <=> c \in was.atom)
              /\ car[c] = was.car[c] /\ cdr[c] = was.cdr[c]
    BY <1>2, <1>3, <1>5 DEF IntactInv
  <1>9. path[n].via = "elem" =>
              /\ path[n].i < NumCells(was.veclen[c])
              /\ p = c + 1 + path[n].i
              /\ FirstElems(c, path[n].i) \subseteq marked
    BY <1>2, <1>4, <1>5 DEF LinksInv, ColourInv
  <1> QED
    BY <1>2, <1>3, <1>6, <1>7, <1>8, <1>9

LEMMA UpCarStep == ASSUME MarkInv, UpCar PROVE MarkInv'
  <1> DEFINE n == Len(path)
  <1>1. TypeOK
    BY DEF MarkInv
  <1>2. /\ path # <<>> /\ path[n].via = "car" /\ t = path[n].cell /\ t \in Cells
        /\ p \in marked
    BY UpFacts DEF UpCar
  <1>3. /\ t \notin was.atom /\ t \in atom /\ car[t] = Above(path, n)
        /\ was.car[t] = p /\ cdr[t] = was.cdr[t]
    BY <1>2, LastLinks
  <1>4. Leave /\ p' = path[n].cell
    BY <1>2 DEF UpCar
  <1>5. path' \in Seq(Entry)
    BY <1>2, <1>4, PopFacts
  <1> HIDE DEF n
  <1>6. TypeOK'
    BY <1>1, <1>2, <1>5 DEF TypeOK, UpCar, history
  <1>7. GoesUp
    <2>1. path[Len(path)].via = "car" /\ p' = path[Len(path)].cell
          /\ t' = Above(path, Len(path)) /\ p' = t
      BY <1>2, <1>3, <1>4 DEF n, UpCar
    <2>2. /\ \A c \in Cells \ {t} : /\ c \in atom' <=> c \in atom
                                    /\ car'[c] = car[c] /\ cdr'[c] = cdr[c]
          /\ t \in atom' <=> t \in was.atom
          /\ car'[t] = was.car[t] /\ cdr'[t] = was.cdr[t]
      BY <1>1, <1>2, <1>3 DEF UpCar, TypeOK
    <2> QED
      BY <2>1, <2>2 DEF GoesUp, UpCar, history
  <1>8. ColourUp
    BY <1>2, <1>3 DEF ColourUp, UpCar
  <1> QED
    BY <1>2, <1>4, <1>6, <1>7, <1>8, PopStep DEF MarkInv, UpCar

LEMMA UpCdrStep == ASSUME MarkInv, UpCdr PROVE MarkInv'
  <1> DEFINE n == Len(path)
  <1>1. TypeOK /\ WellFormed(was)
    BY DEF MarkInv
  <1>2. /\ path # <<>> /\ path[n].via = "cdr" /\ t = path[n].cell /\ t \in Cells
        /\ p \in marked
    BY UpFacts DEF UpCdr
  <1>3. /\ t \notin was.atom /\ t \notin atom /\ cdr[t] = Above(path, n)
        /\ was.cdr[t] = p /\ car[t] = was.car[t]
        /\ was.car[t] \in marked \cup {Null}
    BY <1>2, LastLinks
  <1>4. Leave /\ p' = path[n].cell
    BY <1>2 DEF UpCdr
  <1>5. path' \in Seq(Entry)
    BY <1>2, <1>4, PopFacts
  <1> HIDE DEF n
  <1>6. TypeOK'
    BY <1>1, <1>2, <1>5 DEF TypeOK, UpCdr, history
  <1>7. GoesUp
    <2>1. path[Len(path)].via = "cdr" /\ p' = path[Len(path)].cell
          /\ t' = Above(path, Len(path)) /\ p' = t
      BY <1>2, <1>3, <1>4 DEF n, UpCdr
    <2>2. /\ \A c \in Cells \ {t} : /\ c \in atom' <=> c \in atom
                                    /\ car'[c] = car[c] /\ cdr'[c] = cdr[c]
          /\ t \in atom' <=> t \in was.atom
          /\ car'[t] = was.car[t] /\ cdr'[t] = was.cdr[t]
      BY <1>1, <1>2, <1>3 DEF UpCdr, TypeOK
    <2> QED
      BY <2>1, <2>2 DEF GoesUp, UpCdr, history
  <1>8. ColourUp
    <2>1. was.veclen[t] = 0
      BY <1>1, <1>2, <1>3 DEF WellFormed
    <2>2. Elems(was, t) = {}
      BY <2>1 DEF Elems, NumCells
    <2>3. Points(was, t) \subseteq marked
      BY <1>2, <1>3, <2>2 DEF Points
    <2> QED
      BY <2>3 DEF ColourUp, UpCdr
  <1> QED
    BY <1>2, <1>4, <1>6, <1>7, <1>8, PopStep DEF MarkInv, UpCdr

LEMMA ReturnToElemsStep == ASSUME MarkInv, ReturnToElems PROVE MarkInv'
  <1> DEFINE n == Len(path)
             frame == calls[Len(calls)]
  <1>1. TypeOK
    BY DEF MarkInv
  <1>2. path # <<>> /\ path[n].via = "elem" /\ p \in marked
    BY UpFacts DEF ReturnToElems
  <1>3. Len(calls) = path[n].depth /\ n \in 1..n
    BY <1>2, LastLinks DEF MarkInv, FramesInv
  <1>4. frame = [p |-> path[n].cell, t |-> Above(path, n), i |-> path[n].i]
    BY <1>2, <1>3 DEF MarkInv, FramesInv
  <1>5. p' = path[n].cell /\ t' = Above(path, n) /\ i' = path[n].i + 1
    BY <1>4 DEF ReturnToElems
  <1>6. /\ path[n].cell \in Cells /\ path[n].i \in Nat
        /\ (p' \in atom <=> p' \in was.atom)
        /\ car[p'] = was.car[p'] /\ cdr[p'] = was.cdr[p']
        /\ path[n].i < NumCells(was.veclen[p'])
        /\ p = p' + 1 + path[n].i
        /\ FirstElems(p', path[n].i) \subseteq marked
    BY <1>2, <1>5, LastLinks
  <1>7. Leave
    BY DEF ReturnToElems
  <1>8. path' \in Seq(Entry)
    BY <1>2, <1>5, <1>7, PopFacts
  <1>9. frame \in Frame /\ calls' \in Seq(Frame)
    <2>1. calls \in Seq(Frame) /\ calls # <<>>
      BY <1>1 DEF TypeOK, ReturnToElems
    <2>2. Len(calls) > 0
      BY <2>1
    <2>3. calls' = SubSeq(calls, 1, Len(calls) - 1)
      BY DEF ReturnToElems
    <2> QED
      BY <2>1, <2>2, <2>3, FrontFacts
  <1> HIDE DEF n, frame
  <1>10. TypeOK'
    <2>1. t' \in Cells \cup {Null} /\ i' \in Nat /\ p' \in Cells
      BY <1>4, <1>5, <1>6, <1>9 DEF Frame
    <2> QED
      BY <1>1, <1>8, <1>9, <2>1 DEF TypeOK, ReturnToElems, heap, history
  <1>11. GoesUp
    BY <1>2, <1>5, <1>6 DEF GoesUp, ReturnToElems, heap, history, n
  <1>12. ColourUp
    <2>1. NumCells(was.veclen[p']) \in Nat
      BY <1>1, <1>5, <1>6, NumCellsNat DEF TypeOK, HeapType
    <2>2. i' <= NumCells(was.veclen[p']) /\ p' \in Nat
      BY <1>5, <1>6, <2>1, CellsAssumption
    <2>3. ASSUME NEW j \in 0..(i' - 1) PROVE p' + 1 + j \in marked
      <3>1. CASE j = path[n].i
        BY <1>2, <1>6, <3>1
      <3>2. CASE j # path[n].i
        <4>1. j \in 0..(path[n].i - 1)
          BY <1>5, <1>6, <3>2
        <4> QED
          BY <1>6, <4>1 DEF FirstElems
      <3> QED
        BY <3>1, <3>2
    <2>4. FirstElems(p', i') \subseteq marked
      BY <2>3 DEF FirstElems
    <2> QED
      BY <2>2, <2>4 DEF ColourUp, ReturnToElems
  <1> QED
    BY <1>2, <1>7, <1>10, <1>11, <1>12, PopStep DEF MarkInv, ReturnToElems

-----------------------------------------------------------------------------
(* The steps that stay where they are. *)
LEMMA SkipCarStep == ASSUME MarkInv, SkipCar PROVE MarkInv'
  <1> USE DEF heap, history
  <1>1. p \in Cells /\ car[p] = was.car[p] /\ TypeOK
    BY PairFacts DEF SkipCar, MarkInv
  <1>2. was.car[p] \in marked \cup {Null}
    BY <1>1 DEF SkipCar, Unvisited
  <1>3. TypeOK' /\ WellFormed(was)'
    BY DEF SkipCar, MarkInv, TypeOK
  <1>4. PathInv' /\ LinksInv'
    BY DEF SkipCar, MarkInv, PathInv, LinksInv, Unfinished
  <1>5. IntactInv' /\ FramesInv' /\ OwnerInv'
    BY DEF SkipCar, MarkInv, IntactInv, FramesInv, OwnerInv
  <1>6. ColourInv'
    BY <1>2 DEF SkipCar, MarkInv, ColourInv, Unfinished
  <1>7. ReachInv'
    BY DEF SkipCar, MarkInv, ReachInv, Reachable, Unfinished
  <1> QED
    BY <1>3, <1>4, <1>5, <1>6, <1>7 DEF MarkInv

LEMMA SkipCdrStep == ASSUME MarkInv, SkipCdr PROVE MarkInv'
  <1> USE DEF heap, history
  <1>1. p \in Cells /\ cdr[p] = was.cdr[p] /\ TypeOK /\ p \in marked
        /\ p \notin was.atom /\ Elems(was, p) = {}
    BY PairFacts DEF SkipCdr, MarkInv
  <1>2. Points(was, p) \subseteq marked
    BY <1>1 DEF SkipCdr, Unvisited, MarkInv, ColourInv, Points
  <1>3. TypeOK' /\ WellFormed(was)'
    BY DEF SkipCdr, MarkInv, TypeOK
  <1>4. PathInv' /\ LinksInv'
    BY DEF SkipCdr, MarkInv, PathInv, LinksInv, Unfinished
  <1>5. IntactInv' /\ FramesInv' /\ OwnerInv'
    BY DEF SkipCdr, MarkInv, IntactInv, FramesInv, OwnerInv
  <1>6. ColourInv'
    BY <1>2 DEF SkipCdr, MarkInv, ColourInv, Unfinished
  <1>7. ReachInv'
    BY DEF SkipCdr, MarkInv, ReachInv, Reachable, Unfinished
  <1> QED
    BY <1>3, <1>4, <1>5, <1>6, <1>7 DEF MarkInv

LEMMA ReturnStep == ASSUME MarkInv, Return PROVE MarkInv'
  <1> USE DEF heap, history
  <1>1. path = <<>>
    BY UpFacts DEF Return
  <1>2. TypeOK' /\ WellFormed(was)'
    BY DEF Return, MarkInv, TypeOK
  <1>3. PathInv' /\ LinksInv'
    BY <1>1 DEF Return, MarkInv, PathInv, LinksInv, Unfinished
  <1>4. IntactInv' /\ FramesInv' /\ OwnerInv'
    BY DEF Return, MarkInv, IntactInv, FramesInv, OwnerInv
  <1>5. ColourInv'
    BY DEF Return, MarkInv, ColourInv, Unfinished
  <1>6. ReachInv'
    BY DEF Return, MarkInv, ReachInv, Reachable, Unfinished
  <1> QED
    BY <1>2, <1>3, <1>4, <1>5, <1>6 DEF MarkInv

LEMMA StutterStep == ASSUME MarkInv, UNCHANGED vars PROVE MarkInv'
  <1> USE DEF vars
  <1>1. TypeOK' /\ WellFormed(was)'
    BY DEF MarkInv, TypeOK
  <1>2. PathInv' /\ LinksInv'
    BY DEF MarkInv, PathInv, LinksInv, Unfinished
  <1>3. IntactInv' /\ FramesInv' /\ OwnerInv'
    BY DEF MarkInv, IntactInv, FramesInv, OwnerInv
  <1>4. ColourInv' /\ ReachInv'
    BY DEF MarkInv, ColourInv, ReachInv, Reachable, Unfinished
  <1> QED
    BY <1>1, <1>2, <1>3, <1>4 DEF MarkInv

-----------------------------------------------------------------------------
(* The inductive invariant: at every step of mark() the links of the heap  *)
(* are those it was called with, but for exactly one inverted link in each *)
(* pair on the way to the current cell.                                    *)
THEOREM Invariance == Spec => []MarkInv
  <1>1. ASSUME MarkInv, [Next]_vars PROVE MarkInv'
    <2>1. CASE E2
      BY <1>1, <2>1, E2Step
    <2>2. CASE CallOnElem
      BY <1>1, <2>2, CallOnElemStep
    <2>3. CASE AfterElems
      BY <1>1, <2>3, AfterElemsStep
    <2>4. CASE DownCar
      BY <1>1, <2>4, DownCarStep
    <2>5. CASE SkipCar
      BY <1>1, <2>5, SkipCarStep
    <2>6. CASE DownCdr
      BY <1>1, <2>6, DownCdrStep
    <2>7. CASE SkipCdr
      BY <1>1, <2>7, SkipCdrStep
    <2>8. CASE UpCar
      BY <1>1, <2>8, UpCarStep
    <2>9. CASE UpCdr
      BY <1>1, <2>9, UpCdrStep
    <2>10. CASE ReturnToElems
      BY <1>1, <2>10, ReturnToElemsStep
    <2>11. CASE Return
      BY <1>1, <2>11, ReturnStep
    <2>12. CASE UNCHANGED vars
      BY <1>1, <2>12, StutterStep
    <2> QED
      BY <1>1, <2>1, <2>2, <2>3, <2>4, <2>5, <2>6, <2>7, <2>8, <2>9, <2>10,
         <2>11, <2>12 DEF Next
  <1> QED
    BY <1>1, InitStep, PTL DEF Spec

(* mark() keeps its state well typed: its pointers always point to cells. *)
THEOREM TypeCorrect == Spec => []TypeOK
  <1>1. MarkInv => TypeOK
    BY DEF MarkInv
  <1> QED
    BY <1>1, Invariance, PTL

(* Link inversion is undone when mark() returns, on every heap. *)
THEOREM Restoration == Spec => []Restored
  <1>1. MarkInv => Restored
    <2> SUFFICES ASSUME MarkInv, pc = "done"
                 PROVE  atom = was.atom /\ car = was.car /\ cdr = was.cdr
      BY DEF Restored
    <2>1. path = <<>> /\ TypeOK
      BY DEF MarkInv, PathInv
    <2>2. \A c \in Cells : /\ c \in atom <=> c \in was.atom
                           /\ car[c] = was.car[c] /\ cdr[c] = was.cdr[c]
      BY <2>1 DEF MarkInv, IntactInv
    <2>3. /\ car \in [Cells -> Cells \cup {Null}] /\ was.car \in [Cells -> Cells \cup {Null}]
          /\ cdr \in [Cells -> Cells \cup {Null}] /\ was.cdr \in [Cells -> Cells \cup {Null}]
          /\ atom \subseteq Cells /\ was.atom \subseteq Cells
      BY <2>1 DEF TypeOK, HeapType
    <2> QED
      BY <2>2, <2>3
  <1> QED
    BY <1>1, Invariance, PTL

(* When mark() returns, the marked cells are those marked before and those *)
(* that can be reached from its argument, on every heap.                   *)
THEOREM Exactness == Spec => []MarksReachable
  <1>1. MarkInv /\ was.marked \subseteq marked => MarksReachable
    <2> SUFFICES ASSUME MarkInv, was.marked \subseteq marked, pc = "done"
                 PROVE  marked = was.marked \cup Reachable
      BY DEF MarksReachable
    <2>1. path = <<>> /\ TypeOK /\ WellFormed(was) /\ root \in marked
      BY DEF MarkInv, PathInv
    <2>2. \A c \in marked : Points(was, c) \subseteq marked
      BY <2>1 DEF MarkInv, ColourInv, Unfinished
    <2>3. Reachable \subseteq marked
      BY <2>1, <2>2, ReachableFacts DEF TypeOK
    <2> QED
      BY <2>3 DEF MarkInv, ReachInv
  <1>2. Init => was.marked \subseteq marked
    BY DEF Init
  <1>3. was.marked \subseteq marked /\ [Next]_vars => (was.marked \subseteq marked)'
    BY DEF Next, vars, heap, history, E2, CallOnElem, AfterElems, DownCar, SkipCar,
       DownCdr, SkipCdr, UpCar, UpCdr, ReturnToElems, Return
  <1> QED
    BY <1>1, <1>2, <1>3, Invariance, PTL DEF Spec

(* Each call of mark() that waits is one for the elements of a vector of   *)
(* its own: the depths of the path rise by one at each of them.            *)
LEMMA CallsOfVectors ==
  ASSUME MarkInv, NEW n \in 1..Len(calls)
  PROVE  \E k \in 1..Len(path) :
           /\ path[k].depth = n
           /\ calls[n].p = path[k].cell
           /\ path[k].cell \in Cells
           /\ was.veclen[path[k].cell] > 0
  <1> DEFINE l == Len(path)
             S == {k \in 1..l : n <= path[k].depth}
  <1>1. /\ path \in Seq(Entry) /\ calls \in Seq(Frame) /\ l \in Nat /\ Len(calls) \in Nat
        /\ \A k \in 1..l : path[k] \in Entry
        /\ was.veclen \in [Cells -> Nat]
    BY DEF MarkInv, TypeOK, HeapType
  <1>2. l \in S
    <2>1. path # <<>> /\ Len(calls) = path[l].depth
      BY <1>1 DEF MarkInv, FramesInv
    <2> QED
      BY <1>1, <2>1
  <1>3. PICK k \in S : \A j \in S : k <= j
    <2>1. S \in SUBSET Nat
      BY <1>1
    <2>2. PICK k \in S : \A j \in S : ~(<<j, k>> \in OpToRel(<, Nat))
      <3> HIDE DEF S
      <3> QED
        BY <1>2, <2>1, NatLessThanWellFounded, WFMin
    <2>3. \A j \in S : ~(j < k)
      BY <2>1, <2>2 DEF OpToRel
    <2>4. k \in Nat /\ \A j \in S : j \in Nat
      BY <2>1
    <2> QED
      BY <2>3, <2>4
  <1>4. /\ k \in 1..l /\ n <= path[k].depth
        /\ path[k].cell \in Cells /\ path[k].depth \in Nat /\ path[k].i \in Nat
        /\ k > 1 => k - 1 \in 1..l /\ path[k - 1].depth \in Nat
    <2>1. k \in 1..l /\ n <= path[k].depth
      BY <1>3
    <2>2. \A j \in 1..l : path[j].cell \in Cells /\ path[j].depth \in Nat /\ path[j].i \in Nat
      BY <1>1 DEF Entry
    <2>3. k > 1 => k - 1 \in 1..l
      BY <1>1, <2>1
    <2> QED
      BY <2>1, <2>2, <2>3
  <1>5. /\ path[k].depth = (IF k = 1 THEN 0 ELSE path[k - 1].depth) +
                           (IF path[k].via = "elem" THEN 1 ELSE 0)
        /\ path[k].via = "elem" =>
             /\ calls[path[k].depth] = [p |-> path[k].cell, t |-> Above(path, k),
                                        i |-> path[k].i]
    BY <1>4 DEF MarkInv, FramesInv
  <1>6. k > 1 => path[k - 1].depth < n
    <2> SUFFICES ASSUME k > 1, ~(path[k - 1].depth < n) PROVE FALSE
      OBVIOUS
    <2>1. n <= path[k - 1].depth
      BY <1>4
    <2>2. k - 1 \in S
      BY <1>4, <2>1
    <2> QED
      BY <1>3, <1>4, <2>2
  <1>7. path[k].via = "elem" /\ path[k].depth = n
    BY <1>4, <1>5, <1>6
  <1>8. was.veclen[path[k].cell] > 0
    <2>1. path[k].i < NumCells(was.veclen[path[k].cell])
      BY <1>4, <1>7 DEF MarkInv, LinksInv
    <2>2. was.veclen[path[k].cell] \in Nat
      BY <1>1, <1>4
    <2> QED
      BY <1>4, <2>1, <2>2 DEF NumCells
  <1> QED
    BY <1>4, <1>5, <1>7, <1>8

(* At no time does the C stack hold more calls of mark() than the heap has *)
(* vectors, however long its lists are, if there are finitely many cells.  *)
THEOREM RecursionIsBounded ==
  ASSUME IsFiniteSet(Cells)
  PROVE  Spec => []RecursionBound
  <1>1. MarkInv => RecursionBound
    <2> SUFFICES ASSUME MarkInv PROVE RecursionBound
      OBVIOUS
    <2> DEFINE vectors == {c \in Cells : was.veclen[c] > 0}
               D == 1..Len(calls)
               f == [n \in D |-> calls[n].p]
    <2>1. Len(calls) \in Nat /\ Len(path) \in Nat
      BY DEF MarkInv, TypeOK
    <2>2. \A n \in D : f[n] \in vectors
      <3> SUFFICES ASSUME NEW n \in D PROVE f[n] \in vectors
        OBVIOUS
      <3>1. PICK k \in 1..Len(path) :
              /\ path[k].depth = n
              /\ calls[n].p = path[k].cell
              /\ path[k].cell \in Cells
              /\ was.veclen[path[k].cell] > 0
        BY CallsOfVectors
      <3> QED
        BY <3>1
    <2>3. \A m, n \in D : f[m] = f[n] => m = n
      <3> SUFFICES ASSUME NEW m \in D, NEW n \in D, calls[m].p = calls[n].p PROVE m = n
        OBVIOUS
      <3>1. PICK j \in 1..Len(path) : path[j].depth = m /\ calls[m].p = path[j].cell
        BY CallsOfVectors
      <3>2. PICK k \in 1..Len(path) : path[k].depth = n /\ calls[n].p = path[k].cell
        BY CallsOfVectors
      <3>3. j = k
        BY <3>1, <3>2 DEF MarkInv, PathInv
      <3> QED
        BY <3>1, <3>2, <3>3
    <2>4. f \in Injection(D, vectors)
      <3> HIDE DEF D, vectors
      <3>1. f \in [D -> vectors]
        BY <2>2
      <3> HIDE DEF f
      <3> QED
        BY <2>3, <3>1 DEF Injection, IsInjective
    <2>5. IsFiniteSet(vectors)
      BY FS_Subset
    <2>6. Cardinality(D) <= Cardinality(vectors)
      <3> HIDE DEF D, vectors, f
      <3> QED
        BY <2>4, <2>5, FS_Injection
    <2>7. Cardinality(D) = Len(calls)
      <3>1. 1 \in Int /\ Len(calls) \in Int
        BY <2>1
      <3>2. Cardinality(D) = IF 1 > Len(calls) THEN 0 ELSE Len(calls) - 1 + 1
        BY <3>1, FS_Interval, Zenon
      <3> QED
        BY <2>1, <3>2
    <2> QED
      BY <2>6, <2>7 DEF RecursionBound
  <1> QED
    BY <1>1, Invariance, PTL

(* mark() implements the abstract tracing: a step marks one more cell that *)
(* a marked cell points to, or it is invisible; and it returns only when   *)
(* everything reachable is marked.                                         *)
THEOREM Refinement == Spec => Traces
  <1> DEFINE g == Graph(was)
  <1>1. Init => T!TraceInit
    <2> SUFFICES ASSUME Init PROVE T!TraceInit
      OBVIOUS
    <2>1. MarkInv
      BY InitStep
    <2>2. \A c \in Cells : Points(was, c) \subseteq Cells
      BY <2>1, PointsType DEF MarkInv, TypeOK
    <2>3. g \in [Cells -> SUBSET Cells]
      BY <2>2 DEF Graph
    <2>4. T!ClosedIn(marked, g)
      BY <2>1 DEF Init, T!ClosedIn, MarkInv, TypeOK, WellFormed, Graph
    <2> QED
      BY <2>1, <2>3, <2>4 DEF Init, T!TraceInit, MarkInv, TypeOK
  <1>2. ASSUME MarkInv, [Next]_vars
        PROVE  [T!TraceNext]_<<g, root, marked, pc = "done">>
    <2> USE DEF heap, history
    <2>1. CASE E2
      <3>1. p \in Cells /\ path \in Seq(Entry)
        BY <1>2 DEF MarkInv, TypeOK
      <3>2. g' = g /\ root' = root /\ (pc = "done") = FALSE /\ (pc' = "done") = FALSE
        BY <2>1 DEF E2
      <3>3. CASE p \in marked
        BY <2>1, <3>2, <3>3 DEF E2
      <3>4. CASE p \notin marked
        <4>1. p = root \/ \E d \in marked : p \in g[d]
          <5>1. CASE path = <<>>
            BY <1>2, <2>1, <3>4, <5>1 DEF MarkInv, PathInv
          <5>2. CASE path # <<>>
            <6> DEFINE n == Len(path)
                       d == path[n].cell
            <6>1. n \in 1..n /\ path[n] \in Entry
              BY <3>1, <5>2
            <6>2. d \in marked /\ d \in Cells /\ path[n].via \in {"car", "cdr", "elem"}
              BY <1>2, <6>1 DEF MarkInv, PathInv, Unfinished, Entry
            <6>3. p \in Points(was, d)
              <7>1. /\ path[n].via = "car" => d \notin was.atom /\ was.car[d] = p
                    /\ path[n].via = "cdr" => d \notin was.atom /\ was.cdr[d] = p
                    /\ path[n].via = "elem" =>
                         /\ path[n].i < NumCells(was.veclen[d]) /\ path[n].i \in Nat
                         /\ p = d + 1 + path[n].i
                BY <1>2, <5>2, LastLinks
              <7>2. p # Null /\ NumCells(was.veclen[d]) \in Nat /\ d \in Nat
                BY <1>2, <3>1, <6>2, CellsAssumption, NumCellsNat
                   DEF MarkInv, TypeOK, HeapType
              <7>3. path[n].via = "elem" => p \in Elems(was, d)
                <8>1. path[n].via = "elem" =>
                        /\ path[n].i + 1 \in 1..NumCells(was.veclen[d])
                        /\ p = d + (path[n].i + 1)
                  BY <7>1, <7>2
                <8> QED
                  BY <8>1 DEF Elems
              <7> QED
                BY <6>2, <7>1, <7>2, <7>3 DEF Points
            <6> QED
              BY <6>2, <6>3 DEF Graph
          <5> QED
            BY <5>1, <5>2
        <4>2. T!Visit(p)
          BY <2>1, <3>2, <3>4, <4>1 DEF E2, T!Visit
        <4> QED
          BY <3>1, <4>2 DEF T!TraceNext
      <3> QED
        BY <3>3, <3>4
    <2>2. CASE Return
      <3>1. path = <<>> /\ root \in marked
        BY <1>2, <2>2, UpFacts DEF Return, MarkInv, PathInv
      <3>2. T!ClosedIn(marked, g)
        BY <1>2, <2>2, <3>1
           DEF Return, MarkInv, ColourInv, Unfinished, T!ClosedIn, Graph, TypeOK
      <3>3. T!Finish
        BY <2>2, <3>1, <3>2 DEF Return, T!Finish
      <3> QED
        BY <3>3 DEF T!TraceNext
    <2>3. CASE CallOnElem \/ AfterElems \/ SkipCar \/ SkipCdr \/ UpCdr
      BY <2>3 DEF CallOnElem, AfterElems, SkipCar, SkipCdr, UpCdr
    <2>4. CASE DownCar \/ DownCdr \/ UpCar \/ ReturnToElems
      BY <2>4 DEF DownCar, DownCdr, UpCar, ReturnToElems
    <2>5. CASE UNCHANGED vars
      BY <2>5 DEF vars
    <2> QED
      BY <1>2, <2>1, <2>2, <2>3, <2>4, <2>5 DEF Next
  <1> QED
    BY <1>1, <1>2, Invariance, PTL DEF Spec, Traces, T!TraceSpec, T!tvars
=============================================================================
