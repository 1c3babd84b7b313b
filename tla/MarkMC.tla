------------------------------- MODULE MarkMC -------------------------------
(* Small heaps for Mark: every graph of pairs and atoms over a few cells,  *)
(* with every placement of the vectors of given lengths.                   *)
EXTENDS Mark

CONSTANTS MaxCell,      \* the cells are 1..MaxCell
          Few,          \* heaps on the cells 1..Few
          FewLens,      \* lengths of their vectors (0: no vector there)
          VecLens,      \* lengths of vectors in the heaps on all cells,
          MinElems,     \* of which at least so many are element cells
          MaxMarked     \* cells that earlier calls have marked

MCCells == 1..MaxCell

Headers(v) == {c \in DOMAIN v : v[c] > 0}
Inside(v, c) == (c + 1)..(c + NumCells(v[c]))
Inner(v) == UNION {Inside(v, c) : c \in Headers(v)}

(* Vector lengths whose element cells fit and overlap no other vector. *)
Layouts(n, lens) ==
  {v \in [1..n -> lens] :
     \A c \in Headers(v) : Inside(v, c) \subseteq (1..n) \ Headers(v)}

(* Element cells are pairs, headers are atoms, the others are either; a    *)
(* pair points to no element cell.                                         *)
HeapsWith(v) ==
  LET inner == Inner(v)
      outside == DOMAIN v \ inner
      lens == [c \in MCCells |-> IF c \in DOMAIN v THEN v[c] ELSE 0]
      AllCells(f) == [c \in MCCells |-> IF c \in DOMAIN f THEN f[c] ELSE Null]
      Links(pairs) == {AllCells(f) : f \in [pairs -> outside \cup {Null}]}
      HeapsOn(pairs) ==
        [atom : {MCCells \ pairs}, car : Links(pairs), cdr : Links(pairs),
         veclen : {lens}, marked : {{}}]
  IN  UNION {HeapsOn(inner \cup pairs) : pairs \in SUBSET (outside \ Headers(v))}

Marks(h) == {m \in SUBSET MCCells : /\ Cardinality(m) <= MaxMarked
                                     /\ \A c \in m : Points(h, c) \subseteq m}
WithMarks(h) ==
  [atom : {h.atom}, car : {h.car}, cdr : {h.cdr}, veclen : {h.veclen},
   marked : Marks(h)]

MCHeaps ==
  LET few == UNION {HeapsWith(v) : v \in Layouts(Few, FewLens)}
      wide == {v \in Layouts(MaxCell, VecLens) : Cardinality(Inner(v)) >= MinElems}
  IN  UNION {WithMarks(h) : h \in few \cup UNION {HeapsWith(v) : v \in wide}}
=============================================================================
