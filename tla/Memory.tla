------------------------------- MODULE Memory -------------------------------
(***************************************************************************)
(* What the storage manager promises the interpreter, with no free list,   *)
(* no segments and no marking in it: cells are handed out that nobody      *)
(* uses, a collection takes back only cells that cannot be reached, and    *)
(* neither touches what a cell in use holds.  CellHeap.tla is shown to     *)
(* implement this module.                                                  *)
(***************************************************************************)
CONSTANT Cells                  \* the cells there can ever be

VARIABLES used,                 \* the cells that are not free
          points,               \* points[c]: the cells that c points to
          regs,                 \* what the registers point to
          held                  \* what C code in the middle of an opcode holds

mvars == <<used, points, regs, held>>

(* S is closed under "points to" in the graph g. *)
ClosedUnder(S, g) == \A c \in S : g[c] \subseteq S

(* What an opcode can lay its hands on without storing it in between: it   *)
(* follows one pointer, or two when the first leads to the inside of a     *)
(* vector.                                                                 *)
AtHand == regs \cup held
Targets(S) == UNION {points[c] : c \in S}
Near == AtHand \cup Targets(AtHand) \cup Targets(Targets(AtHand))

MemInit ==
  /\ used = {} /\ regs = {} /\ held = {}
  /\ points = [c \in Cells |-> {}]

(* Cells X that are not in use are handed out; what they point to is at    *)
(* hand already.                                                           *)
Alloc(X) ==
  /\ X # {} /\ X \subseteq Cells /\ X \cap used = {}
  /\ used' = used \cup X
  /\ held' \subseteq AtHand \cup X
  /\ \A c \in X : points'[c] \subseteq X \cup AtHand
  /\ \A c \in Cells \ X : points'[c] = points[c]
  /\ points' \in [Cells -> SUBSET Cells]
  /\ UNCHANGED regs

(* A collection keeps a set of cells that holds everything at hand and     *)
(* that no pointer leaves, as it was.                                      *)
Collect(K) ==
  /\ K \subseteq used
  /\ AtHand \subseteq K
  /\ ClosedUnder(K, points)
  /\ used' = K
  /\ points' = [c \in Cells |-> IF c \in K THEN points[c] ELSE {}]
  /\ UNCHANGED <<regs, held>>

(* The interpreter moves pointers between registers and C variables... *)
Move ==
  /\ regs' \subseteq Near
  /\ held' \subseteq Near
  /\ UNCHANGED <<used, points>>

(* ...and stores them in cells that it has, or in the inside of a vector   *)
(* that it has.                                                            *)
Store ==
  /\ points' \in [Cells -> SUBSET Cells]
  /\ \A c \in Cells : IF c \in Near \cup Targets(Near)
                    THEN points'[c] \subseteq points[c] \cup Near
                    ELSE points'[c] = points[c]
  /\ UNCHANGED <<used, regs, held>>

MemNext ==
  \/ Alloc(used' \ used)
  \/ Collect(used')
  \/ Move
  \/ Store

MemSpec == MemInit /\ [][MemNext]_mvars
-----------------------------------------------------------------------------
MemTypeOK ==
  /\ used \in SUBSET Cells
  /\ points \in [Cells -> SUBSET Cells]
  /\ regs \in SUBSET Cells
  /\ held \in SUBSET Cells

(* What is at hand is in use and no pointer leads from there to a cell     *)
(* that is not: the inductive form of NothingDangles.                      *)
Sound == AtHand \subseteq used /\ ClosedUnder(used, points)

(* Every cell the interpreter can reach, through any number of pointers,   *)
(* is in use: it lies in every set that holds what is at hand and that no  *)
(* pointer leaves.                                                         *)
AccessibleCells ==
  {c \in Cells : \A S \in SUBSET Cells :
                   AtHand \subseteq S /\ ClosedUnder(S, points) => c \in S}

NothingDangles == AccessibleCells \subseteq used
=============================================================================
