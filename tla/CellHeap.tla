------------------------------ MODULE CellHeap ------------------------------
(***************************************************************************)
(* The storage manager of src/scheme.c: cell segments, the free list that  *)
(* threads through the free cells in address order, allocation of single   *)
(* cells and of runs of cells for vectors, the chain of recent allocations *)
(* and the collector.  Mark.tla shows that mark() marks what is reachable; *)
(* here marking spreads one generation of pointers per step.               *)
(*                                                                         *)
(* The interpreter is the set of things an opcode does with cells between  *)
(* two calls of ok_to_freely_gc: it holds cells in C variables (locals),   *)
(* allocates, stores, and assigns registers.                               *)
(***************************************************************************)
EXTENDS Integers, Sequences, FiniteSetsExt

CONSTANTS Bases,        \* where malloc may place a segment
          SegSize,      \* CELL_SEGSIZE
          NSegments,    \* CELL_NSEGMENT
          Recover,      \* cells to be recovered per segment, 8 in the code
          Regs,         \* registers the collector marks
          VecLens,      \* lengths that make-vector is asked for
          Reserves,     \* numbers of cells that reserve_cells is asked for
          MaxLocals,    \* cells an opcode allocates at most
          Opcodes       \* what programs do besides: "cons", "foreign",
                        \* "gc", "vector-set!", "fill-vector", and "car",
                        \* "cdr" for set-car! and set-cdr!

NIL == 0                \* sc->NIL
Sink == -1              \* sc->sink

(* malloc never hands out adjacent memory: alloc_cellseg asks for ADJ      *)
(* bytes more than the cells take.                                         *)
ASSUME LayoutAssumption ==
  /\ SegSize \in Nat \ {0} /\ NSegments \in Nat \ {0} /\ Recover \in Nat
  /\ Bases \subseteq Nat \ {0} /\ Bases # {}
  /\ \A b, d \in Bases : b < d => b + SegSize < d
  /\ VecLens \subseteq Nat /\ Reserves \subseteq Nat

Block(b) == b .. (b + SegSize - 1)
Cells == UNION {Block(b) : b \in Bases}

VARIABLES cell_seg,     \* bases of the segments, in the order of the array
          kind,         \* typeflag: "free", "pair", "vector" or "elem"
          car, cdr, len,
          free_cell, fcells,
          sink_car,     \* car(sc->sink): chain of recent allocations
          no_memory,
          reg,          \* the registers
          locals,       \* cells an opcode holds in C variables only
          pc, call,     \* where in the allocator, and its variables
          marked

lists == <<cell_seg, free_cell, fcells>>
cells == <<kind, car, cdr, len>>
vars == <<cell_seg, kind, car, cdr, len, free_cell, fcells, sink_car,
          no_memory, reg, locals, pc, call, marked>>

Ptr(S) == S \ {NIL, Sink}
Allocated == UNION {Block(cell_seg[i]) : i \in 1..Len(cell_seg)}
Free == {c \in Allocated : kind[c] = "free"}

(* The element cells of the vector c: two elements to a cell. *)
NumCells(n) == (n \div 2) + (n % 2)
Elems(c) == {c + j : j \in 1..NumCells(len[c])}

Points(c) ==
  CASE kind[c] = "free"            -> {}
    [] kind[c] = "vector"          -> Elems(c)
    [] kind[c] \in {"pair", "elem"} -> Ptr({car[c], cdr[c]})

(* car and cdr of a pair, the elements of a vector. *)
Fields(c) ==
  IF c = Sink THEN {}
  ELSE CASE kind[c] = "vector" -> UNION {{car[e], cdr[e]} : e \in Elems(c)}
         [] kind[c] = "pair"   -> {car[c], cdr[c]}
         [] OTHER              -> {}

(* What an opcode can reach by one car, cdr or vector_elem. *)
InHand == ({reg[r] : r \in Regs} \cup locals) \ {NIL}
InReach == {NIL} \cup InHand \cup UNION {Fields(c) : c \in InHand}

(* The variables of the allocator between two calls. *)
(* a, b: what the collector is to keep; x: a cell that has no holder yet;  *)
(* n: cells or elements asked for; back: where the collector and           *)
(* alloc_cellseg return to; pp: where on the free list; seg: a segment to  *)
(* be linked in.                                                           *)
Idle == [a |-> NIL, b |-> NIL, x |-> NIL, n |-> 0, back |-> "run", tries |-> 0,
         pp |-> NIL, seg |-> NIL]

Init ==
  /\ \E b \in Bases :
       /\ cell_seg = <<b>>
       /\ cdr = [c \in Cells |-> IF c \in Block(b) /\ c + 1 \in Block(b)
                                 THEN c + 1 ELSE NIL]
       /\ free_cell = b
  /\ kind = [c \in Cells |-> "free"]
  /\ car = [c \in Cells |-> NIL]
  /\ len = [c \in Cells |-> 0]
  /\ fcells = SegSize
  /\ sink_car = NIL
  /\ no_memory = FALSE
  /\ reg = [r \in Regs |-> NIL]
  /\ locals = {}
  /\ pc = "run" /\ call = Idle
  /\ marked = {}
-----------------------------------------------------------------------------
(* get_cell and push_recent_alloc                                          *)

(* cons(a, b): a and b are protected while the cell is found. *)
Cons(a, b) ==
  /\ pc = "run"
  /\ a \in InReach /\ b \in InReach
  /\ call' = [Idle EXCEPT !.a = a, !.b = b]
  /\ pc' = "cell"
  /\ UNCHANGED <<lists, cells, sink_car, no_memory, reg, locals, marked>>

PopFree ==
  /\ free_cell # NIL
  /\ free_cell' = cdr[free_cell]
  /\ fcells' = fcells - 1

(* get_cell: a cell is taken and typed as a pair of a and b at once; the   *)
(* holder to be allocated next must find it by itself.                     *)
TakeCell ==
  /\ pc = "cell"
  /\ PopFree
  /\ kind' = [kind EXCEPT ![free_cell] = "pair"]
  /\ car' = [car EXCEPT ![free_cell] = call.a]
  /\ cdr' = [cdr EXCEPT ![free_cell] = call.b]
  /\ call' = [Idle EXCEPT !.x = free_cell, !.a = free_cell]
  /\ pc' = "holder"
  /\ UNCHANGED <<cell_seg, len, sink_car, no_memory, reg, locals, marked>>

(* push_recent_alloc: the new cell is put on the chain that hangs from the *)
(* sink, and goes to the caller.                                           *)
HoldRecent ==
  /\ pc = "holder"
  /\ PopFree
  /\ kind' = [kind EXCEPT ![free_cell] = "pair"]
  /\ car' = [car EXCEPT ![free_cell] = call.x]
  /\ cdr' = [cdr EXCEPT ![free_cell] = sink_car]
  /\ sink_car' = free_cell
  /\ locals' = locals \cup ({call.x} \ {NIL})
  /\ call' = Idle /\ pc' = "run"
  /\ UNCHANGED <<cell_seg, len, no_memory, reg, marked>>

(* _get_cell after memory has run out: the caller gets the sink, into      *)
(* which get_cell and push_recent_alloc write; the chain is lost.          *)
TakeSink ==
  /\ pc \in {"cell", "holder"}
  /\ free_cell = NIL /\ no_memory
  /\ sink_car' = Sink
  /\ locals' = locals \cup {IF pc = "cell" THEN Sink ELSE call.x}
  /\ call' = Idle /\ pc' = "run"
  /\ UNCHANGED <<lists, cells, no_memory, reg, marked>>
(* REAL_APPLY keeps the arguments of a foreign function from being         *)
(* collected by calls that the function makes.                             *)
HoldArgs(r) ==
  /\ pc = "run"
  /\ call' = [Idle EXCEPT !.x = reg[r], !.a = reg[r]]
  /\ pc' = "holder"
  /\ UNCHANGED <<lists, cells, sink_car, no_memory, reg, locals, marked>>
-----------------------------------------------------------------------------
(* get_vector_object and get_consecutive_cells                             *)

MkVector(n) ==
  /\ pc = "run"
  /\ call' = [Idle EXCEPT !.n = n]
  /\ pc' = "find"
  /\ UNCHANGED <<lists, cells, sink_car, no_memory, reg, locals, marked>>

Needed == NumCells(call.n) + 1

(* What pp points at: it points to sc->free_cell first, then to the cdr of *)
(* a free cell.                                                            *)
At(pp) == IF pp = NIL THEN free_cell ELSE cdr[pp]

(* The count from x on is n or more. *)
count_consecutive_cells(x, n) == \A c \in x .. (x + n - 2) : cdr[c] = c + 1

(* find_consecutive_cells passes a run that is too short: pp goes to the   *)
(* cdr of its last cell.                                                   *)
SkipRun ==
  /\ pc = "find" /\ ~no_memory
  /\ LET x == At(call.pp)
     IN  /\ x # NIL
         /\ ~count_consecutive_cells(x, Needed)
         /\ \E q \in x .. (x + Needed - 2) :
              /\ count_consecutive_cells(x, q - x + 1) /\ cdr[q] # q + 1
              /\ call' = [call EXCEPT !.pp = q]
  /\ UNCHANGED <<lists, cells, sink_car, no_memory, reg, locals, pc, marked>>

(* Mutant: only the first cell of the run is taken off the list. *)
UnlinkFirstOnly(pp, x, n) ==
  /\ free_cell' = IF pp = NIL THEN cdr[x] ELSE free_cell
  /\ cdr' = [c \in Cells |->
               CASE c \in x .. (x + n - 1)  -> NIL
                 [] pp # NIL /\ c = pp      -> cdr[x]
                 [] OTHER                   -> cdr[c]]
  /\ fcells' = fcells - n

(* What follows the run of n cells at x takes its place on the list. *)
Unlink(pp, x, n) ==
  /\ free_cell' = IF pp = NIL THEN cdr[x + n - 1] ELSE free_cell
  /\ cdr' = [c \in Cells |->
               CASE c \in x .. (x + n - 1)  -> NIL
                 [] pp # NIL /\ c = pp      -> cdr[x + n - 1]
                 [] OTHER                   -> cdr[c]]
  /\ fcells' = fcells - n

(* A run that is long enough is cut out and becomes a vector filled with   *)
(* NIL.                                                                    *)
TakeRun ==
  /\ pc = "find" /\ ~no_memory
  /\ LET x == At(call.pp)
     IN  /\ x # NIL
         /\ count_consecutive_cells(x, Needed)
         /\ Unlink(call.pp, x, Needed)
         /\ kind' = [c \in Cells |-> CASE c = x -> "vector"
                                       [] c \in (x + 1) .. (x + Needed - 1) -> "elem"
                                       [] OTHER -> kind[c]]
         /\ car' = [c \in Cells |-> IF c \in x .. (x + Needed - 1) THEN NIL
                                                                 ELSE car[c]]
         /\ len' = [len EXCEPT ![x] = call.n]
         /\ call' = [Idle EXCEPT !.x = x, !.a = x]
  /\ pc' = "holder"
  /\ UNCHANGED <<cell_seg, sink_car, no_memory, reg, locals, marked>>

(* Mutant: the heap does not grow for a vector. *)
NoRunGivesUp ==
  /\ pc = "find" /\ ~no_memory
  /\ At(call.pp) = NIL
  /\ \/ call.tries = 0 /\ pc' = "collect" /\ UNCHANGED <<no_memory, locals>>
        /\ call' = [call EXCEPT !.tries = 1, !.back = "find", !.pp = NIL]
     \/ call.tries = 1 /\ pc' = "run" /\ no_memory' = TRUE
        /\ locals' = locals \cup {Sink} /\ call' = Idle
  /\ UNCHANGED <<lists, cells, sink_car, reg, marked>>

(* No run: collect, then get more heap, then give up. *)
NoRun ==
  /\ pc = "find" /\ ~no_memory
  /\ At(call.pp) = NIL
  /\ \/ call.tries = 0 /\ pc' = "collect" /\ UNCHANGED <<no_memory, locals>>
        /\ call' = [call EXCEPT !.tries = 1, !.back = "find", !.pp = NIL]
     \/ call.tries = 1 /\ pc' = "grow" /\ UNCHANGED <<no_memory, locals>>
        /\ call' = [call EXCEPT !.tries = 2, !.back = "find", !.pp = NIL]
     \/ call.tries = 2 /\ pc' = "run" /\ no_memory' = TRUE
        /\ locals' = locals \cup {Sink} /\ call' = Idle
  /\ UNCHANGED <<lists, cells, sink_car, reg, marked>>

(* mk_vector after memory has run out. *)
NoVector ==
  /\ pc = "find" /\ no_memory
  /\ locals' = locals \cup {Sink}
  /\ call' = Idle /\ pc' = "run"
  /\ UNCHANGED <<lists, cells, sink_car, no_memory, reg, marked>>
-----------------------------------------------------------------------------
(* reserve_cells, which foreign functions may call                         *)

ReserveCells(n) ==
  /\ pc = "run" /\ ~no_memory
  /\ call' = [Idle EXCEPT !.n = n]
  /\ pc' = "reserve"
  /\ UNCHANGED <<lists, cells, sink_car, no_memory, reg, locals, marked>>

Reserve ==
  /\ pc = "reserve"
  /\ \/ fcells >= call.n
        /\ pc' = "run" /\ call' = Idle /\ UNCHANGED no_memory
     \/ fcells < call.n /\ call.tries = 0
        /\ pc' = "collect" /\ UNCHANGED no_memory
        /\ call' = [call EXCEPT !.tries = 1, !.back = "reserve"]
     \/ fcells < call.n /\ call.tries = 1
        /\ pc' = "grow" /\ UNCHANGED no_memory
        /\ call' = [call EXCEPT !.tries = 2, !.back = "reserve"]
     \/ fcells < call.n /\ call.tries = 2
        /\ pc' = "run" /\ call' = Idle /\ no_memory' = TRUE
  /\ UNCHANGED <<lists, cells, sink_car, reg, locals, marked>>
-----------------------------------------------------------------------------
(* gc                                                                      *)

(* Mutant: the chain of recent allocations is not marked. *)
RootsWithoutRecent == Ptr({reg[r] : r \in Regs} \cup {call.a, call.b})

(* Mutant: the parameters of the allocator are not marked. *)
RootsWithoutArguments == Ptr({reg[r] : r \in Regs} \cup {sink_car})

Roots == Ptr({reg[r] : r \in Regs} \cup {sink_car, call.a, call.b})

(* _get_cell collects when the free list is empty. *)
NeedGc ==
  /\ pc \in {"cell", "holder"}
  /\ free_cell = NIL /\ ~no_memory
  /\ pc' = "collect"
  /\ call' = [call EXCEPT !.back = pc]
  /\ UNCHANGED <<lists, cells, sink_car, no_memory, reg, locals, marked>>

(* The primitive (gc). *)
GcPrimitive ==
  /\ pc = "run" /\ ~no_memory
  /\ pc' = "collect"
  /\ UNCHANGED <<lists, cells, sink_car, no_memory, reg, locals, call, marked>>

StartMarking ==
  /\ pc = "collect"
  /\ marked' = Roots
  /\ pc' = "mark"
  /\ UNCHANGED <<lists, cells, sink_car, no_memory, reg, locals, call>>

Mark ==
  /\ pc = "mark"
  /\ \E c \in marked : ~(Points(c) \subseteq marked)
  /\ marked' = marked \cup UNION {Points(c) : c \in marked}
  /\ UNCHANGED <<lists, cells, sink_car, no_memory, reg, locals, pc, call>>

(* The sweep runs down cell_seg and down each segment, and puts each cell  *)
(* it finds unmarked in front of the list: the list comes out in the order *)
(* of cell_seg.                                                            *)
FirstFrom(j, F) ==
  LET js == {k \in j .. Len(cell_seg) : Block(cell_seg[k]) \cap F # {}}
  IN  IF js = {} THEN NIL ELSE Min(Block(cell_seg[Min(js)]) \cap F)

NextInSweep(c, F) ==
  LET k == CHOOSE k \in 1..Len(cell_seg) : c \in Block(cell_seg[k])
      above == {d \in Block(cell_seg[k]) \cap F : d > c}
  IN  IF above # {} THEN Min(above) ELSE FirstFrom(k + 1, F)

(* Back to the caller; _get_cell gets more heap when only little was       *)
(* recovered.                                                              *)
Sweep ==
  /\ pc = "mark"
  /\ \A c \in marked : Points(c) \subseteq marked
  /\ LET F == Allocated \ marked
     IN  /\ free_cell' = FirstFrom(1, F)
         /\ cdr' = [c \in Cells |-> IF c \in F THEN NextInSweep(c, F) ELSE cdr[c]]
         /\ car' = [c \in Cells |-> IF c \in F THEN NIL ELSE car[c]]
         /\ len' = [c \in Cells |-> IF c \in F THEN 0 ELSE len[c]]
         /\ kind' = [c \in Cells |-> IF c \in F THEN "free" ELSE kind[c]]
         /\ fcells' = Cardinality(F)
  /\ pc' = IF call.back \in {"cell", "holder"}
              /\ (fcells' < Recover * (Len(cell_seg) - 1) \/ free_cell' = NIL)
           THEN "grow" ELSE call.back
  /\ marked' = {}
  /\ UNCHANGED <<cell_seg, sink_car, no_memory, reg, locals, call>>
-----------------------------------------------------------------------------
(* alloc_cellseg(sc, 1)                                                    *)

(* Mutant: the array of segments is not kept in address order. *)
InsertSegAtEnd(b) == Append(cell_seg, b)

(* The new segment moves down past those above it. *)
InsertSeg(b) ==
  LET i == Max({0} \cup {k \in 1..Len(cell_seg) : cell_seg[k] <= b})
  IN  SubSeq(cell_seg, 1, i) \o <<b>> \o SubSeq(cell_seg, i + 1, Len(cell_seg))

Last(b) == b + SegSize - 1

(* The segment is filed, and put in front of the free list or, when there  *)
(* are free cells below it, linked in behind some of them.                 *)
NewSegment ==
  /\ pc = "grow"
  /\ Len(cell_seg) < NSegments
  /\ \E b \in Bases \ {cell_seg[k] : k \in 1..Len(cell_seg)} :
       /\ cell_seg' = InsertSeg(b)
       /\ fcells' = fcells + SegSize
       /\ \/ /\ free_cell = NIL \/ Last(b) + 1 < free_cell
             /\ cdr' = [c \in Cells |-> IF c = Last(b) THEN free_cell
                                       ELSE IF c \in Block(b) THEN c + 1 ELSE cdr[c]]
             /\ free_cell' = b
             /\ pc' = call.back /\ UNCHANGED call
          \/ /\ free_cell # NIL /\ free_cell <= Last(b) + 1
             /\ cdr' = [c \in Cells |-> IF c \in Block(b) THEN c + 1 ELSE cdr[c]]
             /\ call' = [call EXCEPT !.pp = free_cell, !.seg = b]
             /\ pc' = "link" /\ UNCHANGED free_cell
  /\ UNCHANGED <<kind, car, len, sink_car, no_memory, reg, locals, marked>>

BelowSegment == cdr[call.pp] # NIL /\ call.seg > cdr[call.pp]

WalkOn ==
  /\ pc = "link" /\ BelowSegment
  /\ call' = [call EXCEPT !.pp = cdr[call.pp]]
  /\ UNCHANGED <<lists, cells, sink_car, no_memory, reg, locals, pc, marked>>

LinkSegment ==
  /\ pc = "link" /\ ~BelowSegment
  /\ cdr' = [cdr EXCEPT ![Last(call.seg)] = cdr[call.pp], ![call.pp] = call.seg]
  /\ call' = [call EXCEPT !.pp = NIL, !.seg = NIL]
  /\ pc' = call.back
  /\ UNCHANGED <<lists, kind, car, len, sink_car, no_memory, reg, locals, marked>>

(* Mutant: _get_cell does not notice that there is nothing to be had. *)
NoSegmentRetries ==
  /\ pc = "grow"
  /\ IF call.back \in {"cell", "holder"}
     THEN pc' = call.back /\ UNCHANGED <<call, locals, no_memory>>
     ELSE /\ no_memory' = TRUE
          /\ locals' = locals \cup (IF call.back = "find" THEN {Sink} ELSE {})
          /\ pc' = "run" /\ call' = Idle
  /\ UNCHANGED <<lists, cells, sink_car, reg, marked>>

(* The array is full or malloc fails.  A single cell may still be had from *)
(* what was recovered; a run or a reservation may not.                     *)
NoSegment ==
  /\ pc = "grow"
  /\ \/ call.back \in {"cell", "holder"}
        /\ no_memory' = (free_cell = NIL)
        /\ pc' = call.back /\ UNCHANGED <<call, locals>>
     \/ call.back \in {"find", "reserve"}
        /\ no_memory' = TRUE
        /\ locals' = locals \cup (IF call.back = "find" THEN {Sink} ELSE {})
        /\ pc' = "run" /\ call' = Idle
  /\ UNCHANGED <<lists, cells, sink_car, reg, marked>>
-----------------------------------------------------------------------------
(* What opcodes do with the cells they have                                *)

Assign(r, v) ==
  /\ pc = "run" /\ v \in InReach
  /\ reg' = [reg EXCEPT ![r] = v]
  /\ UNCHANGED <<lists, cells, sink_car, no_memory, locals, pc, call, marked>>

Writable(c, k) == pc = "run" /\ c \in InReach \ {NIL, Sink} /\ kind[c] = k

(* set-car! (f = "car") and set-cdr! (f = "cdr"). *)
SetField(f, c, v) ==
  /\ Writable(c, "pair") /\ v \in InReach
  /\ car' = IF f = "car" THEN [car EXCEPT ![c] = v] ELSE car
  /\ cdr' = IF f = "cdr" THEN [cdr EXCEPT ![c] = v] ELSE cdr
  /\ UNCHANGED <<lists, kind, len, sink_car, no_memory, reg, locals,
                 pc, call, marked>>

(* The cell of element i of the vector v. *)
ElemCell(v, i) == v + 1 + (i \div 2)

set_vector_elem(v, i, a) ==
  /\ Writable(v, "vector") /\ a \in InReach
  /\ i < len[v]
  /\ IF i % 2 = 0
     THEN car' = [car EXCEPT ![ElemCell(v, i)] = a] /\ UNCHANGED cdr
     ELSE cdr' = [cdr EXCEPT ![ElemCell(v, i)] = a] /\ UNCHANGED car
  /\ UNCHANGED <<lists, kind, len, sink_car, no_memory, reg, locals,
                 pc, call, marked>>

fill_vector(v, a) ==
  /\ Writable(v, "vector") /\ a \in InReach
  /\ car' = [c \in Cells |-> IF c \in Elems(v) THEN a ELSE car[c]]
  /\ cdr' = [c \in Cells |-> IF c \in Elems(v) THEN a ELSE cdr[c]]
  /\ UNCHANGED <<lists, kind, len, sink_car, no_memory, reg, locals,
                 pc, call, marked>>

(* Between two opcodes Eval_Cycle lets go of the recent allocations; the C *)
(* variables of the opcode are gone by then.                               *)
ok_to_freely_gc ==
  /\ pc = "run" /\ ~no_memory
  /\ sink_car' = NIL
  /\ locals' = {}
  /\ UNCHANGED <<lists, cells, no_memory, reg, pc, call, marked>>
-----------------------------------------------------------------------------
Allocator ==
  \/ TakeCell \/ HoldRecent \/ TakeSink
  \/ SkipRun \/ TakeRun \/ NoRun \/ NoVector
  \/ Reserve \/ NeedGc \/ StartMarking \/ Mark \/ Sweep
  \/ NewSegment \/ WalkOn \/ LinkSegment \/ NoSegment

(* The car of a new pair is NIL or was allocated by the same opcode. *)
Opcode ==
  \/ /\ Cardinality(locals) < MaxLocals
     /\ \/ "cons" \in Opcodes /\ \E a \in locals \cup {NIL}, b \in InReach : Cons(a, b)
        \/ "foreign" \in Opcodes /\ \E r \in Regs : HoldArgs(r)
        \/ \E n \in VecLens : MkVector(n)
  \/ \E n \in Reserves : ReserveCells(n)
  \/ \E r \in Regs, v \in InReach : Assign(r, v)
  \/ \E c, v \in InReach :
       \/ \E f \in {"car", "cdr"} \cap Opcodes : SetField(f, c, v)
       \/ "fill-vector" \in Opcodes /\ fill_vector(c, v)
       \/ \E i \in 0 .. (2 * SegSize) :
            "vector-set!" \in Opcodes /\ set_vector_elem(c, i, v)
  \/ "gc" \in Opcodes /\ GcPrimitive
  \/ ok_to_freely_gc

Next == Allocator \/ Opcode
Spec == Init /\ [][Next]_vars

(* The allocator is called and runs; the interpreter need not go on. *)
FairSpec == Spec /\ WF_vars(Allocator)
-----------------------------------------------------------------------------
LeastOf(S) == IF S = {} THEN NIL ELSE Min(S)

(* The cells of a vector lie in one segment behind its header, and belong  *)
(* to no other vector and to no list.                                      *)
VectorsWhole ==
  \A v \in Allocated : kind[v] = "vector" =>
    /\ \E k \in 1..Len(cell_seg) : Elems(v) \cup {v} \subseteq Block(cell_seg[k])
    /\ \A e \in Elems(v) : kind[e] = "elem"
    /\ \A c \in Allocated \ {v} : Points(c) \cap Elems(v) = {}

(* Only a segment that is being linked in is not on the free list yet.     *)
Listed == IF pc = "link" THEN Free \ Block(call.seg) ELSE Free

(* The free list holds every free cell of the heap once, in address order  *)
(* across all segments, and fcells is its length: what finding runs of     *)
(* consecutive cells and the decision to get more heap rely on, whatever   *)
(* order malloc returns segments in.  The vectors cut out of the middle of *)
(* it are whole.                                                           *)
FreeListExact ==
  /\ VectorsWhole
  /\ free_cell = LeastOf(Listed)
  /\ \A c \in Listed : cdr[c] = LeastOf({d \in Listed : d > c})
  /\ fcells = Cardinality(Free)

(* No cell that the program or the allocator holds or can reach is free,   *)
(* in the middle of an allocation that collects too.                       *)
NoDangling ==
  /\ Ptr({reg[r] : r \in Regs} \cup locals \cup {call.a, call.b, call.x, sink_car})
       \subseteq Allocated \ Free
  /\ \A c \in Allocated \ Free : Points(c) \subseteq Allocated \ Free

(* The interpreter is told that memory has run out only when there is no   *)
(* cell, no run of cells as long as needed, or not the number of cells to  *)
(* be reserved, and the heap cannot grow; or when a request is larger than *)
(* any segment.                                                            *)
OutOfMemory ==
  [][no_memory' /\ ~no_memory =>
       IF pc = "grow"
       THEN CASE call.back \in {"cell", "holder"} -> Free = {}
              [] call.back = "find" ->
                   \A c \in Free : ~(c .. (c + Needed - 1) \subseteq Free)
              [] call.back = "reserve" -> Cardinality(Free) < call.n
       ELSE (IF pc = "find" THEN Needed ELSE call.n) > SegSize]_vars

M == INSTANCE Memory WITH
       used   <- Allocated \ Free,
       points <- [c \in Cells |-> Points(c)],
       regs   <- Ptr({reg[r] : r \in Regs}),
       held   <- Ptr(locals \cup {sink_car, call.a, call.b, call.x})

(* The storage manager implements Memory.tla: an allocation hands out only *)
(* cells that nobody uses, a collection takes only cells that cannot be    *)
(* reached, and neither changes what a cell in use holds.                  *)
ImplementsMemory == M!MemSpec

(* Every allocation comes to an end, with a cell or with the sink. *)
Completes == pc # "run" ~> pc = "run"
=============================================================================
