-------------------------------- MODULE Mark --------------------------------
(***************************************************************************)
(* mark() of src/scheme.c: the Schorr-Deutsch-Waite link-inversion marking *)
(* (Knuth's algorithm E), one action per labelled step, on a heap of cells *)
(* that holds pairs, atoms and vectors.                                    *)
(*                                                                         *)
(* While it runs, the marker keeps its way back to the root in the very    *)
(* cells it visits: car or cdr of a visited pair points up instead of      *)
(* down, and T_ATOM is set on a pair whose car is inverted.  A vector is a *)
(* header cell followed in memory by its element cells, on each of which   *)
(* mark() calls itself; `calls' is the C stack of those calls.             *)
(*                                                                         *)
(* `was' (the heap when mark() was called), `root' and `path' (the visited *)
(* cells that are not finished) are history variables: no guard reads      *)
(* them.                                                                   *)
(***************************************************************************)
EXTENDS Naturals, Sequences, FiniteSets

CONSTANTS Cells,        \* addresses of the cells; consecutive ones adjacent
          Heaps         \* the heaps on which mark() may be called

Null == 0               \* (pointer) 0

ASSUME CellsAssumption == Cells \subseteq Nat \ {Null}

(* A heap: the cells with T_ATOM, car, cdr, the length of each vector (0   *)
(* for a cell that is not a vector header) and the cells already marked.   *)
HeapType == [atom   : SUBSET Cells,
             car    : [Cells -> Cells \cup {Null}],
             cdr    : [Cells -> Cells \cup {Null}],
             veclen : [Cells -> Nat],
             marked : SUBSET Cells]

(* Two elements to a cell. *)
NumCells(len) == (len \div 2) + (len % 2)

(* The element cells of the vector c, all the cells that c points to. *)
Elems(h, c) == {c + j : j \in 1..NumCells(h.veclen[c])}
Points(h, c) == Elems(h, c) \cup
                (IF c \in h.atom THEN {} ELSE {h.car[c], h.cdr[c]} \ {Null})
Graph(h) == [c \in Cells |-> Points(h, c)]

(* What mk_vector, get_cell and an earlier mark() leave behind: a vector   *)
(* header is an atom; its element cells are pairs of its own that nothing  *)
(* else points to; what is marked points to marked cells only.             *)
WellFormed(h) ==
  /\ \A c \in Cells :
       /\ c \in h.atom \/ h.veclen[c] = 0
       /\ \A e \in Elems(h, c) :
            /\ e \in Cells
            /\ e \notin h.atom
            /\ \A d \in Cells : d # c => e \notin Points(h, d)
  /\ \A c \in h.marked : Points(h, c) \subseteq h.marked

ASSUME HeapsAssumption ==
  \A h \in Heaps : h \in HeapType /\ WellFormed(h)

VARIABLES atom, car, cdr, marked,       \* the heap, as mark() sees it
          pc, p, t, i,                  \* locals of the current mark()
          calls,                        \* locals of the mark()s it returns to
          was, root, path               \* history

heap == <<atom, car, cdr, marked>>
history == <<was, root>>
vars == <<atom, car, cdr, marked, pc, p, t, i, calls, was, root, path>>

(* mark(root) is called on an ordinary cell of the heap, never on the      *)
(* inside of a vector.                                                     *)
Init ==
  /\ was \in Heaps
  /\ root \in {c \in Cells : \A h \in Cells : c \notin Elems(was, h)}
  /\ atom = was.atom /\ car = was.car /\ cdr = was.cdr
  /\ marked = was.marked
  /\ pc = "E2" /\ p = root /\ t = Null /\ i = 0
  /\ calls = <<>> /\ path = <<>>

Visited(c, how) == path' = Append(path, [cell |-> c, via |-> how,
                                          i |-> i, depth |-> Len(calls')])

(* E2: setmark(p), then the loop over the element cells of a vector. *)
E2 ==
  /\ pc = "E2"
  /\ marked' = marked \cup {p}
  /\ i' = 0
  /\ pc' = "elems"
  /\ UNCHANGED <<atom, car, cdr, p, t, calls, history, path>>

(* mark(p+1+i) *)
CallOnElem ==
  /\ pc = "elems"
  /\ i < NumCells(was.veclen[p])
  /\ calls' = Append(calls, [p |-> p, t |-> t, i |-> i])
  /\ p' = p + 1 + i
  /\ t' = Null
  /\ pc' = "E2"
  /\ Visited(p, "elem")
  /\ UNCHANGED <<heap, i, history>>

(* if (is_atom(p)) goto E6; *)
AfterElems ==
  /\ pc = "elems"
  /\ i >= NumCells(was.veclen[p])
  /\ pc' = IF p \in atom THEN "E6" ELSE "E4"
  /\ UNCHANGED <<heap, p, t, i, calls, history, path>>

(* Mutant: q is not compared with the null pointer. *)
UnvisitedOrNull(q) == q \notin marked

Unvisited(q) == q # Null /\ q \notin marked

(* Mutant: mark(car(p)) instead of link inversion. *)
DownCarByRecursion ==
  /\ pc = "E4"
  /\ Unvisited(car[p])
  /\ calls' = Append(calls, [p |-> p, t |-> t, i |-> i])
  /\ p' = car[p]
  /\ t' = Null
  /\ pc' = "E2"
  /\ Visited(p, "elem")
  /\ UNCHANGED <<heap, i, history>>

(* E4: go down the car of p, leaving the way back in it. *)
DownCar ==
  /\ pc = "E4"
  /\ Unvisited(car[p])
  /\ atom' = atom \cup {p}
  /\ car' = [car EXCEPT ![p] = t]
  /\ t' = p
  /\ p' = car[p]
  /\ pc' = "E2"
  /\ UNCHANGED calls
  /\ Visited(p, "car")
  /\ UNCHANGED <<cdr, marked, i, history>>

(* Mutant: a pair whose car is marked is left without following its cdr. *)
SkipCarToUp ==
  /\ pc = "E4"
  /\ ~Unvisited(car[p])
  /\ pc' = "E6"
  /\ UNCHANGED <<heap, p, t, i, calls, history, path>>

SkipCar ==
  /\ pc = "E4"
  /\ ~Unvisited(car[p])
  /\ pc' = "E5"
  /\ UNCHANGED <<heap, p, t, i, calls, history, path>>

(* E5: go down the cdr of p, leaving the way back in it. *)
DownCdr ==
  /\ pc = "E5"
  /\ Unvisited(cdr[p])
  /\ cdr' = [cdr EXCEPT ![p] = t]
  /\ t' = p
  /\ p' = cdr[p]
  /\ pc' = "E2"
  /\ UNCHANGED calls
  /\ Visited(p, "cdr")
  /\ UNCHANGED <<atom, car, marked, i, history>>

(* Mutant: the wrong label after the cdr. *)
SkipCdrToE4 ==
  /\ pc = "E5"
  /\ ~Unvisited(cdr[p])
  /\ pc' = "E4"
  /\ UNCHANGED <<heap, p, t, i, calls, history, path>>

SkipCdr ==
  /\ pc = "E5"
  /\ ~Unvisited(cdr[p])
  /\ pc' = "E6"
  /\ UNCHANGED <<heap, p, t, i, calls, history, path>>

Leave == path' = SubSeq(path, 1, Len(path) - 1)

(* E6: go up.  T_ATOM on the cell above says that p is its car. *)
UpCar ==
  /\ pc = "E6"
  /\ t # Null
  /\ t \in atom
  /\ atom' = atom \ {t}
  /\ t' = car[t]
  /\ car' = [car EXCEPT ![t] = p]
  /\ p' = t
  /\ pc' = "E5"
  /\ Leave
  /\ UNCHANGED <<cdr, marked, i, calls, history>>

UpCdr ==
  /\ pc = "E6"
  /\ t # Null
  /\ t \notin atom
  /\ t' = cdr[t]
  /\ cdr' = [cdr EXCEPT ![t] = p]
  /\ p' = t
  /\ Leave
  /\ UNCHANGED <<atom, car, marked, pc, i, calls, history>>

(* Mutant: the way up of the caller is not restored. *)
ReturnToElemsLosesT ==
  /\ pc = "E6"
  /\ t = Null
  /\ calls # <<>>
  /\ LET frame == calls[Len(calls)]
     IN  p' = frame.p /\ i' = frame.i + 1
  /\ calls' = SubSeq(calls, 1, Len(calls) - 1)
  /\ pc' = "elems"
  /\ Leave
  /\ UNCHANGED <<heap, t, history>>

(* if (!t) return; into the loop over the elements that made the call... *)
ReturnToElems ==
  /\ pc = "E6"
  /\ t = Null
  /\ calls # <<>>
  /\ LET frame == calls[Len(calls)]
     IN  p' = frame.p /\ t' = frame.t /\ i' = frame.i + 1
  /\ calls' = SubSeq(calls, 1, Len(calls) - 1)
  /\ pc' = "elems"
  /\ Leave
  /\ UNCHANGED <<heap, history>>

(* ... or to the caller of mark(root). *)
Return ==
  /\ pc = "E6"
  /\ t = Null
  /\ calls = <<>>
  /\ pc' = "done"
  /\ UNCHANGED <<heap, p, t, i, calls, history, path>>

Next ==
  \/ E2 \/ CallOnElem \/ AfterElems
  \/ DownCar \/ SkipCar \/ DownCdr \/ SkipCdr
  \/ UpCar \/ UpCdr \/ ReturnToElems \/ Return

Spec == Init /\ [][Next]_vars

(* mark() is a function call: once called it runs until it returns. *)
FairSpec == Spec /\ WF_vars(Next)
-----------------------------------------------------------------------------
Frame == [p : Cells, t : Cells \cup {Null}, i : Nat]
Entry == [cell : Cells, via : {"car", "cdr", "elem"}, i : Nat, depth : Nat]

TypeOK ==
  /\ atom \in SUBSET Cells
  /\ car \in [Cells -> Cells \cup {Null}]
  /\ cdr \in [Cells -> Cells \cup {Null}]
  /\ marked \in SUBSET Cells
  /\ pc \in {"E2", "elems", "E4", "E5", "E6", "done"}
  /\ p \in Cells
  /\ t \in Cells \cup {Null}
  /\ i \in Nat
  /\ calls \in Seq(Frame)
  /\ was \in HeapType
  /\ root \in Cells
  /\ path \in Seq(Entry)

T == INSTANCE Trace WITH graph <- Graph(was), seen <- marked,
                         finished <- (pc = "done")

Reachable == T!ReachableIn(root, Graph(was))

(* Link inversion is undone: when mark() returns, every car, cdr and       *)
(* T_ATOM bit of the heap is what it was when mark() was called.           *)
Restored ==
  pc = "done" => /\ atom = was.atom
                 /\ car = was.car
                 /\ cdr = was.cdr

(* The collector neither frees what is in use nor keeps what is not: when  *)
(* mark() returns, the marked cells are those marked before and those that *)
(* can be reached from its argument, element cells of vectors included.    *)
MarksReachable == pc = "done" => marked = was.marked \cup Reachable

(* mark() calls itself on the elements of a vector only, so the C stack    *)
(* grows with the nesting of vectors and not with the length of lists: at  *)
(* no time are there more calls than vectors.                              *)
RecursionBound == Len(calls) <= Cardinality({c \in Cells : was.veclen[c] > 0})

(* mark() implements the abstract tracing of Trace.tla: each step marks a  *)
(* cell that a marked cell points to, or none, and it returns only when    *)
(* nothing reachable is unmarked.                                          *)
Traces == T!TraceSpec

(* mark() returns, on cyclic and on shared structures too. *)
Terminates == pc # "done" ~> pc = "done"
-----------------------------------------------------------------------------
(* The inductive invariant behind Restored and MarksReachable.             *)

Unfinished == {path[k].cell : k \in 1..Len(path)}

(* The cell above entry k of a path within the same call of mark(), and    *)
(* the cell visited from entry k when the path leads to q.                 *)
Above(way, k) ==
  IF k = 1 \/ way[k - 1].via = "elem" THEN Null ELSE way[k - 1].cell
Below(way, q, k) == IF k = Len(way) THEN q ELSE way[k + 1].cell

(* The path is the way from the root down to p, without repetition; t is   *)
(* its last cell.                                                          *)
PathInv ==
  /\ t = Above(path, Len(path) + 1)
  /\ p \notin Unfinished
  /\ \A j, k \in 1..Len(path) : path[j].cell = path[k].cell => j = k
  /\ Unfinished \subseteq marked
  /\ pc # "E2" => p \in marked
  /\ pc = "done" => path = <<>>
  /\ root \in marked \/ (pc = "E2" /\ p = root)
  /\ pc = "E2" /\ path = <<>> => p = root

(* Exactly one link of each pair on the path is inverted, T_ATOM says      *)
(* which, and what it held is the next cell of the path.                   *)
LinksInv ==
  \A k \in 1..Len(path) :
    LET c == path[k].cell
    IN  /\ path[k].via = "car" =>
             /\ c \notin was.atom /\ c \in atom
             /\ car[c] = Above(path, k) /\ was.car[c] = Below(path, p, k)
             /\ cdr[c] = was.cdr[c]
        /\ path[k].via = "cdr" =>
             /\ c \notin was.atom /\ c \notin atom
             /\ cdr[c] = Above(path, k) /\ was.cdr[c] = Below(path, p, k)
             /\ car[c] = was.car[c]
        /\ path[k].via = "elem" =>
             /\ path[k].i < NumCells(was.veclen[c])
             /\ Below(path, p, k) = c + 1 + path[k].i

(* Every other cell is as it was. *)
IntactInv ==
  \A c \in Cells :
    (\A k \in 1..Len(path) : path[k].cell = c => path[k].via = "elem") =>
      (c \in atom <=> c \in was.atom) /\ car[c] = was.car[c] /\ cdr[c] = was.cdr[c]

(* The C stack holds one frame for each vector on the path. *)
FramesInv ==
  /\ Len(calls) = IF path = <<>> THEN 0 ELSE path[Len(path)].depth
  /\ \A k \in 1..Len(path) :
       /\ path[k].depth = (IF k = 1 THEN 0 ELSE path[k - 1].depth) +
                          (IF path[k].via = "elem" THEN 1 ELSE 0)
       /\ path[k].depth <= Len(calls)
       /\ path[k].via = "elem" =>
            /\ calls[path[k].depth] = [p |-> path[k].cell, t |-> Above(path, k),
                                       i |-> path[k].i]
            /\ \A j \in 1..(k - 1) : path[j].depth < path[k].depth

(* An element cell is visited from its own vector only. *)
OwnerInv ==
  \A h \in Cells :
    /\ p \in Elems(was, h) =>
         path # <<>> /\ path[Len(path)].cell = h /\ path[Len(path)].via = "elem"
    /\ \A k \in 1..Len(path) : path[k].cell \in Elems(was, h) =>
         k > 1 /\ path[k - 1].cell = h /\ path[k - 1].via = "elem"

FirstElems(c, n) == {c + 1 + j : j \in 0..(n - 1)}

(* What a finished cell points to is marked, and so is what an unfinished  *)
(* cell points to as far as it has been followed.                          *)
ColourInv ==
  /\ \A c \in marked \ Unfinished :
       (c = p /\ pc \notin {"E6", "done"}) \/ Points(was, c) \subseteq marked
  /\ \A k \in 1..Len(path) :
       /\ path[k].via = "cdr" => was.car[path[k].cell] \in marked \cup {Null}
       /\ path[k].via = "elem" =>
            FirstElems(path[k].cell, path[k].i) \subseteq marked
  /\ pc = "elems" => i <= NumCells(was.veclen[p]) /\ FirstElems(p, i) \subseteq marked
  /\ pc \in {"E4", "E5"} => p \notin was.atom
  /\ pc = "E5" => was.car[p] \in marked \cup {Null}

(* Nothing out of reach is visited. *)
ReachInv ==
  /\ marked \subseteq was.marked \cup Reachable
  /\ Unfinished \cup {p} \subseteq Reachable

MarkInv ==
  /\ TypeOK /\ WellFormed(was)
  /\ PathInv /\ LinksInv /\ IntactInv /\ FramesInv /\ OwnerInv
  /\ ColourInv /\ ReachInv
=============================================================================
