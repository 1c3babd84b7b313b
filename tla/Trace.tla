------------------------------- MODULE Trace -------------------------------
(***************************************************************************)
(* What one call of mark() promises, with no algorithm in it: starting     *)
(* from a root, cells are marked one at a time, each one pointed to by a   *)
(* cell marked before, until the set of marked cells is closed under       *)
(* "points to".  Mark.tla, the link-inversion algorithm of src/scheme.c,   *)
(* is shown to implement this module.                                      *)
(***************************************************************************)
CONSTANT Cells                  \* the cells of the heap

VARIABLES graph,                \* graph[c]: the cells that c points to
          root,                 \* the argument of mark()
          seen,                 \* the cells whose mark bit is set
          finished              \* mark() has returned

tvars == <<graph, root, seen, finished>>

(* S is closed under "points to" in the graph g. *)
ClosedIn(S, g) == \A c \in S : g[c] \subseteq S

(* The cells that can be reached from r: those in every closed set that    *)
(* holds r.                                                                *)
ReachableIn(r, g) ==
  {c \in Cells : \A S \in SUBSET Cells : r \in S /\ ClosedIn(S, g) => c \in S}

TraceInit ==
  /\ graph \in [Cells -> SUBSET Cells]
  /\ root \in Cells
  /\ seen \in SUBSET Cells
  /\ ClosedIn(seen, graph)
  /\ finished = FALSE

(* One more cell gets its mark bit: the root, or one that a marked cell    *)
(* points to.                                                              *)
Visit(c) ==
  /\ ~finished
  /\ c \notin seen
  /\ c = root \/ \E d \in seen : c \in graph[d]
  /\ seen' = seen \cup {c}
  /\ UNCHANGED <<graph, root, finished>>

(* mark() may only return when nothing reachable is left unmarked. *)
Finish ==
  /\ ~finished
  /\ root \in seen
  /\ ClosedIn(seen, graph)
  /\ finished' = TRUE
  /\ UNCHANGED <<graph, root, seen>>

TraceNext == Finish \/ \E c \in Cells : Visit(c)

TraceSpec == TraceInit /\ [][TraceNext]_tvars
=============================================================================
