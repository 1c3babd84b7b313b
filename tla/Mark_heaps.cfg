\* Every graph of three pairs, atoms and small vectors, and heaps of four cells with
\* one vector of three elements or two of two, from every root, with at most one cell
\* marked before.
CONSTANTS
  MaxCell = 4
  Few = 3
  FewLens = {0, 1}
  VecLens = {0, 2, 3}
  MinElems = 2
  MaxMarked = 1
  Cells <- MCCells
  Heaps <- MCHeaps
SPECIFICATION FairSpec
INVARIANTS Restored MarksReachable RecursionBound
PROPERTIES Traces Terminates
CHECK_DEADLOCK FALSE
