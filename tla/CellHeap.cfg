\* Pairs and vectors of one cell and of three, which no segment holds, two segments
\* of two cells, the second below or above the first, and reservations that
\* cannot be met.
CONSTANTS
  Bases = {1, 4}
  SegSize = 2
  NSegments = 2
  Recover = 1
  Regs = {r1}
  VecLens = {1, 3}
  Reserves = {5}
  MaxLocals = 1
  Opcodes = {"cons", "foreign", "cdr", "gc", "vector-set!", "fill-vector"}
SPECIFICATION FairSpec
INVARIANTS FreeListExact NoDangling
PROPERTIES OutOfMemory ImplementsMemory Completes
