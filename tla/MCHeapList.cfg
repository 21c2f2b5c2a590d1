SPECIFICATION HSpec
CONSTANTS
  PA = {p1, p2, p3}
  Cells <- MCCells
  NULL = NULL
  PostambleMayFail = FALSE
  Word = 64
  HeapBase = 3
  HeapSize = 17
  Page = 4
  PowersOf2 = {1, 2, 4, 8}
  Alignments = {1, 3, 8}
  Sizes = {0, 3}
  Counts = {2}
  NodeSize = 4
INVARIANTS NodesOwned
PROPERTIES ImplementsSequence
SYMMETRY Symmetry
