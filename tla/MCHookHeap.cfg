CONSTANTS
  h1 = h1
  h2 = h2
  h3 = h3
  h4 = h4
  h5 = h5
  Hooks = {h1, h2, h3, h4, h5}
  MostThreads = 3
  InitialHooks = 2
  InitialThreads = 2
  HookBytes = 3
  ThreadBytes = 1
  Pages = {1, 2}
  Rooms = {10, 24, 40}
  NULL = NULL
  Garbage = Garbage
SPECIFICATION Spec
SYMMETRY MCSymmetry
INVARIANTS
  TypeOK
  ArraysKept
  HeapOwned
