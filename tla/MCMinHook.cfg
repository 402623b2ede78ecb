CONSTANTS
  t1 = t1
  t2 = t2
  t3 = t3
  d1 = d1
  d2 = d2
  b1 = b1
  b2 = b2
  b3 = b3
  Targets = {t1, t2, t3}
  Detours = {d1, d2}
  Executable = {t1, t2, t3, d1, d2}
  Buffers = {b1, b2, b3}
  Cells <- MCCells
  Area <- MCArea
  Prologue <- MCPrologue
  Capacity = 3
  Original = Original
  MH_ALL_HOOKS = MH_ALL_HOOKS
SPECIFICATION Spec
SYMMETRY MCSymmetry
INVARIANTS
  TypeOK
  OneHookPerTarget
  BuffersOwnedOnce
  CodeMatchesHooks
  OriginalKept
  CleanWhenDown
PROPERTIES
  FailedCallsChangeNothing
  ApplyKeepsTheRest
  ImplementsService
