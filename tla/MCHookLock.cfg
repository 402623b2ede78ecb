CONSTANTS
  c1 = c1
  c2 = c2
  t1 = t1
  t2 = t2
  t3 = t3
  p1 = p1
  p2 = p2
  p3 = p3
  Callers = {c1, c2}
  Targets = {t1, t2, t3}
  Capacity = 2
  Interlocked = TRUE
  Garbage = Garbage
  MH_ALL_HOOKS = MH_ALL_HOOKS
  Pages = {p1, p2, p3}
  CodeProtection <- MCCodeProtection
  PatchPages <- MCPatchPages
SPECIFICATION Spec
INVARIANTS
  TypeOK
  MutualExclusion
  PositionsFresh
  TableConsistent
  PagesUsable
  ProtectionRestored
PROPERTIES
  LockReleased
