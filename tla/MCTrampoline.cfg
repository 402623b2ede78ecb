CONSTANT
  Lengths <- MCLengths
SPECIFICATION Spec
CHECK_DEADLOCK FALSE
INVARIANTS
  TypeOK
  FitsSlot
  PatchOverwritesOnlyMoved
  BoundariesRoundTrip
  ForwardBranchesLand
