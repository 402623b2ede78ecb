CONSTANTS
  Pages <- MCPages
  Origins <- MCOrigins
  BlockSize = 4
  MaxRange = 9
  MinAddress = 2
  MaxAddress = 60
SPECIFICATION Spec
INVARIANTS
  SlotsReachable
