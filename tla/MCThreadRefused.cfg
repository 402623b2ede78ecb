CONSTANTS
  th1 = th1
  th2 = th2
  Threads = {th1, th2}
  Moved = 3
  Bodies <- PlainBodies
  Entries = {0}
  Operations = {"create", "enable", "disableAll", "queue", "apply", "remove", "uninitialize"}
  CanOpen = TRUE
  Refusals = {"protect"}
  ListRoom = 2
SPECIFICATION Spec
INVARIANTS
  NobodyRunsWild
