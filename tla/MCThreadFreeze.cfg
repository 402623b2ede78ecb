CONSTANTS
  th1 = th1
  th2 = th2
  Threads = {th1, th2}
  Moved = 3
  Bodies <- AllBodies
  Entries = {0}
  Operations = {"create", "enable", "disableAll", "queue", "apply", "remove", "uninitialize"}
  CanOpen = TRUE
  Refusals = {"protect", "context"}
  ListRoom = 2
SPECIFICATION Spec
INVARIANTS
  TypeOK
  
  PlaceKept
  
PROPERTIES
  ThreadsResumed
