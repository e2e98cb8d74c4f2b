\* The factory's, the objects' and the process' counts against nested clients.
SPECIFICATION Spec
CONSTANTS
  Objects = {o1, o2, o3}
  MaxHolds = 3
  MaxLocks = 2
  MaxCalls = 2
  Lock = Lock
  Kept = 1
INVARIANTS TypeOK NothingDangles
PROPERTIES ImplementsServerLife
