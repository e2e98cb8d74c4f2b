\* exe_server.rs and server.rs: the last release ends the process.
SPECIFICATION Spec
CONSTANTS
  Objects = {o1, o2}
  MaxHolds = 2
  MaxLocks = 1
  MaxCalls = 1
  Lock = Lock
  Kept = 1
SYMMETRY Symmetry
INVARIANTS UnusedServerEnds
