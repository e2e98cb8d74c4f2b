\* Two calls that nest in either order, two states, two pipes; a plugin that comes and
\* goes.  CallsReturn is a liveness property, so no symmetry.
CONSTANTS
  Calls = {c1, c2}
  Arcs = {a1, a2}
  Pipes = {q1, q2}
  Nobody = Nobody
  Other = Other
  Down = Down
  None = None
SPECIFICATION FairSpec
INVARIANTS
  TypeOK
  OneConnection
  SlotUsable
  NeverBusyWithItself
  StalePipeHeals
  ReplayedOnlyAfterRestart
PROPERTY
  CallsReturn
