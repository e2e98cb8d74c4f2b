\* A dispatch that arrives while another one waits for its answer.
CONSTANTS
  Calls = {c1, c2}
  Arcs = {a1, a2}
  Pipes = {q1, q2}
  Nobody = Nobody
  Other = Other
  Down = Down
  None = None
SYMMETRY Symmetry
SPECIFICATION Spec
INVARIANT
  DispatchesSerialized
