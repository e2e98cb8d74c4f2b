\* A second KeePass process starts while the first serves the pipe.
CONSTANTS
  p1 = p1
  p2 = p2
  s1 = s1
  s2 = s2
  t1 = t1
  Plugins = {p1, p2}
  Sidecars = {s1}
  Tools = {t1}
  Legacy = {t1}
  Nonces = {n1, n2, n3, n4, n5}
  Overlap = TRUE
  None = None
SYMMETRY NonceSymmetry
SPECIFICATION Spec
INVARIANT
  PassiveStaysPassive
