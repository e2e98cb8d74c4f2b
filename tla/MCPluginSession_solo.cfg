\* One KeePass process at a time, two sidecars and a tool; no symmetry.
CONSTANTS
  p1 = p1
  p2 = p2
  s1 = s1
  s2 = s2
  t1 = t1
  Plugins = {p1}
  Sidecars = {s1, s2}
  Tools = {t1}
  Legacy = {t1}
  Nonces = {n1, n2, n3}
  Overlap = FALSE
  None = None
SPECIFICATION FairSpec
INVARIANTS
  TypeOK
  PublishedNonceCurrent
  SidecarNeverRefused
  SingleUse
  KeyBelongsToPeer
PROPERTY
  HandshakeResolves
