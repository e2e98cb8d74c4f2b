\* Two runs of the commands, at any time of a process that caches the key.
SPECIFICATION Spec
CONSTANTS
  Tools = {t1, t2}
  Sidecars = {s1}
  Keys = {k1, k2}
  NoKey = NoKey
  Unset = Unset
  Failed = Failed
SYMMETRY Symmetry
INVARIANTS TypeOK KeysFreed Idempotent TurnedAwayForCause
