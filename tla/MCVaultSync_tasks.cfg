\* Two reconcile tasks, registrations and a user who edits and locks.
SPECIFICATION Spec
CONSTANTS
  Creds = {c1, c2}
  Tasks = {t1, t2}
SYMMETRY Symmetry
INVARIANTS TypeOK UndisturbedTaskSyncs RemovesOnlyMissed
