\* A registration between the task's two lists.
SPECIFICATION Spec
CONSTANTS
  Creds = {c1, c2}
  Tasks = {t1}
PROPERTIES RemovedNotInVault
