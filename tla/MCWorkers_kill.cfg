CONSTANTS
  t1 = t1 t2 = t2 t3 = t3
  Thread = {t1, t2, t3}
  Null = Null
  MaxActive = 2
SPECIFICATION Spec
INVARIANTS KillsEveryWorker
CHECK_DEADLOCK FALSE
