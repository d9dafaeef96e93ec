CONSTANTS
  c1 = c1 c2 = c2 c3 = c3
  Client = {c1, c2}
  Nobody = Nobody
  JOB_MAX = 12
  StartFile = 11
  MaxKill = 0
  MaxFail = 1
  MaxHup = 2
SPECIFICATION Spec
SYMMETRY Clients
INVARIANTS TypeOK NoLostWakeup OwnData HupNotLost
