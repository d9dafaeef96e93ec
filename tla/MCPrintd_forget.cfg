CONSTANTS
  c1 = c1 c2 = c2 c3 = c3
  Client = {c1, c2}
  Nobody = Nobody
  JOB_MAX = 6
  StartFile = 0
  MaxKill = 1
  MaxFail = 0
  MaxHup = 0
SPECIFICATION Spec
INVARIANTS NoJobLost
