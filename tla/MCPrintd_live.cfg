CONSTANTS
  c1 = c1 c2 = c2 c3 = c3
  Client = {c1, c2}
  Nobody = Nobody
  JOB_MAX = 3
  StartFile = 0
  MaxKill = 1
  MaxFail = 1
  MaxHup = 0
SPECIFICATION FairSpec
PROPERTIES AcceptedPrinted
