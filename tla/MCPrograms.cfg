CONSTANTS
  t1 = t1 t2 = t2 t3 = t3 o1 = o1 o2 = o2 r1 = r1 r2 = r2 r3 = r3 a = a b = b
  j1 = j1 j2 = j2 j3 = j3 w1 = w1 w2 = w2 m1 = m1 m2 = m2 m3 = m3 p1 = p1 p2 = p2 p3 = p3
  FooThread = {t1, t2, t3}
  Foo = {o1, o2}
  FooId = {a, b}
  Ref = {r1, r2, r3}
  Null = Null
  Answers <- AllAnswers
  Splits = {FALSE, TRUE}
  Job = {j1, j2, j3}
  Worker = {w1, w2}
  NoJob = NoJob
  Msg = {m1, m2, m3}
  Processor = {p1, p2}
  NTHR = 3
  TNUM = 2
  RAND_MAX = 2
  LONG_MAX = 3
SPECIFICATION ProgramSpec
INVARIANTS NoUseAfterFree CountExact FoundIsReady NoLockCycle NoFalseSuccess StatusRight
  WellLinked FoundStillQueued
  SleepersWoken OneAtATime NobodyStuck RightPeer DataWhole InBounds
  SignalsHandled TerminalRestored CountsRight
PROPERTIES ReturnsWhole MsgProcessed StepsAllowed
