CONSTANTS
  p1 = p1 p2 = p2 p3 = p3 k1 = k1 k2 = k2 d1 = d1 d2 = d2 d3 = d3
  Proc = {p1, p2}
  Key = {k1, k2}
  Data = {d1, d2, d3}
  NoKey = NoKey
  NoData = NoData
  Blank = Blank
  NHash = 1
  Hash <- OneChain
  KeyLen <- SameKeyLen
  DatLen <- WithTooLong
  DATLEN_MIN = 2
  DATLEN_MAX = 3
  PTR_MAX = 2
  Ops = {"delete", "store", "fetch", "badflag", "nextrec", "rewind"}
  Crashable = {}
  MaxCalls = 4
SPECIFICATION FairSpec
INVARIANTS PointersFit
PROPERTIES AtomicMap EveryCallReturns
