\* Two single-threaded processes, every order of calls, unload included.
CONSTANTS
  p1 = p1  p2 = p2  t1 = t1  t2 = t2
  Threads = {p1, p2}
  Procs = {p1, p2}
  ProcOf <- OneThreadEach
  Objs = {o1, o2}
  Addrs = {a1, a2}
  NumRegions = 2
  NoProc = NoProc  NoObj = NoObj  Anon = Anon  NoAddr = NoAddr
  RemoveDrops = {TRUE, FALSE}
  AfterMunmap = {NoObj}
SYMMETRY SymmetryP
SPECIFICATION Spec
INVARIANTS TypeOK ExclusiveRegion MappedFlagExact FlagsBacked MmapHoldsToken
CHECK_DEADLOCK FALSE
