\* Two threads of one process: the mapped test races the pager constructor.
CONSTANTS
  p1 = p1  p2 = p2  t1 = t1  t2 = t2
  Threads = {t1, t2}
  Procs = {p1}
  ProcOf <- TwoThreads
  Objs = {o1, o2}
  Addrs = {a1, a2}
  NumRegions = 1
  NoProc = NoProc  NoObj = NoObj  Anon = Anon  NoAddr = NoAddr
  RemoveDrops = {TRUE}
  AfterMunmap = {NoObj, Anon}
SYMMETRY Symmetry
SPECIFICATION Spec
INVARIANT ExclusiveRegion
CHECK_DEADLOCK FALSE
