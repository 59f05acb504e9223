\* An unload that starts while an mmap allocates its object.
CONSTANTS
  p1 = p1  p2 = p2  t1 = t1  t2 = t2
  Threads = {p1}
  Procs = {p1}
  ProcOf <- OneProc
  Objs = {o1, o2}
  Addrs = {a1, a2}
  NumRegions = 1
  NoProc = NoProc  NoObj = NoObj  Anon = Anon  NoAddr = NoAddr
  RemoveDrops = {TRUE}
  AfterMunmap = {NoObj, Anon}
SYMMETRY Symmetry
SPECIFICATION Spec
INVARIANT FailedMmapReleasesObject
CHECK_DEADLOCK FALSE
