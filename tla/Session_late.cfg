\* The last close of one session overlaps the start of the next.
CONSTANTS
  p1 = p1  p2 = p2
  Threads = {p1, p2}
  Procs = {p1, p2}
  ProcOf <- OneThreadEach
  Objs = {o1, o2, o3}
  Addrs = {a1}
  NumRegions = 1
  NoProc = NoProc  NoObj = NoObj  Anon = Anon  NoAddr = NoAddr
  RemoveDrops = {TRUE}
  AfterMunmap = {NoObj}
  MayCrash = FALSE
  MayFork = FALSE
  Unloads = "never"
SPECIFICATION SessionSpec
INVARIANT SessionKeepsToken
CHECK_DEADLOCK FALSE
