\* Sessions that end with sfc7120_destroy or crash at any point; an unload that
\* begins when the device is idle.
CONSTANTS
  p1 = p1  p2 = p2
  Threads = {p1, p2}
  Procs = {p1, p2}
  ProcOf <- OneThreadEach
  Objs = {o1, o2}
  Addrs = {a1, a2}
  NumRegions = 2
  NoProc = NoProc  NoObj = NoObj  Anon = Anon  NoAddr = NoAddr
  RemoveDrops = {TRUE, FALSE}
  AfterMunmap = {NoObj}
  MayCrash = TRUE
  MayFork = TRUE
  Unloads = "idle"
SPECIFICATION SessionSpec
INVARIANTS ReattachFindsRegionsFree NothingLeftAtDestroy
PROPERTIES OnlyCrashesLoseRegions DeviceFreedAfterUse
CHECK_DEADLOCK FALSE
