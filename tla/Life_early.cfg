\* A link event between INIT_EVQ(0) and INIT_EVQ(1).
CONSTANTS
  EvN = 3
  MaxLoads = 2
  MaxEvents = 4
  InitOutcomes = {"ok"}
  FiniOutcomes = {"ok"}
  MayDeny = FALSE
  EarlyEvents = TRUE
SPECIFICATION Spec
INVARIANT ControlQueueTracks
CHECK_DEADLOCK FALSE
