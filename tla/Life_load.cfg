\* The firmware refuses, loses or denies anything and the link changes at any
\* time; unload, load again.
CONSTANTS
  EvN = 3
  MaxLoads = 2
  MaxEvents = 5
  InitOutcomes = {"ok", "refused", "lost"}
  FiniOutcomes = {"ok", "refused", "lost"}
  MayDeny = TRUE
  EarlyEvents = TRUE
SPECIFICATION Spec
INVARIANTS TypeOK QueueMemoryLive IsrSafe HostUnwound FirmwareUnwound AllocVisStartsClean OnlyEarlyDesyncs IsrBounded
PROPERTIES LinkFollows LoadEnds
CHECK_DEADLOCK FALSE
