\* The program is run a second time: the first run's window still circulates.
CONSTANTS
  RxN = 3
  TxN = 3
  EvN = 6
  NumSizes = 2
  Samples = 1
  Window = 1
  Batch = 2
  MaxIter = 1
  MaxLost = 0
  MaxRuns = 2
SPECIFICATION Spec
INVARIANT KernelEatsNothing
CHECK_DEADLOCK FALSE
