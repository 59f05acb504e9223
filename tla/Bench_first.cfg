\* One run of the program after the module was loaded, over a cable that may
\* lose a frame.
CONSTANTS
  RxN = 5
  TxN = 5
  EvN = 8
  NumSizes = 2
  Samples = 2
  Window = 2
  Batch = 2
  MaxIter = 2
  MaxLost = 1
  MaxRuns = 1
SPECIFICATION Spec
INVARIANTS EchoIsOwn NothingEaten FramesConserved RingsSuffice NeverTimesOut
PROPERTY BenchEnds
\* The program ends.
CHECK_DEADLOCK FALSE
