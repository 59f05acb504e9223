\* Kernel-path and direct-path sessions in turn, any traffic and every fault.
CONSTANTS
  RxN = 3
  TxN = 3
  EvN = 4
  MaxFrames = 4
  MaxTx = 3
  MaxOther = 1
  Overruns = FALSE
  Crashes = {"kernel", "direct"}
  StaleSessions = FALSE
SPECIFICATION Spec
INVARIANTS TypeOK ReadsMissedBehind WaitingSlotsNotNicOwned RingLacksMissed AlignedBetweenSessions EvqExact ConfirmedWasSent
PROPERTY ReceiveIsFifo
CHECK_DEADLOCK FALSE
