\* RX_EVs lost to a TX ioctl, to a failed copyout or to a session that only polls.
CONSTANTS
  RxN = 3
  TxN = 3
  EvN = 4
  MaxFrames = 3
  MaxTx = 2
  MaxOther = 0
  Overruns = FALSE
  Crashes = {"kernel", "direct"}
  StaleSessions = TRUE
SPECIFICATION Spec
INVARIANT EventNamesHead
CHECK_DEADLOCK FALSE
