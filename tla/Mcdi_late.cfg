\* Lost and late answers, a sequence number that wraps, a reload.
CONSTANTS
  SeqMod = 3
  MaxCmds = 5
  MaxLate = 2
  MaxLoads = 2
  ShortErrors = FALSE
SPECIFICATION Spec
INVARIANTS TypeOK OwnResponse SuccessMeansDone MismatchNeedsTimeout FreedUnderMcNeedsTimeout
CHECK_DEADLOCK FALSE
