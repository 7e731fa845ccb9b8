\* A tracked policy thread keeps its device open while its group is removed
\* and added again under the same name (and so the same id), then closes.
CONSTANTS
  r1 = r1  r2 = r2  w1 = w1  w2 = w2  a = a  b = b
  None = None
  Requesters <- MC_OneRequester
  Workers <- MC_Workers
  WorkerDev <- MC_DevSplit
  Names <- MC_Names
  CtrlScript <- MC_ReuseScript
  GROUP_COUNT = 2
  MaxRequests = 1
  MayPoll = TRUE
  MayClose = TRUE
  MaxHeld = 2
SPECIFICATION Spec
INVARIANT GroupRefAccounting
CHECK_DEADLOCK FALSE
