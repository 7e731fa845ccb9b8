\* Progress of check_access: two groups served by one thread each, one of
\* them removed while events are pending; policy threads never close.
CONSTANTS
  r1 = r1  r2 = r2  w1 = w1  w2 = w2  a = a  b = b
  None = None
  Requesters <- MC_Requesters
  Workers <- MC_Workers
  WorkerDev <- MC_DevSplit
  Names <- MC_Names
  CtrlScript <- MC_LiveScript
  GROUP_COUNT = 2
  MaxRequests = 1
  MayPoll = FALSE
  MayClose = FALSE
  MaxHeld = 1
SPECIFICATION FairSpec
VIEW MC_LiveView
PROPERTY RequestCompletes
CHECK_DEADLOCK FALSE
