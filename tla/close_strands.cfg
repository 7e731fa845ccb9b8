\* One group served by two threads on the same device; a thread may close
\* its device (a policy process exiting) after reading an event and before
\* answering it.
CONSTANTS
  r1 = r1  r2 = r2  w1 = w1  w2 = w2  a = a  b = b
  None = None
  Requesters <- MC_OneRequester
  Workers <- MC_Workers
  WorkerDev <- MC_DevShared
  Names <- MC_Names
  CtrlScript <- MC_OneGroupScript
  GROUP_COUNT = 2
  MaxRequests = 1
  MayPoll = FALSE
  MayClose = TRUE
  MaxHeld = 1
SPECIFICATION FairSpec
PROPERTY RequestCompletes
CHECK_DEADLOCK FALSE
