\* The last tracked close of a tracking group (group_count-- under
\* work_mutex only) while dazukofs_add_group increments group_count.
CONSTANTS
  r1 = r1  r2 = r2  w1 = w1  w2 = w2  a = a  b = b
  None = None
  Requesters <- MC_Requesters
  Workers <- MC_Workers
  WorkerDev <- MC_DevSplit
  Names <- MC_Names
  CtrlScript <- MC_TrackScript
  GROUP_COUNT = 2
  MaxRequests = 1
  MayPoll = TRUE
  MayClose = TRUE
  MaxHeld = 2
SPECIFICATION Spec
INVARIANT GroupCountAccurate
CHECK_DEADLOCK FALSE
