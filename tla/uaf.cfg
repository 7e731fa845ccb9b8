\* del= removes a group while a policy thread is inside open_file, between
\* claiming an event and reporting it, or asleep in poll(2) on the group,
\* and add= reaps the freed structure.
CONSTANTS
  r1 = r1  r2 = r2  w1 = w1  w2 = w2  a = a  b = b
  None = None
  Requesters <- MC_Requesters
  Workers <- MC_Workers
  WorkerDev <- MC_DevSplit
  Names <- MC_Names
  CtrlScript <- MC_CoreScript
  GROUP_COUNT = 2
  MaxRequests = 1
  MayPoll = TRUE
  MayClose = FALSE
  MaxHeld = 2
SPECIFICATION Spec
INVARIANT NoUseAfterFree
CHECK_DEADLOCK FALSE
