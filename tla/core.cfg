\* Arbitration with two groups on two devices, a group removed and re-added
\* while events are in flight; no tracking groups.
CONSTANTS
  r1 = r1  r2 = r2  w1 = w1  w2 = w2  a = a  b = b
  None = None
  Requesters <- MC_Requesters
  Workers <- MC_Workers
  WorkerDev <- MC_DevSplit
  Names <- MC_Names
  CtrlScript <- MC_CoreScript
  GROUP_COUNT = 2
  MaxRequests = 1
  MayPoll = TRUE
  MayClose = FALSE
  MaxHeld = 2
SPECIFICATION Spec
INVARIANTS
  TypeOK
  AssignedAccounting
  ArbitrationOutcome
  GroupRefAccounting
  TodoOrder
  WorkingOwned
  RegistryWellFormed
CHECK_DEADLOCK FALSE
