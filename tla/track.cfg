\* A tracking group served by two threads on its device, which may close
\* it, and a second group added meanwhile: tracked opens and closes, the
\* auto-removal on the last close, and draining of pending events; the
\* arbitration checked against ArbitrationAbstract.
CONSTANTS
  r1 = r1  r2 = r2  w1 = w1  w2 = w2  a = a  b = b
  None = None
  Requesters <- MC_Requesters
  Workers <- MC_Workers
  WorkerDev <- MC_DevShared
  Names <- MC_Names
  CtrlScript <- MC_TrackScript
  GROUP_COUNT = 2
  MaxRequests = 1
  MayPoll = FALSE
  MayClose = TRUE
  MaxHeld = 2
SPECIFICATION Spec
INVARIANTS
  AssignedAccounting
  ArbitrationOutcome
  ClaimExclusive
PROPERTY
  AbstractArbitration
CHECK_DEADLOCK FALSE
