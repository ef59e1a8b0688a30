SPECIFICATION OccSpec
CONSTANTS
  OccProc = {p1}
  OccNoProc = OccNoProc
  MaxSlot = 2
  LeaseCount = 2
  OccEvents = {}
INVARIANT ClaimKeptForWorker
CHECK_DEADLOCK FALSE
