SPECIFICATION EndsSpec
CONSTANTS
  Proc = {"w1", "w2"}
  NoProc = NoProc
  MaxRun = 1
  StepCount = 2
  PollSteps = {1}
  MaxMisses = 1
  Events = {"lateHeartbeat", "slowCall", "stop", "crash", "connectionLoss"}
  OccProc = {"p1", "p2"}
  OccNoProc = OccNoProc
  MaxSlot = 1
  LeaseCount = 2
  OccEvents = {"failure", "crash"}
  JobKeys = {k1}
  MaxRecent = 1
  MaxOps = 1
  MaxOwners = 2
  MaxLives = 3
  MaxOpFaults = 1
  OpEvents = {"dbError", "threadFails", "outage", "crash", "shutdown", "clear"}
INVARIANT
  SingleConsumer
PROPERTIES
  StopHonoured
  WorkerEnds
  EventuallyConsumed
  AbandonedEnds
CHECK_DEADLOCK FALSE
