SPECIFICATION FlowSpec
CONSTANTS
  p1 = p1
  p2 = p2
  Proc = {p1, p2}
  NoProc = NoProc
  MaxRun = 2
  StepCount = 2
  PollSteps = {1}
  MaxMisses = 1
  Events = {"crash", "connectionLoss", "stop", "shutdown"}
  ErrorEvents = {"dbError", "lateHeartbeat", "connectionLoss", "slowCall"}
SYMMETRY Symmetry
INVARIANTS
  TypeOK
  SuccessIsDurable
  Reusable
  OneLateStep
  RenewedNeverOverlap
PROPERTIES
  KeepsLedger
