SPECIFICATION Spec
CONSTANTS
  p1 = p1
  p2 = p2
  Proc = {p1, p2}
  NoProc = NoProc
  MaxRun = 2
  StepCount = 1
  PollSteps = {1}
  MaxMisses = 1
  Events = {"lateHeartbeat", "slowCall"}
PROPERTIES
  HeartbeatFencesOwnRun
