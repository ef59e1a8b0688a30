SPECIFICATION SettlesSpec
CONSTANTS
  Proc = {p1}
  NoProc = NoProc
  MaxPub = 2
  Limit = 0
  Events = {"failure", "lostAnswer", "dbError", "crash", "reset"}
  MaxGen = 3
  BridgeEvents = {"refusal", "lostPush", "lostAnswer", "dbError", "journalError", "crash", "reinstall", "delete"}
  Workers = {"w1", "w2"}
  NoWorker = NoWorker
  Sources = {"concrete"}
  NoSource = NoSource
  GenericOf <- NoGeneric
  Slots <- OneAndTwoSlots
  MaxAdds = 1
  MaxRetries = 2
  MaxFaults = 1
  ProbeEvents = {"longWait", "dbError", "crash", "stop"}
  Servers = {"a"}
  PlainKeys = {"recent_discovery", "recent_processing"}
  ComboKeys = {"combo_recent"}
  ChildOf <- RecentChild
  Sequences = {}
  StepOf <- RecentStep
  RunKey = "combo_recent"
  Runs = {r1}
  NoRun = NoRun
  NoServer = NoServer
  MaxStarts = 1
  ProbeCalls = {"stop"}
  Endpoints = {"e"}
  MaxConnections = 2
  MaxCloseErrors = 1
PROPERTIES
  EventuallySettled
  EvidenceResolves
  RowsSettle
  StoppedRunEnds
  StopConverges
CHECK_DEADLOCK FALSE
