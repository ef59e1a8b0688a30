SPECIFICATION RuntimeSpec
CONSTANTS
  Servers = {a}
  PlainKeys = {"recent_discovery", "recent_processing"}
  ComboKeys = {"combo_recent"}
  ChildOf <- RecentChild
  Sequences = {}
  StepOf <- RecentStep
  RunKey = "combo_recent"
  Runs = {r1}
  NoRun = NoRun
  NoServer = NoServer
  MaxStarts = 1
  ProbeCalls = {"stop", "delete", "shutdown", "startFails"}
  Libraries = {l1}
  NoScan = NoScan
  MaxJobs = 2
  MaxErrors = 2
  MaxProgress = 0
  MaxFences = 1
  ScanEvents = {"pollError", "refused", "dbError", "reset", "stop"}
  SnapKeys = {"status"}
  Readers = {r1, r2}
  MaxProducers = 2
  MaxInvalidations = 1
  MaxLifespans = 2
  EmbyServers = {"s"}
  Drainers = {1, 2}
  StreamReaders = {r1}
  MaxArrivals = 3
  MaxDispatchers = 2
  Endpoints = {"e", "f"}
  MaxConnections = 2
  MaxCloseErrors = 2
  Retention = 3
  PageLimits = {1, 2}
  MaxChanges = 8
  JobKeys = {k1}
  MaxRecent = 1
  MaxOps = 2
  MaxOwners = 2
  MaxLives = 3
  MaxOpFaults = 1
  OpEvents = {"dbError", "threadFails", "outage", "crash", "shutdown", "clear"}
  ItemIds = {"i1", "i2"}
  Signatures = {"s1", "s2"}
  Gap = 1
  MaxClock = 3
  MaxWindows = 2
  MaxDrifts = 1
  FeedEvents = {"removal", "prune", "full"}
INVARIANTS
  RuntimeTypeOK
  QuietAfterStop
  AnswersAreFresh
  OneBuilder
  SignalSeen
  OneConnection
  NothingMissed
  LiveWorkIsShown
  AnnouncedIsNoNews
PROPERTIES
  RecordsOnlyAdvance
  CacheOnlyAdvances
  EventKeepsMeaning
CHECK_DEADLOCK FALSE
