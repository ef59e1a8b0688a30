SPECIFICATION ClaimsSpec
CONSTANTS
  OccProc = {p1}
  OccNoProc = OccNoProc
  MaxSlot = 2
  LeaseCount = 2
  OccEvents = {"failure", "dbError", "slowRenewal", "stall", "shutdown"}
  Proc = {p1, p2}
  NoProc = NoProc
  MaxPub = 2
  Limit = 1
  Events = {"failure", "dbError", "guardLoss", "crash"}
  MaxGen = 4
  BridgeEvents = {"refusal", "lostPush", "lostAnswer", "dbError", "journalError", "crash", "reinstall", "delete"}
  Workers = {"w1", "w2"}
  NoWorker = NoWorker
  Sources = {"generic", "concrete"}
  NoSource = NoSource
  GenericOf <- GenericAndConcrete
  Slots <- OneAndTwoSlots
  MaxAdds = 2
  MaxRetries = 2
  MaxFaults = 1
  ProbeEvents = {"longWait", "dbError", "crash", "stop", "remove"}
  Servers = {a}
  PlainKeys = {"processing", "recent_processing"}
  ComboKeys = {}
  ChildOf <- EmptyCombos
  Sequences = {"recent_processing_all"}
  StepOf <- RecentStep
  RunKey = "combo_recent"
  Runs = {}
  NoRun = NoRun
  NoServer = NoServer
  MaxStarts = 2
  ProbeCalls = {"stop", "delete", "shutdown", "startFails"}
  Members = {"a", "b", "c"}
  NoMember = NoMember
  Items = {x}
  NoView = NoView
  HasItem <- TwoHaveThem
  MaxUserChanges = 2
  UserEvents = {"fetchFails", "writeFails", "dbError", "crash", "offline", "meanwhile", "links", "settings", "clone"}
INVARIANTS
  ClaimsTypeOK
  RecordedWasDone
  RunHasThread
  AnnouncedOnce
  SharedGeneration
  RejectedStaysOut
  OneProber
  QuietWhenAsked
  NoUnexpectedRemoval
PROPERTIES
  NoClaimLeftBehind
  KeepsAnnouncements
  ChangesCarried
CHECK_DEADLOCK FALSE
