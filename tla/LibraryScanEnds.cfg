SPECIFICATION ScanFairSpec
CONSTANTS
  Libraries = {l1, l2}
  NoScan = NoScan
  MaxJobs = 1
  MaxErrors = 1
  MaxProgress = 0
  MaxFences = 1
  ScanEvents = {"slowDetection"}
PROPERTIES
  ScanEnds
CHECK_DEADLOCK FALSE
