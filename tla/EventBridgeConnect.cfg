SPECIFICATION BridgeFairSpec
CONSTANTS
  MaxGen = 3
  BridgeEvents = {"lostPush"}
PROPERTIES
  ConnectRecovers
CHECK_DEADLOCK FALSE
