SPECIFICATION Spec
CONSTANTS
  Proc = {p1}
  NoProc = NoProc
  MaxPub = 1
  Limit = 0
  Events = {"lostAnswer"}
INVARIANTS
  AnnouncedOnce
