SPECIFICATION UserSpec
CONSTANTS
  Members = {a, b, c}
  NoMember = NoMember
  Items = {x}
  NoView = NoView
  HasItem <- AllItems
  MaxUserChanges = 1
  UserEvents = {"offline"}
INVARIANT StaysRemoved
CHECK_DEADLOCK FALSE
