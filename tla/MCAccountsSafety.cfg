SPECIFICATION AccountsSpec
CONSTANTS
  a = a
  b = b
  Tabs = {a, b}
  Nicks = {"n"}
  BotNicks = {"n"}
  NeonNick = "n"
  Fresh = "guest"
  SessionLifetime = 1
  RefreshRate = 0
  MaxClock = 2
  MaxUsers = 3
  MaxFailures = 1
SYMMETRY MCSymmetry
INVARIANT AccountsTypeOK
INVARIANT SessionBounded
INVARIANT PageActsAsShown
INVARIANT NicksUnique
PROPERTY SessionKept
CHECK_DEADLOCK FALSE
