SPECIFICATION Spec
CONSTANTS
  Global1 = Global1  n1 = n1  u1 = u1  u2 = u2
  Names = {Global1, n1}
  GlobalName = Global1
  Users = {u1, u2}
  Admins = {u1}
  External = External
  Within <- MCWithin
  OverviewLimit = 2
  MaxChats = 3
  MaxItems = 2
  MaxTime = 2
INVARIANT NamesUnique
INVARIANT SearchFinds
INVARIANT QueriesAccepted
\* The bounds let every run end.
CHECK_DEADLOCK FALSE
INVARIANT ReadsExact
