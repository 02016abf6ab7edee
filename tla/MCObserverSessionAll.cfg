SPECIFICATION Spec
CONSTANTS
  Threads = {t1, t2}
  Role = 1
  Roles = {0, 1, 2}
  MinRole = 2
  Lifetime = 1
  MaxTime = 3
  MaxNotices = 2
  MaxFaults = 1
INVARIANTS FreshHeader RefusalAttended
PROPERTY Recovers
